---------------------------- MODULE TasksProofs ----------------------------
(***************************************************************************)
(* Proofs about Tasks.  TypeOK is an invariant whatever happens.  The      *)
(* other safety properties are invariants as long as no event but "kill"   *)
(* is let happen: a fork without memory breaks StacksOwned, a crash in a   *)
(* fork child SpacesOwned (fork_oom.cfg, child_fault.cfg).                 *)
(***************************************************************************)
EXTENDS Tasks, WellFoundedInduction, TLAPS

\* No event but the window manager's killing of programs.
KillOnly == Events \subseteq {"kill"}

\* A program, or its launcher, that is not a fork child.
Main(t) == Alive(t) /\ ~forked[t] /\ pc[t] \in {"elf", "tail"} \cup UserPCs

(***************************************************************************)
(* What the fields of a slot say about each other.                         *)
(***************************************************************************)
ZombieInv ==
  \A t \in Slots : state[t] = "ZOMBIE" =>
    t < task_count /\ forked[t] /\ pc[t] = "exited" /\ code[t] = 1
UnusedInv   == \A t \in Slots : t >= task_count => ~forked[t]
LivePcInv   == \A t \in Slots : t < task_count /\ state[t] \in Schedulable =>
                 pc[t] \notin {"exited", "stale"}
CurrentInv  == state[current] # "RUNNING" => pc[current] = "exited"
ForkedPcInv == \A t \in Slots : Alive(t) /\ forked[t] =>
                 pc[t] \in UserPCs \cup {"exited"}
Task0Inv ==
  /\ ~forked[0] /\ state[0] \in Schedulable /\ pc[0] \in UserPCs \cup {"shell"}
  /\ pc[0] # "shell" => ~gui
  /\ \A t \in Slots : Alive(t) /\ pc[t] = "shell" => t = 0

(***************************************************************************)
(* wm.c's elf_running as a lock: one program besides those of the text     *)
(* shell's task 0, and none when the GUI is off.                           *)
(***************************************************************************)
OneMainInv ==
  /\ \A t, u \in Slots \ {0} : Main(t) /\ Main(u) => t = u
  /\ \A t \in Slots \ {0} : Main(t) => elf_running /\ gui

\* A waiter's child is its own, and stays a zombie until the waiter reaps it.
WaitInv ==
  \A t \in Slots : Alive(t) /\ pc[t] \in {"wait", "reap"} =>
    /\ wchild[t] \in Slots \ {0, t} /\ wchild[t] < task_count
    /\ forked[wchild[t]] /\ parent[wchild[t]] = t
    /\ pc[t] = "reap" => state[wchild[t]] = "ZOMBIE"

IndInv ==
  /\ TypeOK /\ OneRunning
  /\ ZombieInv /\ UnusedInv /\ LivePcInv /\ CurrentInv /\ ForkedPcInv
  /\ Task0Inv /\ OneMainInv /\ WaitInv
  /\ StacksOwned /\ SpacesOwned /\ ExitReturnsHome

-----------------------------------------------------------------------------
(***************************************************************************)
(* The helpers.                                                            *)
(***************************************************************************)

\* A non-empty set of naturals has a least element.
LEMMA LeastNat ==
  ASSUME NEW S \in SUBSET Nat, S # {}
  PROVE  \E m \in S : \A n \in S : m <= n
<1>. DEFINE LT == {ss \in Nat \X Nat : ss[1] < ss[2]}
<1>1. IsWellFoundedOn(LT, Nat)
  BY NatLessThanWellFounded DEF OpToRel
<1>2. \E m \in S : \A n \in S : ~(<<n, m>> \in LT)
  <2>. HIDE DEF LT
  <2>. QED
    BY <1>1, WFMin
<1>3. \A m, n \in Nat : <<n, m>> \notin LT => m <= n
  OBVIOUS
<1>. HIDE DEF LT
<1>. QED
  BY <1>2, <1>3

\* Round robin's choice is a slot in use; if it is another than the running
\* one, it is READY or RUNNING.
LEMMA NextTaskFacts ==
  ASSUME TypeOK
  PROVE  /\ NextTask \in 0 .. task_count - 1
         /\ NextTask # current => state[NextTask] \in Schedulable
<1>1. CASE Runnable = {}
  BY <1>1 DEF NextTask, TypeOK
<1>2. CASE Runnable # {}
  <2>. DEFINE D == {Distance(t) : t \in Runnable}
  <2>1. D \in SUBSET Nat /\ D # {}
    BY <1>2, MaxTasksAssumption DEF Distance, Runnable, TypeOK
  <2>2. \E m \in D : \A n \in D : m <= n
    BY <2>1, LeastNat
  <2>3. \E t \in Runnable : \A u \in Runnable : Distance(t) <= Distance(u)
    BY <2>2
  <2>4. NextTask \in Runnable
    BY <1>2, <2>3 DEF NextTask
  <2>. QED
    BY <2>4 DEF Runnable
<1>. QED
  BY <1>1, <1>2

\* sched_fork's slot: a dead one whose child was reaped, or the first unused.
LEMMA ForkSlotFacts ==
  ASSUME TypeOK
  PROVE  \/ ForkSlot = task_count /\ Recyclable = {}
         \/ /\ ForkSlot \in 1 .. task_count - 1
            /\ state[ForkSlot] = "DEAD" /\ ~forked[ForkSlot]
<1>1. CASE Recyclable = {}
  BY <1>1 DEF ForkSlot
<1>2. CASE Recyclable # {}
  <2>1. Recyclable \in SUBSET Nat
    BY MaxTasksAssumption DEF Recyclable, TypeOK
  <2>2. \E t \in Recyclable : \A u \in Recyclable : t <= u
    BY <1>2, <2>1, LeastNat
  <2>3. ForkSlot \in Recyclable
    BY <1>2, <2>2 DEF ForkSlot
  <2>. QED
    BY <2>3 DEF Recyclable
<1>. QED
  BY <1>1, <1>2

\* The allocators return a member of the set they are given.
LEMMA FreshFacts ==
  ASSUME NEW S, S # {}
  PROVE  Fresh(S) \in S
BY DEF Fresh

\* Block1 and Block2 are two different blocks that are not allocated.
LEMMA TwoBlocksFacts ==
  ASSUME TwoBlocks
  PROVE  /\ Block1 \in Blocks \ heap
         /\ Block2 \in Blocks \ heap
         /\ Block1 # Block2
<1>1. Block1 \in Blocks \ heap
  BY FreshFacts DEF TwoBlocks, Block1
<1>2. Block2 \in Blocks \ (heap \cup {Block1})
  BY FreshFacts DEF TwoBlocks, Block2
<1>. QED
  BY <1>1, <1>2

-----------------------------------------------------------------------------
(***************************************************************************)
(* Type correctness, whatever events are let happen.                       *)
(***************************************************************************)
LEMMA InitTypeOK == Init => TypeOK
<1>. SUFFICES ASSUME Init PROVE TypeOK
  OBVIOUS
<1>1. 0 \in Slots /\ 0 \in 0 .. task_count - 1 /\ task_count \in 1 .. MaxTasks
  BY MaxTasksAssumption DEF Init, Slots
<1>2. /\ state \in [Slots -> {"READY", "RUNNING", "DEAD", "ZOMBIE"}]
      /\ pc \in [Slots -> UserPCs \cup OtherPCs]
  BY DEF Init, UserPCs, OtherPCs
<1>. QED
  BY <1>1, <1>2 DEF Init, TypeOK

LEMMA NextTypeOK == TypeOK /\ [Next]_vars => TypeOK'
<1>. SUFFICES ASSUME TypeOK, [Next]_vars
              PROVE  TypeOK'
  OBVIOUS
<1>. USE MaxTasksAssumption DEF TypeOK, Slots, wm, UserPCs, OtherPCs
<1>. DEFINE s == Fresh(Spaces \ spaces)
<1>s. Spaces \ spaces # {} => s \in Spaces \ spaces
  BY FreshFacts
<1>b. Blocks \ heap # {} => Block1 \in Blocks \ heap
  BY FreshFacts DEF Block1
<1>. HIDE DEF s
<1>1. CASE Tick
  BY <1>1, NextTaskFacts DEF Tick, Demoted
<1>2. CASE SpawnElf
  BY <1>2, TwoBlocksFacts DEF SpawnElf, Spawn
<1>3. CASE SpawnCmd
  BY <1>3, TwoBlocksFacts DEF SpawnCmd, Spawn
<1>4. CASE SpawnOOM
  BY SMTT(40), <1>4, <1>b DEF SpawnOOM
<1>5. CASE Fork
  <2>1. /\ CanFork /\ TwoBlocks /\ ForkHead(s)
        /\ spaces' = spaces \cup {s}
    BY <1>5 DEF Fork, s
  <2>2. ForkSlot \in 1 .. task_count /\ ForkSlot < MaxTasks
    BY SMTT(40), <2>1, ForkSlotFacts DEF CanFork
  <2>3. s \in Spaces /\ current \in Slots
    BY <1>s, <2>1 DEF CanFork
  <2>4. /\ state'  \in [Slots -> {"READY", "RUNNING", "DEAD", "ZOMBIE"}]
        /\ forked' \in [Slots -> BOOLEAN]
        /\ parent' \in [Slots -> Slots]
        /\ code'   \in [Slots -> {0, 1}]
        /\ cr3'    \in [Slots -> Spaces \cup {KernelPT, NULL}]
        /\ spaces' \subseteq Spaces
    BY <2>1, <2>3 DEF ForkHead
  <2>5. /\ stack' \in [Slots -> Blocks \cup {NULL}]
        /\ irq'   \in [Slots -> Blocks \cup {NULL}]
        /\ heap'  \subseteq Blocks
    BY <1>5, <2>1, TwoBlocksFacts DEF Fork
  <2>6. task_count' \in 1 .. MaxTasks /\ current' \in 0 .. task_count' - 1
    BY <1>5, <2>2 DEF Fork
  <2>7. /\ pc'     \in [Slots -> UserPCs \cup OtherPCs]
        /\ wchild' \in [Slots -> Slots \cup {NULL}]
    BY <1>5 DEF Fork
  <2>. QED
    BY <1>5, <2>4, <2>5, <2>6, <2>7 DEF Fork
<1>6. CASE ForkOOM
  <2>1. CanFork /\ ForkHead(s)
    BY <1>6 DEF ForkOOM, s
  <2>2. s \in Spaces /\ current \in Slots
    BY <1>s, <2>1 DEF CanFork
  <2>3. /\ state'  \in [Slots -> {"READY", "RUNNING", "DEAD", "ZOMBIE"}]
        /\ forked' \in [Slots -> BOOLEAN]
        /\ parent' \in [Slots -> Slots]
        /\ code'   \in [Slots -> {0, 1}]
        /\ cr3'    \in [Slots -> Spaces \cup {KernelPT, NULL}]
    BY <2>1, <2>2 DEF ForkHead
  <2>4. /\ stack' \in [Slots -> Blocks \cup {NULL}]
        /\ irq'   \in [Slots -> Blocks \cup {NULL}]
    BY ZenonT(90), <1>6, <1>b DEF ForkOOM
  <2>. QED
    BY <1>6, <2>3, <2>4 DEF ForkOOM
<1>7. CASE ElfExec
  <2>1. s \in Spaces /\ current \in Slots
    BY <1>7, <1>s DEF ElfExec, s
  <2>2. spaces' \subseteq Spaces /\ cr3' \in [Slots -> Spaces \cup {KernelPT, NULL}]
    BY <1>7, <2>1 DEF ElfExec, s
  <2>3. pc' \in [Slots -> UserPCs \cup OtherPCs] /\ saved' \in Slots
    BY <1>7, <2>1 DEF ElfExec, Goto
  <2>. QED
    BY <1>7, <2>2, <2>3 DEF ElfExec
<1>8. CASE ElfLoadFails
  BY <1>8 DEF ElfLoadFails, Goto, table
<1>9. CASE Exec
  BY <1>9, <1>s DEF Exec, s
<1>10. CASE ExitChild
  BY <1>10 DEF ExitChild, Goto
<1>11. CASE ExitMain
  BY <1>11 DEF ExitMain, ExitRestore, Goto
<1>12. CASE Fault
  BY <1>12 DEF Fault, ExitRestore, Goto
<1>13. CASE Tail
  BY <1>13 DEF Tail, Goto, table
<1>14. CASE CmdDone
  BY <1>14 DEF CmdDone, Goto, table
<1>15. CASE TaskExit
  BY <1>15 DEF TaskExit, Goto
<1>16. CASE Wait
  BY <1>16 DEF Wait, WaitBegin, Goto, table
<1>17. CASE WaitSees
  BY <1>17 DEF WaitSees, Goto, table
<1>18. CASE Reap
  BY <1>18 DEF Reap, Goto
<1>19. CASE EnterGui
  BY <1>19 DEF EnterGui, table
<1>20. CASE LeaveGui
  BY <1>20 DEF LeaveGui
<1>21. CASE Close
  BY ZenonT(40), <1>21 DEF Close, CloseWindow
<1>22. CASE CloseOther
  BY <1>22 DEF CloseOther, table
<1>23. CASE UNCHANGED vars
  BY <1>23 DEF vars, table
<1>. QED
  BY <1>1, <1>2, <1>3, <1>4, <1>5, <1>6, <1>7, <1>8, <1>9, <1>10, <1>11, <1>12,
     <1>13, <1>14, <1>15, <1>16, <1>17, <1>18, <1>19, <1>20, <1>21, <1>22, <1>23
  DEF Next

\* TypeOK: whatever the tasks, the programs and the user do, and whichever
\* allocation fails, every field keeps its type and task_count its bound.
THEOREM TypeCorrect == Spec => []TypeOK
BY InitTypeOK, NextTypeOK, PTL DEF Spec

-----------------------------------------------------------------------------
(***************************************************************************)
(* IndInv is an invariant of Tasks when no event but "kill" is let happen. *)
(* One lemma per action: each shows the parts of IndInv one group at a     *)
(* time.                                                                   *)
(***************************************************************************)

\* The running task's slot is in use, and it is alive unless it has exited.
LEMMA CurrentFacts ==
  ASSUME IndInv
  PROVE  /\ current \in Slots /\ current < task_count
         /\ pc[current] # "exited" => state[current] = "RUNNING" /\ Alive(current)
         /\ pc[current] = "shell" => current = 0
BY MaxTasksAssumption DEF IndInv, TypeOK, CurrentInv, Task0Inv, Alive,
     Schedulable, Slots

\* A switch changes no slot's liveness: RUNNING and READY trade places.
LEMMA TickInd ==
  ASSUME KillOnly, IndInv, TypeOK', Tick
  PROVE  IndInv'
<1>. USE MaxTasksAssumption DEF IndInv, TypeOK, Slots, Schedulable, UserPCs
<1>a. \A t \in Slots : Alive(t)' <=> Alive(t)
  BY NextTaskFacts DEF Tick, Demoted, Alive
<1>1. OneRunning' /\ CurrentInv'
  BY NextTaskFacts DEF Tick, Demoted, wm, OneRunning, CurrentInv
<1>2. ZombieInv' /\ UnusedInv' /\ LivePcInv'
  BY NextTaskFacts DEF Tick, Demoted, wm, ZombieInv, UnusedInv, LivePcInv
<1>3. ForkedPcInv' /\ Task0Inv'
  BY SMTT(40), NextTaskFacts DEF Tick, Demoted, wm, ForkedPcInv, Task0Inv,
       CurrentInv, Alive
<1>4. OneMainInv'
  BY <1>a DEF Tick, OneMainInv, Main, wm
<1>5. WaitInv'
  <2>1. NextTask \in Slots /\ current \in Slots /\ state[NextTask] # "ZOMBIE"
    BY NextTaskFacts DEF Tick
  <2>2. \A t \in Slots : state[t] = "ZOMBIE" => state'[t] = "ZOMBIE"
    BY <2>1 DEF Tick, Demoted
  <2>. QED
    BY <1>a, <2>2 DEF Tick, WaitInv
<1>6. StacksOwned'
  BY <1>a DEF Tick, StacksOwned, Stacks
<1>7. SpacesOwned'
  BY <1>a, NextTaskFacts DEF Tick, Demoted, SpacesOwned, HasSpace, OneRunning
<1>8. ExitReturnsHome'
  BY NextTaskFacts DEF Tick, Demoted, wm, ExitReturnsHome, ZombieInv,
       CurrentInv, OneMainInv, Main, Alive
<1>. QED
  BY <1>1, <1>2, <1>3, <1>4, <1>5, <1>6, <1>7, <1>8

\* A new program: wm_spawn_elf starts one only if none runs.
LEMMA SpawnElfInd ==
  ASSUME KillOnly, IndInv, TypeOK', SpawnElf
  PROVE  IndInv'
<1>. USE MaxTasksAssumption DEF IndInv, TypeOK, Slots, Schedulable, UserPCs
<1>1. OneRunning' /\ CurrentInv'
  BY TwoBlocksFacts DEF SpawnElf, Spawn, At, OneRunning, CurrentInv
<1>2. ZombieInv' /\ UnusedInv' /\ LivePcInv'
  BY TwoBlocksFacts DEF SpawnElf, Spawn, At, ZombieInv, UnusedInv, LivePcInv
<1>3. ForkedPcInv' /\ Task0Inv'
  BY TwoBlocksFacts DEF SpawnElf, Spawn, At, ForkedPcInv, Task0Inv,
       CurrentInv, LivePcInv, UnusedInv, Alive
<1>4. OneMainInv'
  BY SMTT(40), TwoBlocksFacts DEF SpawnElf, Spawn, At, OneMainInv, Main,
       Task0Inv, CurrentInv, ZombieInv, Alive
<1>5. WaitInv'
  BY TwoBlocksFacts DEF SpawnElf, Spawn, At, WaitInv, ZombieInv, Alive
<1>6. StacksOwned'
  BY TwoBlocksFacts DEF SpawnElf, Spawn, At, StacksOwned, Stacks, ZombieInv,
       Alive
<1>7. SpacesOwned'
  BY TwoBlocksFacts DEF SpawnElf, Spawn, At, SpacesOwned, HasSpace, ZombieInv,
       CurrentInv, WaitInv, Alive
<1>8. ExitReturnsHome'
  BY TwoBlocksFacts DEF SpawnElf, Spawn, At, ExitReturnsHome, ZombieInv,
       CurrentInv, OneMainInv, Main, Alive
<1>. QED
  BY <1>1, <1>2, <1>3, <1>4, <1>5, <1>6, <1>7, <1>8

\* A new shell command task: never a program, so OneMainInv is not concerned.
LEMMA SpawnCmdInd ==
  ASSUME KillOnly, IndInv, TypeOK', SpawnCmd
  PROVE  IndInv'
<1>. USE MaxTasksAssumption DEF IndInv, TypeOK, Slots, Schedulable, UserPCs
<1>1. OneRunning' /\ CurrentInv'
  BY TwoBlocksFacts DEF SpawnCmd, Spawn, At, OneRunning, CurrentInv
<1>2. ZombieInv' /\ UnusedInv' /\ LivePcInv'
  BY TwoBlocksFacts DEF SpawnCmd, Spawn, At, ZombieInv, UnusedInv, LivePcInv
<1>3. ForkedPcInv' /\ Task0Inv'
  BY TwoBlocksFacts DEF SpawnCmd, Spawn, At, ForkedPcInv, Task0Inv,
       CurrentInv, LivePcInv, UnusedInv, Alive
<1>4. OneMainInv'
  BY TwoBlocksFacts DEF SpawnCmd, Spawn, At, OneMainInv, Main, Task0Inv,
       CurrentInv, ZombieInv, Alive
<1>5. WaitInv'
  BY TwoBlocksFacts DEF SpawnCmd, Spawn, At, WaitInv, ZombieInv, Alive
<1>6. StacksOwned'
  BY TwoBlocksFacts DEF SpawnCmd, Spawn, At, StacksOwned, Stacks, ZombieInv,
       Alive
<1>7. SpacesOwned'
  BY TwoBlocksFacts DEF SpawnCmd, Spawn, At, SpacesOwned, HasSpace, ZombieInv,
       CurrentInv, WaitInv, Alive
<1>8. ExitReturnsHome'
  BY TwoBlocksFacts DEF SpawnCmd, Spawn, At, ExitReturnsHome, ZombieInv,
       CurrentInv, OneMainInv, Main, Alive
<1>. QED
  BY <1>1, <1>2, <1>3, <1>4, <1>5, <1>6, <1>7, <1>8

\* A failed spawn touches only a slot beyond task_count.
LEMMA SpawnOOMInd ==
  ASSUME KillOnly, IndInv, TypeOK', SpawnOOM
  PROVE  IndInv'
<1>b. Blocks \ heap # {} => Block1 \in Blocks \ heap
  BY FreshFacts DEF Block1
<1>. USE MaxTasksAssumption DEF IndInv, TypeOK, Slots, Schedulable, UserPCs
<1>a. \A t \in Slots : Alive(t)' <=> Alive(t)
  BY DEF SpawnOOM, Alive
<1>1. OneRunning' /\ CurrentInv'
  BY <1>b DEF SpawnOOM, At, wm, OneRunning, CurrentInv
<1>2. ZombieInv' /\ UnusedInv' /\ LivePcInv'
  BY <1>b DEF SpawnOOM, At, wm, ZombieInv, UnusedInv, LivePcInv
<1>3. ForkedPcInv' /\ Task0Inv'
  BY <1>b DEF SpawnOOM, At, wm, ForkedPcInv, Task0Inv, CurrentInv, Alive
<1>4. OneMainInv'
  BY <1>b DEF SpawnOOM, At, wm, OneMainInv, Main, Task0Inv, CurrentInv,
       ZombieInv, Alive
<1>5. WaitInv'
  BY <1>b DEF SpawnOOM, At, wm, WaitInv, ZombieInv, Alive
<1>6. StacksOwned'
  BY SMTT(40), <1>a, <1>b DEF SpawnOOM, StacksOwned, Stacks, Alive
<1>7. SpacesOwned'
  BY <1>b DEF SpawnOOM, At, wm, SpacesOwned, HasSpace, ZombieInv, CurrentInv,
       WaitInv, Alive
<1>8. ExitReturnsHome'
  BY <1>b DEF SpawnOOM, At, wm, ExitReturnsHome, ZombieInv, CurrentInv,
       OneMainInv, Main, Alive
<1>. QED
  BY <1>1, <1>2, <1>3, <1>4, <1>5, <1>6, <1>7, <1>8

\* A fork child gets a slot, two blocks and a page table nobody uses.
LEMMA ForkInd ==
  ASSUME IndInv, TypeOK', Fork
  PROVE  IndInv'
<1>. DEFINE s == Fresh(Spaces \ spaces)
            k == ForkSlot
<1>1. /\ current \in Slots /\ state[current] = "RUNNING" /\ Alive(current)
      /\ k < MaxTasks /\ s \in Spaces \ spaces
  BY CurrentFacts, FreshFacts DEF Fork, CanFork, At
<1>2. /\ MaxTasks \in Nat /\ task_count \in 1 .. MaxTasks /\ current < task_count
      /\ Slots = 0 .. MaxTasks - 1
  BY MaxTasksAssumption, CurrentFacts DEF IndInv, TypeOK, Slots
<1>3. /\ k \in 1 .. task_count
      /\ k # task_count => k < task_count /\ state[k] = "DEAD" /\ ~forked[k]
  BY <1>2, ForkSlotFacts DEF IndInv
<1>. HIDE DEF k, s
<1>4. k \in Slots \ {0, current} /\ ~Alive(k) /\ ~forked[k]
  BY <1>1, <1>2, <1>3 DEF IndInv, UnusedInv, Alive, Schedulable
<1>5. /\ state'  = [state  EXCEPT ![k] = "READY"]
      /\ forked' = [forked EXCEPT ![k] = TRUE]
      /\ parent' = [parent EXCEPT ![k] = current]
      /\ code'   = [code   EXCEPT ![k] = 0]
      /\ cr3'    = [cr3    EXCEPT ![k] = s]
      /\ pc'     = [pc     EXCEPT ![k] = "user"]
      /\ wchild' = [wchild EXCEPT ![k] = NULL]
      /\ spaces' = spaces \cup {s}
      /\ task_count' = IF k = task_count THEN task_count + 1 ELSE task_count
      /\ UNCHANGED <<current, saved, elf_running, gui>>
  BY DEF Fork, ForkHead, wm, k, s
<1>6. /\ state  \in [Slots -> {"READY", "RUNNING", "DEAD", "ZOMBIE"}]
      /\ forked \in [Slots -> BOOLEAN] /\ parent \in [Slots -> Slots]
      /\ code \in [Slots -> {0, 1}] /\ cr3 \in [Slots -> Spaces \cup {KernelPT, NULL}]
      /\ pc \in [Slots -> UserPCs \cup OtherPCs]
      /\ wchild \in [Slots -> Slots \cup {NULL}]
  BY DEF IndInv, TypeOK
<1>7. /\ \A t \in Slots : t < task_count' <=> t < task_count \/ t = k
      /\ k < task_count'
  BY <1>2, <1>3, <1>4, <1>5
<1>8. \A t \in Slots : Alive(t)' <=> Alive(t) \/ t = k
  BY <1>4, <1>5, <1>6, <1>7 DEF Alive, Schedulable
<1>9. OneRunning' /\ CurrentInv'
  BY <1>1, <1>4, <1>5, <1>6 DEF IndInv, OneRunning, CurrentInv
<1>10. ZombieInv' /\ UnusedInv' /\ LivePcInv'
  BY SMTT(40), <1>2, <1>4, <1>5, <1>6, <1>7 DEF IndInv, ZombieInv, UnusedInv,
       LivePcInv
<1>11. ForkedPcInv' /\ Task0Inv'
  BY <1>4, <1>5, <1>6, <1>8 DEF IndInv, ForkedPcInv, Task0Inv, UserPCs
<1>12. OneMainInv'
  BY <1>4, <1>5, <1>6, <1>8 DEF IndInv, OneMainInv, Main
<1>13. WaitInv'
  <2>. SUFFICES ASSUME NEW t \in Slots, Alive(t)', pc'[t] \in {"wait", "reap"}
                PROVE  /\ wchild'[t] \in Slots \ {0, t} /\ wchild'[t] < task_count'
                       /\ forked'[wchild'[t]] /\ parent'[wchild'[t]] = t
                       /\ pc'[t] = "reap" => state'[wchild'[t]] = "ZOMBIE"
    BY DEF WaitInv
  <2>1. t # k /\ Alive(t) /\ pc'[t] = pc[t] /\ wchild'[t] = wchild[t]
    BY <1>4, <1>5, <1>6, <1>8
  <2>2. /\ wchild[t] \in Slots \ {0, t, k} /\ wchild[t] < task_count
        /\ forked[wchild[t]] /\ parent[wchild[t]] = t
        /\ pc[t] = "reap" => state[wchild[t]] = "ZOMBIE"
    BY <1>4, <2>1 DEF IndInv, WaitInv
  <2>. QED
    BY <1>5, <1>6, <1>7, <2>1, <2>2
<1>14. StacksOwned'
  BY <1>4, <1>5, <1>6, <1>8, TwoBlocksFacts DEF IndInv, Fork, StacksOwned,
       Stacks, k, TypeOK
<1>15. SpacesOwned'
  BY <1>1, <1>4, <1>5, <1>6, <1>8 DEF IndInv, SpacesOwned, HasSpace
<1>16. ExitReturnsHome'
  BY <1>4, <1>5, <1>6, <1>8 DEF IndInv, ExitReturnsHome
<1>. QED
  BY <1>9, <1>10, <1>11, <1>12, <1>13, <1>14, <1>15, <1>16 DEF IndInv

\* The launcher of the only program takes the saved context for itself.
LEMMA ElfExecInd ==
  ASSUME KillOnly, IndInv, TypeOK', ElfExec
  PROVE  IndInv'
<1>. DEFINE s == Fresh(Spaces \ spaces)
<1>s. Spaces \ spaces # {} => s \in Spaces \ spaces
  BY FreshFacts
<1>. USE MaxTasksAssumption DEF IndInv, TypeOK, Slots, Schedulable, UserPCs
<1>a. \A t \in Slots : Alive(t)' <=> Alive(t)
  BY DEF ElfExec, Alive
<1>c. current \in Slots
  BY CurrentFacts
<1>h. /\ s \in Spaces \ spaces /\ spaces' = spaces \cup {s}
      /\ cr3' = [cr3 EXCEPT ![current] = s]
      /\ \A t \in Slots \ {current} : HasSpace(t)' <=> HasSpace(t)
  BY <1>s DEF ElfExec, Goto, HasSpace
<1>. HIDE DEF s
<1>1. OneRunning' /\ CurrentInv'
  BY <1>s DEF ElfExec, MayExec, At, Goto, CanRun, wm, OneRunning, CurrentInv
<1>2. ZombieInv' /\ UnusedInv' /\ LivePcInv'
  BY <1>s DEF ElfExec, MayExec, At, Goto, CanRun, wm, ZombieInv, UnusedInv,
       LivePcInv
<1>3. ForkedPcInv' /\ Task0Inv'
  BY <1>s DEF ElfExec, MayExec, At, Goto, CanRun, wm, ForkedPcInv, Task0Inv,
       CurrentInv, Alive
<1>4. OneMainInv'
  BY <1>s DEF ElfExec, MayExec, At, Goto, CanRun, wm, OneMainInv, Main,
       Task0Inv, CurrentInv, ZombieInv, Alive
<1>5. WaitInv'
  BY <1>s DEF ElfExec, MayExec, At, Goto, CanRun, wm, WaitInv, ZombieInv, Alive
<1>6. StacksOwned'
  BY <1>s DEF ElfExec, MayExec, At, Goto, CanRun, wm, StacksOwned, Stacks,
       ZombieInv, Alive
<1>7. SpacesOwned'
  BY ZenonT(40), <1>a, <1>c, <1>h DEF SpacesOwned
<1>8. ExitReturnsHome'
  BY <1>s DEF ElfExec, MayExec, At, Goto, CanRun, wm, ExitReturnsHome,
       ZombieInv, CurrentInv, OneMainInv, Main, Task0Inv, ForkedPcInv, Alive
<1>. QED
  BY <1>1, <1>2, <1>3, <1>4, <1>5, <1>6, <1>7, <1>8

\* A launch that fails goes straight to its end.
LEMMA ElfLoadFailsInd ==
  ASSUME KillOnly, IndInv, TypeOK', ElfLoadFails
  PROVE  IndInv'
<1>. USE MaxTasksAssumption DEF IndInv, TypeOK, Slots, Schedulable, UserPCs
<1>1. OneRunning' /\ CurrentInv'
  BY DEF ElfLoadFails, At, Goto, table, wm, OneRunning, CurrentInv
<1>2. ZombieInv' /\ UnusedInv' /\ LivePcInv'
  BY DEF ElfLoadFails, At, Goto, table, wm, ZombieInv, UnusedInv, LivePcInv
<1>3. ForkedPcInv' /\ Task0Inv'
  BY DEF ElfLoadFails, At, Goto, table, wm, ForkedPcInv, Task0Inv, CurrentInv,
       Alive
<1>4. OneMainInv'
  BY DEF ElfLoadFails, At, Goto, table, wm, OneMainInv, Main, Task0Inv,
       CurrentInv, ZombieInv, Alive
<1>5. WaitInv'
  BY DEF ElfLoadFails, At, Goto, table, wm, WaitInv, ZombieInv, Alive
<1>6. StacksOwned'
  BY DEF ElfLoadFails, At, Goto, table, wm, StacksOwned, Stacks, ZombieInv,
       Alive
<1>7. SpacesOwned'
  BY DEF ElfLoadFails, At, Goto, table, wm, SpacesOwned, HasSpace, ZombieInv,
       CurrentInv, WaitInv, Alive
<1>8. ExitReturnsHome'
  BY DEF ElfLoadFails, At, Goto, table, wm, ExitReturnsHome, ZombieInv,
       CurrentInv, OneMainInv, Main, Alive
<1>. QED
  BY <1>1, <1>2, <1>3, <1>4, <1>5, <1>6, <1>7, <1>8

\* The caller's page table is replaced by a fresh one, then freed.
LEMMA ExecInd ==
  ASSUME KillOnly, IndInv, TypeOK', Exec
  PROVE  IndInv'
<1>. DEFINE s == Fresh(Spaces \ spaces)
<1>s. Spaces \ spaces # {} => s \in Spaces \ spaces
  BY FreshFacts
<1>. USE MaxTasksAssumption DEF IndInv, TypeOK, Slots, Schedulable, UserPCs
<1>a. \A t \in Slots : Alive(t)' <=> Alive(t)
  BY DEF Exec, Alive
<1>c. current \in Slots /\ Alive(current) /\ HasSpace(current)
  BY CurrentFacts DEF Exec, At, HasSpace
<1>h. /\ s \in Spaces \ spaces /\ spaces' = (spaces \cup {s}) \ {cr3[current]}
      /\ cr3' = [cr3 EXCEPT ![current] = s]
      /\ \A t \in Slots : HasSpace(t)' <=> HasSpace(t)
  BY <1>s DEF Exec, HasSpace
<1>. HIDE DEF s
<1>1. OneRunning' /\ CurrentInv'
  BY <1>s DEF Exec, At, wm, CanRun, OneRunning, CurrentInv
<1>2. ZombieInv' /\ UnusedInv' /\ LivePcInv'
  BY <1>s DEF Exec, At, wm, CanRun, ZombieInv, UnusedInv, LivePcInv
<1>3. ForkedPcInv' /\ Task0Inv'
  BY <1>s DEF Exec, At, wm, CanRun, ForkedPcInv, Task0Inv, CurrentInv, Alive
<1>4. OneMainInv'
  BY <1>s DEF Exec, At, wm, CanRun, OneMainInv, Main, Task0Inv, CurrentInv,
       ZombieInv, Alive
<1>5. WaitInv'
  BY <1>s DEF Exec, At, wm, CanRun, WaitInv, ZombieInv, Alive
<1>6. StacksOwned'
  BY <1>s DEF Exec, At, wm, CanRun, StacksOwned, Stacks, ZombieInv, Alive
<1>7. SpacesOwned'
  <2>1. \A t \in Slots : Alive(t) /\ HasSpace(t) => cr3[t] # s
    BY <1>h DEF SpacesOwned
  <2>. QED
    BY <1>a, <1>c, <1>h, <2>1 DEF SpacesOwned
<1>8. ExitReturnsHome'
  BY <1>s DEF Exec, At, wm, CanRun, ExitReturnsHome, ZombieInv, CurrentInv,
       OneMainInv, Main, Alive
<1>. QED
  BY <1>1, <1>2, <1>3, <1>4, <1>5, <1>6, <1>7, <1>8

\* A child that exits is a zombie that keeps its stacks and page table.
LEMMA ExitChildInd ==
  ASSUME KillOnly, IndInv, TypeOK', ExitChild
  PROVE  IndInv'
<1>. USE MaxTasksAssumption DEF IndInv, TypeOK, Slots, Schedulable, UserPCs
<1>1. OneRunning' /\ CurrentInv'
  BY DEF ExitChild, At, Goto, wm, OneRunning, CurrentInv
<1>2. ZombieInv' /\ UnusedInv' /\ LivePcInv'
  BY DEF ExitChild, At, Goto, wm, ZombieInv, UnusedInv, LivePcInv
<1>3. ForkedPcInv' /\ Task0Inv'
  BY DEF ExitChild, At, Goto, wm, ForkedPcInv, Task0Inv, CurrentInv, Alive
<1>4. OneMainInv'
  BY SMTT(40) DEF ExitChild, At, Goto, wm, OneMainInv, Main, Task0Inv,
       CurrentInv, ZombieInv, Alive
<1>5. WaitInv'
  BY DEF ExitChild, At, Goto, wm, WaitInv, ZombieInv, Alive
<1>6. StacksOwned'
  BY SMTT(40) DEF ExitChild, At, Goto, wm, StacksOwned, Stacks, ZombieInv,
       CurrentInv, Alive
<1>7. SpacesOwned'
  BY DEF ExitChild, At, Goto, wm, SpacesOwned, HasSpace, ZombieInv,
       CurrentInv, WaitInv, Alive
<1>8. ExitReturnsHome'
  BY DEF ExitChild, At, Goto, wm, ExitReturnsHome, ZombieInv, CurrentInv,
       OneMainInv, Main, Alive
<1>. QED
  BY <1>1, <1>2, <1>3, <1>4, <1>5, <1>6, <1>7, <1>8

\* The program's exit resumes its own elf_exec: saved is the current task.
LEMMA ExitMainInd ==
  ASSUME KillOnly, IndInv, TypeOK', ExitMain
  PROVE  IndInv'
<1>. USE MaxTasksAssumption DEF IndInv, TypeOK, Slots, Schedulable, UserPCs
<1>1. OneRunning' /\ CurrentInv'
  BY DEF ExitMain, ExitRestore, At, Goto, CanRun, wm, OneRunning, CurrentInv
<1>2. ZombieInv' /\ UnusedInv' /\ LivePcInv'
  BY DEF ExitMain, ExitRestore, At, Goto, CanRun, wm, ZombieInv, UnusedInv,
       LivePcInv
<1>3. ForkedPcInv' /\ Task0Inv'
  BY DEF ExitMain, ExitRestore, At, Goto, CanRun, wm, ForkedPcInv, Task0Inv,
       CurrentInv, LivePcInv, ExitReturnsHome, Alive
<1>4. OneMainInv'
  BY SMTT(20) DEF ExitMain, ExitRestore, At, Goto, CanRun, wm, OneMainInv, Main,
       Task0Inv, CurrentInv, ZombieInv, Alive
<1>5. WaitInv'
  BY DEF ExitMain, ExitRestore, At, Goto, CanRun, wm, WaitInv, ZombieInv, Alive
<1>6. StacksOwned'
  BY ZenonT(40) DEF ExitMain, ExitRestore, At, Goto, StacksOwned, Stacks, Alive
<1>7. SpacesOwned'
  BY DEF ExitMain, ExitRestore, At, Goto, CanRun, wm, SpacesOwned, HasSpace,
       ZombieInv, CurrentInv, WaitInv, ExitReturnsHome, Alive
<1>8. ExitReturnsHome'
  BY DEF ExitMain, ExitRestore, At, Goto, CanRun, wm, ExitReturnsHome,
       ZombieInv, CurrentInv, OneMainInv, Main, Alive
<1>. QED
  BY <1>1, <1>2, <1>3, <1>4, <1>5, <1>6, <1>7, <1>8

\* A fault of a program that is not a child: the same path.
LEMMA FaultInd ==
  ASSUME KillOnly, IndInv, TypeOK', Fault
  PROVE  IndInv'
<1>. USE MaxTasksAssumption DEF IndInv, TypeOK, Slots, Schedulable, UserPCs
<1>1. OneRunning' /\ CurrentInv'
  BY DEF Fault, ExitRestore, At, Goto, CanRun, wm, OneRunning, CurrentInv
<1>2. ZombieInv' /\ UnusedInv' /\ LivePcInv'
  BY DEF Fault, ExitRestore, At, Goto, CanRun, wm, ZombieInv, UnusedInv,
       LivePcInv
<1>3. ForkedPcInv' /\ Task0Inv'
  BY DEF Fault, ExitRestore, At, Goto, CanRun, wm, ForkedPcInv, Task0Inv,
       CurrentInv, LivePcInv, ZombieInv, ExitReturnsHome, Alive, KillOnly
<1>4. OneMainInv'
  BY DEF Fault, ExitRestore, At, Goto, CanRun, wm, OneMainInv, Main, Task0Inv,
       CurrentInv, ZombieInv, ForkedPcInv, Alive
<1>5. WaitInv'
  BY DEF Fault, ExitRestore, At, Goto, CanRun, wm, WaitInv, ZombieInv,
       CurrentInv, Alive
<1>6. StacksOwned'
  BY SMTT(20) DEF Fault, ExitRestore, At, Goto, CanRun, wm, StacksOwned, Stacks,
       ZombieInv, CurrentInv, Alive
<1>7. SpacesOwned'
  BY DEF Fault, ExitRestore, At, Goto, CanRun, wm, SpacesOwned, HasSpace,
       ZombieInv, CurrentInv, WaitInv, ExitReturnsHome, Alive, KillOnly
<1>8. ExitReturnsHome'
  BY DEF Fault, ExitRestore, At, Goto, CanRun, wm, ExitReturnsHome, ZombieInv,
       CurrentInv, OneMainInv, Main, Task0Inv, Alive
<1>. QED
  BY <1>1, <1>2, <1>3, <1>4, <1>5, <1>6, <1>7, <1>8

\* The launcher's end is the only program's, so elf_running may be cleared.
LEMMA TailInd ==
  ASSUME KillOnly, IndInv, TypeOK', Tail
  PROVE  IndInv'
<1>. USE MaxTasksAssumption DEF IndInv, TypeOK, Slots, Schedulable, UserPCs
<1>c. /\ current \in Slots \ {0} /\ Main(current)
  BY CurrentFacts DEF Tail, At, ForkedPcInv, Main, Task0Inv
<1>a. \A t \in Slots : Main(t)' => Main(t) /\ t # current
  BY <1>c DEF Tail, Goto, table, Main, Alive
<1>1. OneRunning' /\ CurrentInv'
  BY DEF Tail, At, Goto, table, OneRunning, CurrentInv
<1>2. ZombieInv' /\ UnusedInv' /\ LivePcInv'
  BY DEF Tail, At, Goto, table, ZombieInv, UnusedInv, LivePcInv
<1>3. ForkedPcInv' /\ Task0Inv'
  BY DEF Tail, At, Goto, table, ForkedPcInv, Task0Inv, CurrentInv, Alive
<1>4. OneMainInv'
  BY <1>a, <1>c DEF OneMainInv
<1>5. WaitInv'
  BY DEF Tail, At, Goto, table, WaitInv, ZombieInv, Alive
<1>6. StacksOwned'
  BY DEF Tail, At, Goto, table, StacksOwned, Stacks, ZombieInv, Alive
<1>7. SpacesOwned'
  BY DEF Tail, At, Goto, table, SpacesOwned, HasSpace, ZombieInv, CurrentInv,
       WaitInv, Alive
<1>8. ExitReturnsHome'
  BY DEF Tail, At, Goto, table, ExitReturnsHome, ZombieInv, CurrentInv,
       OneMainInv, Main, Alive
<1>. QED
  BY <1>1, <1>2, <1>3, <1>4, <1>5, <1>6, <1>7, <1>8

\* The command task ends.
LEMMA CmdDoneInd ==
  ASSUME KillOnly, IndInv, TypeOK', CmdDone
  PROVE  IndInv'
<1>. USE MaxTasksAssumption DEF IndInv, TypeOK, Slots, Schedulable, UserPCs
<1>1. OneRunning' /\ CurrentInv'
  BY DEF CmdDone, At, Goto, table, OneRunning, CurrentInv
<1>2. ZombieInv' /\ UnusedInv' /\ LivePcInv'
  BY DEF CmdDone, At, Goto, table, ZombieInv, UnusedInv, LivePcInv
<1>3. ForkedPcInv' /\ Task0Inv'
  BY DEF CmdDone, At, Goto, table, ForkedPcInv, Task0Inv, CurrentInv, Alive
<1>4. OneMainInv'
  BY DEF CmdDone, At, Goto, table, OneMainInv, Main, Task0Inv, CurrentInv,
       ZombieInv, Alive
<1>5. WaitInv'
  BY DEF CmdDone, At, Goto, table, WaitInv, ZombieInv, Alive
<1>6. StacksOwned'
  BY DEF CmdDone, At, Goto, table, StacksOwned, Stacks, ZombieInv, Alive
<1>7. SpacesOwned'
  BY DEF CmdDone, At, Goto, table, SpacesOwned, HasSpace, ZombieInv,
       CurrentInv, WaitInv, Alive
<1>8. ExitReturnsHome'
  BY DEF CmdDone, At, Goto, table, ExitReturnsHome, ZombieInv, CurrentInv,
       OneMainInv, Main, Alive
<1>. QED
  BY <1>1, <1>2, <1>3, <1>4, <1>5, <1>6, <1>7, <1>8

\* The task leaves the schedule.
LEMMA TaskExitInd ==
  ASSUME KillOnly, IndInv, TypeOK', TaskExit
  PROVE  IndInv'
<1>. USE MaxTasksAssumption DEF IndInv, TypeOK, Slots, Schedulable, UserPCs
<1>1. OneRunning' /\ CurrentInv'
  BY DEF TaskExit, At, Goto, wm, OneRunning, CurrentInv
<1>2. ZombieInv' /\ UnusedInv' /\ LivePcInv'
  BY DEF TaskExit, At, Goto, wm, ZombieInv, UnusedInv, LivePcInv
<1>3. ForkedPcInv' /\ Task0Inv'
  BY DEF TaskExit, At, Goto, wm, ForkedPcInv, Task0Inv, CurrentInv, Alive
<1>4. OneMainInv'
  BY DEF TaskExit, At, Goto, wm, OneMainInv, Main, Task0Inv, CurrentInv,
       ZombieInv, Alive
<1>5. WaitInv'
  BY DEF TaskExit, At, Goto, wm, WaitInv, ZombieInv, Alive
<1>6. StacksOwned'
  BY DEF TaskExit, At, Goto, wm, StacksOwned, Stacks, ZombieInv, Alive
<1>7. SpacesOwned'
  BY DEF TaskExit, At, Goto, wm, SpacesOwned, HasSpace, ZombieInv, CurrentInv,
       WaitInv, Alive
<1>8. ExitReturnsHome'
  BY DEF TaskExit, At, Goto, wm, ExitReturnsHome, ZombieInv, CurrentInv,
       OneMainInv, Main, Alive
<1>. QED
  BY <1>1, <1>2, <1>3, <1>4, <1>5, <1>6, <1>7, <1>8

\* waitpid begins on a child of the caller's own.
LEMMA WaitInd ==
  ASSUME KillOnly, IndInv, TypeOK', Wait
  PROVE  IndInv'
<1>. USE MaxTasksAssumption DEF IndInv, TypeOK, Slots, Schedulable, UserPCs
<1>1. OneRunning' /\ CurrentInv'
  BY DEF Wait, WaitBegin, At, Goto, table, wm, OneRunning, CurrentInv
<1>2. ZombieInv' /\ UnusedInv' /\ LivePcInv'
  BY DEF Wait, WaitBegin, At, Goto, table, wm, ZombieInv, UnusedInv, LivePcInv
<1>3. ForkedPcInv' /\ Task0Inv'
  BY DEF Wait, WaitBegin, At, Goto, table, wm, ForkedPcInv, Task0Inv,
       CurrentInv, LivePcInv, Alive
<1>4. OneMainInv'
  BY SMTT(40) DEF Wait, WaitBegin, At, Goto, table, wm, OneMainInv, Main,
       Task0Inv, CurrentInv, ZombieInv, ForkedPcInv, Alive
<1>5. WaitInv'
  BY DEF Wait, WaitBegin, At, Goto, table, wm, WaitInv, ZombieInv, CurrentInv,
       Alive, KillOnly
<1>6. StacksOwned'
  BY SMTT(40) DEF Wait, WaitBegin, At, Goto, table, wm, StacksOwned, Stacks,
       ZombieInv, CurrentInv, Alive
<1>7. SpacesOwned'
  BY DEF Wait, WaitBegin, At, Goto, table, wm, SpacesOwned, HasSpace,
       ZombieInv, CurrentInv, WaitInv, ExitReturnsHome, Alive
<1>8. ExitReturnsHome'
  BY DEF Wait, WaitBegin, At, Goto, table, wm, ExitReturnsHome, ZombieInv,
       CurrentInv, OneMainInv, Main, Task0Inv, Alive
<1>. QED
  BY <1>1, <1>2, <1>3, <1>4, <1>5, <1>6, <1>7, <1>8

\* A zombie that its parent sees cannot be reaped by another.
LEMMA WaitSeesInd ==
  ASSUME KillOnly, IndInv, TypeOK', WaitSees
  PROVE  IndInv'
<1>. USE MaxTasksAssumption DEF IndInv, TypeOK, Slots, Schedulable, UserPCs
<1>1. OneRunning' /\ CurrentInv'
  BY DEF WaitSees, At, Goto, table, wm, OneRunning, CurrentInv
<1>2. ZombieInv' /\ UnusedInv' /\ LivePcInv'
  BY DEF WaitSees, At, Goto, table, wm, ZombieInv, UnusedInv, LivePcInv
<1>3. ForkedPcInv' /\ Task0Inv'
  BY DEF WaitSees, At, Goto, table, wm, ForkedPcInv, Task0Inv, CurrentInv, Alive
<1>4. OneMainInv'
  BY DEF WaitSees, At, Goto, table, wm, OneMainInv, Main, Task0Inv,
       CurrentInv, ZombieInv, Alive
<1>5. WaitInv'
  BY DEF WaitSees, At, Goto, table, wm, WaitInv, ZombieInv, Alive
<1>6. StacksOwned'
  BY DEF WaitSees, At, Goto, table, wm, StacksOwned, Stacks, ZombieInv, Alive
<1>7. SpacesOwned'
  BY DEF WaitSees, At, Goto, table, wm, SpacesOwned, HasSpace, ZombieInv,
       CurrentInv, WaitInv, Alive
<1>8. ExitReturnsHome'
  BY DEF WaitSees, At, Goto, table, wm, ExitReturnsHome, ZombieInv,
       CurrentInv, OneMainInv, Main, Alive
<1>. QED
  BY <1>1, <1>2, <1>3, <1>4, <1>5, <1>6, <1>7, <1>8

\* The reaped slot among the others.
LEMMA ReapSlots ==
  ASSUME IndInv, Reap
  PROVE  /\ OneRunning' /\ CurrentInv' /\ ForkedPcInv' /\ Task0Inv'
         /\ StacksOwned'
<1>. DEFINE c == wchild[current]
<1>1. /\ current \in Slots /\ state[current] = "RUNNING" /\ Alive(current)
      /\ c \in Slots \ {0, current} /\ c < task_count
      /\ forked[c] /\ state[c] = "ZOMBIE"
  BY CurrentFacts DEF Reap, At, IndInv, WaitInv
<1>. HIDE DEF c
<1>2. /\ state'  = [state  EXCEPT ![c] = "DEAD"]
      /\ forked' = [forked EXCEPT ![c] = FALSE]
      /\ stack'  = [stack  EXCEPT ![c] = NULL]
      /\ heap'   = heap \ {stack[c]}
      /\ pc'     = [pc     EXCEPT ![current] = "user"] /\ pc[current] = "reap"
      /\ UNCHANGED <<irq, current, gui, task_count>>
  BY DEF Reap, Goto, At, wm, c
<1>3. /\ state  \in [Slots -> {"READY", "RUNNING", "DEAD", "ZOMBIE"}]
      /\ forked \in [Slots -> BOOLEAN] /\ pc \in [Slots -> UserPCs \cup OtherPCs]
      /\ stack \in [Slots -> Blocks \cup {NULL}]
  BY DEF IndInv, TypeOK
<1>4. \A t \in Slots : Alive(t)' <=> Alive(t) /\ t # c
  BY <1>1, <1>2, <1>3 DEF Alive, Schedulable
<1>5. OneRunning' /\ CurrentInv'
  BY <1>1, <1>2, <1>3 DEF IndInv, OneRunning, CurrentInv
<1>6. ForkedPcInv'
  BY <1>1, <1>2, <1>3, <1>4 DEF IndInv, ForkedPcInv, UserPCs
<1>7. Task0Inv'
  <2>1. ~forked'[0] /\ state'[0] = state[0]
    BY <1>1, <1>2, <1>3 DEF IndInv, Task0Inv
  <2>2. pc'[0] \in UserPCs \cup {"shell"} /\ (pc'[0] # "shell" => ~gui')
    BY <1>1, <1>2, <1>3 DEF IndInv, Task0Inv, UserPCs
  <2>3. \A t \in Slots : Alive(t)' /\ pc'[t] = "shell" => t = 0
    BY <1>1, <1>2, <1>3, <1>4 DEF IndInv, Task0Inv
  <2>. QED
    BY <2>1, <2>2, <2>3 DEF IndInv, Task0Inv
<1>8. StacksOwned'
  <2>. SUFFICES ASSUME NEW t \in Slots \ {0}, Alive(t)'
                PROVE  /\ pc'[t] # "stale"
                       /\ Stacks(t)' \subseteq heap' /\ stack'[t] # irq'[t]
                       /\ \A u \in Slots \ {0, t} :
                            Alive(u)' => Stacks(t)' \cap Stacks(u)' = {}
    BY DEF StacksOwned
  <2>1. Alive(c)
    BY <1>1 DEF Alive
  <2>2. \A u \in Slots \ {0} : Alive(u)' =>
          /\ Alive(u) /\ u # c /\ Stacks(u)' = Stacks(u)
          /\ stack'[u] = stack[u] /\ irq'[u] = irq[u]
    BY <1>1, <1>2, <1>3, <1>4 DEF Stacks
  <2>3. stack[c] \notin Stacks(t)
    BY <1>1, <2>1, <2>2 DEF IndInv, StacksOwned, Stacks
  <2>4. pc'[t] # "stale"
    BY <1>2, <1>3, <2>2 DEF IndInv, StacksOwned
  <2>. QED
    BY <1>2, <2>2, <2>3, <2>4 DEF IndInv, StacksOwned
<1>. QED
  BY <1>5, <1>6, <1>7, <1>8

\* The zombie's slot, stack and page table are nobody else's.
LEMMA ReapInd ==
  ASSUME KillOnly, IndInv, TypeOK', Reap
  PROVE  IndInv'
<1>. USE MaxTasksAssumption DEF IndInv, TypeOK, Slots, Schedulable, UserPCs
<1>1. /\ OneRunning' /\ CurrentInv' /\ ForkedPcInv' /\ Task0Inv'
      /\ StacksOwned'
  BY ReapSlots
<1>2. ZombieInv' /\ UnusedInv' /\ LivePcInv'
  BY DEF Reap, At, Goto, wm, ZombieInv, UnusedInv, LivePcInv
<1>3. OneMainInv'
  BY SMTT(20) DEF Reap, At, Goto, wm, OneMainInv, Main, Task0Inv, CurrentInv,
       ZombieInv, Alive
<1>4. WaitInv'
  BY DEF Reap, At, Goto, wm, WaitInv, ZombieInv, CurrentInv, Alive
<1>5. SpacesOwned'
  BY DEF Reap, At, Goto, wm, SpacesOwned, HasSpace, ZombieInv, CurrentInv,
       WaitInv, Alive
<1>6. ExitReturnsHome'
  BY DEF Reap, At, Goto, wm, ExitReturnsHome, ZombieInv, CurrentInv,
       OneMainInv, Main, Alive
<1>. QED
  BY <1>1, <1>2, <1>3, <1>4, <1>5, <1>6

\* The GUI starts with no program running in it.
LEMMA EnterGuiInd ==
  ASSUME KillOnly, IndInv, TypeOK', EnterGui
  PROVE  IndInv'
<1>. USE MaxTasksAssumption DEF IndInv, TypeOK, Slots, Schedulable, UserPCs
<1>1. OneRunning' /\ CurrentInv'
  BY DEF EnterGui, At, table, OneRunning, CurrentInv
<1>2. ZombieInv' /\ UnusedInv' /\ LivePcInv'
  BY DEF EnterGui, At, table, ZombieInv, UnusedInv, LivePcInv
<1>3. ForkedPcInv' /\ Task0Inv'
  BY DEF EnterGui, At, table, ForkedPcInv, Task0Inv, CurrentInv, Alive
<1>4. OneMainInv'
  BY DEF EnterGui, At, table, OneMainInv, Main, Task0Inv, CurrentInv,
       ZombieInv, Alive
<1>5. WaitInv'
  BY DEF EnterGui, At, table, WaitInv, ZombieInv, Alive
<1>6. StacksOwned'
  BY DEF EnterGui, At, table, StacksOwned, Stacks, ZombieInv, Alive
<1>7. SpacesOwned'
  BY DEF EnterGui, At, table, SpacesOwned, HasSpace, ZombieInv, CurrentInv,
       WaitInv, Alive
<1>8. ExitReturnsHome'
  BY DEF EnterGui, At, table, ExitReturnsHome, ZombieInv, CurrentInv,
       OneMainInv, Main, Alive
<1>. QED
  BY <1>1, <1>2, <1>3, <1>4, <1>5, <1>6, <1>7, <1>8

\* Everything but task 0 and the zombies is killed.
LEMMA LeaveGuiInd ==
  ASSUME KillOnly, IndInv, TypeOK', LeaveGui
  PROVE  IndInv'
<1>. USE MaxTasksAssumption DEF IndInv, TypeOK, Slots, Schedulable, UserPCs
<1>1. OneRunning' /\ CurrentInv'
  BY DEF LeaveGui, At, OneRunning, CurrentInv, Task0Inv, Alive
<1>2. ZombieInv' /\ UnusedInv' /\ LivePcInv'
  BY DEF LeaveGui, At, ZombieInv, UnusedInv, LivePcInv
<1>3. ForkedPcInv' /\ Task0Inv'
  BY DEF LeaveGui, At, ForkedPcInv, Task0Inv, CurrentInv, Alive
<1>4. OneMainInv'
  BY DEF LeaveGui, At, OneMainInv, Main, Task0Inv, CurrentInv, ZombieInv, Alive
<1>5. WaitInv'
  BY DEF LeaveGui, At, WaitInv, ZombieInv, Alive
<1>6. StacksOwned'
  BY DEF LeaveGui, At, StacksOwned, Stacks, ZombieInv, Alive
<1>7. SpacesOwned'
  BY DEF LeaveGui, At, SpacesOwned, HasSpace, ZombieInv, CurrentInv, WaitInv,
       Alive
<1>8. ExitReturnsHome'
  BY DEF LeaveGui, At, ExitReturnsHome, ZombieInv, CurrentInv, OneMainInv,
       Main, Alive
<1>. QED
  BY <1>1, <1>2, <1>3, <1>4, <1>5, <1>6, <1>7, <1>8

\* The task killed is the program itself, so elf_running may be cleared.
LEMMA CloseInd ==
  ASSUME KillOnly, IndInv, TypeOK', Close
  PROVE  IndInv'
<1>. USE MaxTasksAssumption DEF IndInv, TypeOK, Slots, Schedulable, UserPCs
<1>c. current = 0
  BY CurrentFacts DEF Close, CloseWindow, At
<1>k. PICK k \in Slots : CloseWindow(k)
  BY DEF Close
<1>l. k # 0 /\ Alive(k) /\ ~forked[k] /\ pc[k] \notin {"cmd", "leaving", "shell"}
  BY <1>k DEF CloseWindow, Alive, Task0Inv, KillOnly
<1>o. Main(k)
  BY <1>l, <1>k DEF CloseWindow, Main, LivePcInv, OtherPCs
<1>a. \A t \in Slots : Alive(t)' => Alive(t) /\ t # k
  BY <1>k DEF CloseWindow, Alive
<1>1. OneRunning' /\ CurrentInv'
  BY <1>c, <1>k, <1>l DEF CloseWindow, OneRunning, CurrentInv
<1>2. ZombieInv' /\ UnusedInv' /\ LivePcInv'
  BY DEF Close, CloseWindow, At, ZombieInv, UnusedInv, LivePcInv
<1>3. ForkedPcInv' /\ Task0Inv'
  BY DEF Close, CloseWindow, At, ForkedPcInv, Task0Inv, CurrentInv, LivePcInv,
       Alive
<1>4. OneMainInv'
  BY <1>a, <1>k, <1>l, <1>o DEF CloseWindow, OneMainInv, Main
<1>5. WaitInv'
  BY <1>a DEF Close, CloseWindow, At, WaitInv
<1>6. StacksOwned'
  BY <1>a DEF Close, CloseWindow, At, StacksOwned, Stacks
<1>7. SpacesOwned'
  BY <1>a DEF Close, CloseWindow, At, SpacesOwned, HasSpace
<1>8. ExitReturnsHome'
  BY SMTT(40) DEF Close, CloseWindow, At, ExitReturnsHome, ZombieInv,
       CurrentInv, OneMainInv, Main, Task0Inv, Alive
<1>. QED
  BY <1>1, <1>2, <1>3, <1>4, <1>5, <1>6, <1>7, <1>8

-----------------------------------------------------------------------------
LEMMA InitInd == Init => IndInv
<1>. SUFFICES ASSUME Init PROVE IndInv
  OBVIOUS
<1>1. TypeOK
  BY InitTypeOK
<1>. USE MaxTasksAssumption DEF Init, Slots, Schedulable, Alive, UserPCs
<1>2. OneRunning /\ CurrentInv
  BY DEF OneRunning, CurrentInv
<1>3. ZombieInv /\ UnusedInv /\ LivePcInv
  BY DEF ZombieInv, UnusedInv, LivePcInv
<1>4. ForkedPcInv /\ Task0Inv
  BY DEF ForkedPcInv, Task0Inv
<1>5. OneMainInv /\ WaitInv
  BY DEF OneMainInv, Main, WaitInv
<1>6. StacksOwned /\ SpacesOwned /\ ExitReturnsHome
  BY DEF StacksOwned, SpacesOwned, HasSpace, ExitReturnsHome
<1>. QED
  BY <1>1, <1>2, <1>3, <1>4, <1>5, <1>6 DEF IndInv

LEMMA StutterInd == IndInv /\ UNCHANGED vars => IndInv'
<1>. SUFFICES ASSUME IndInv, UNCHANGED vars PROVE IndInv'
  OBVIOUS
<1>1. TypeOK' /\ OneRunning'
  BY DEF IndInv, vars, table, wm, TypeOK, OneRunning
<1>2. ZombieInv' /\ UnusedInv' /\ LivePcInv' /\ CurrentInv'
  BY DEF IndInv, vars, table, ZombieInv, UnusedInv, LivePcInv, CurrentInv
<1>3. ForkedPcInv' /\ Task0Inv' /\ OneMainInv' /\ WaitInv'
  BY DEF IndInv, vars, table, wm, ForkedPcInv, Task0Inv, OneMainInv, WaitInv,
         Main, Alive
<1>4. StacksOwned' /\ SpacesOwned' /\ ExitReturnsHome'
  BY DEF IndInv, vars, table, StacksOwned, SpacesOwned, ExitReturnsHome, Stacks,
         HasSpace, Alive
<1>. QED
  BY <1>1, <1>2, <1>3, <1>4 DEF IndInv

LEMMA NextInd == KillOnly /\ IndInv /\ [Next]_vars => IndInv'
<1>. SUFFICES ASSUME KillOnly, IndInv, [Next]_vars PROVE IndInv'
  OBVIOUS
<1>1. TypeOK'
  BY NextTypeOK DEF IndInv
<1>2. ~ForkOOM /\ ~CloseOther
  BY DEF KillOnly, ForkOOM, CloseOther
<1>. QED
  BY <1>1, <1>2, StutterInd, TickInd, SpawnElfInd, SpawnCmdInd, SpawnOOMInd,
       ForkInd, ElfExecInd,
     ElfLoadFailsInd, ExecInd, ExitChildInd, ExitMainInd, FaultInd, TailInd,
     CmdDoneInd, TaskExitInd, WaitInd, WaitSeesInd, ReapInd, EnterGuiInd,
     LeaveGuiInd, CloseInd
  DEF Next

\* IndInv: every part of it, and so what the task table says about itself,
\* holds in every state as long as forks find their stacks, children do not
\* fault, tasks wait for their own children and programs run one at a time.
THEOREM Invariance ==
  ASSUME KillOnly
  PROVE  Spec => []IndInv
BY InitInd, NextInd, PTL DEF Spec

\* OneRunning: sched_tick and the stores that end a task keep the state fields
\* and current_task together, so no saved rsp is resumed while its task runs.
THEOREM OneRunningSafe ==
  ASSUME KillOnly
  PROVE  Spec => []OneRunning
<1>1. IndInv => OneRunning
  BY DEF IndInv
<1>. QED
  BY <1>1, Invariance, PTL

\* StacksOwned: sched_fork, task_spawn and SYS_WAITPID never hand out or free a
\* stack that a schedulable task or a zombie uses.
THEOREM StacksSafe ==
  ASSUME KillOnly
  PROVE  Spec => []StacksOwned
<1>1. IndInv => StacksOwned
  BY DEF IndInv
<1>. QED
  BY <1>1, Invariance, PTL

\* SpacesOwned: fork, exec, exit, a fault and waitpid never free or share the
\* page table of a live program.
THEOREM SpacesSafe ==
  ASSUME KillOnly
  PROVE  Spec => []SpacesOwned
<1>1. IndInv => SpacesOwned
  BY DEF IndInv
<1>. QED
  BY <1>1, Invariance, PTL

\* ExitReturnsHome: saved_kernel_rsp is the context of the program that will
\* leave through it.
THEOREM ExitSafe ==
  ASSUME KillOnly
  PROVE  Spec => []ExitReturnsHome
<1>1. IndInv => ExitReturnsHome
  BY DEF IndInv
<1>. QED
  BY <1>1, Invariance, PTL

\* ReapExited: SYS_WAITPID reaps a child only after its SYS_EXIT, with the
\* status it passed; an action property, from WaitInv and ZombieInv.
THEOREM ReapSafe ==
  ASSUME KillOnly
  PROVE  Spec => ReapExited
<1>. DEFINE A == \A c \in Slots : forked[c] /\ ~forked'[c] =>
                   state[c] = "ZOMBIE" /\ code[c] = 1
<1>1. IndInv /\ [Next]_vars => [A]_vars
  <2>. SUFFICES ASSUME IndInv, Next,
                       NEW c \in Slots, forked[c], ~forked'[c]
                PROVE  state[c] = "ZOMBIE" /\ code[c] = 1
    OBVIOUS
  <2>1. CASE Reap
    <3>1. current \in Slots /\ Alive(current) /\ pc[current] = "reap"
      BY <2>1, CurrentFacts DEF Reap, At
    <3>2. c = wchild[current]
      BY <2>1 DEF Reap, IndInv, TypeOK
    <3>. QED
      BY <3>1, <3>2 DEF IndInv, WaitInv, ZombieInv
  <2>2. ASSUME ~Reap PROVE FALSE
    BY <2>2 DEF Next, Tick, SpawnElf, SpawnCmd, Spawn, SpawnOOM, Fork, ForkOOM,
         ForkHead, ElfExec, ElfLoadFails, Exec, ExitChild, ExitMain, Fault,
         ExitRestore, Tail, CmdDone, TaskExit, Wait, WaitBegin, WaitSees,
         EnterGui, LeaveGui, Close, CloseWindow, CloseOther, table, IndInv,
         TypeOK
  <2>. QED
    BY <2>1, <2>2
<1>. QED
  BY <1>1, Invariance, PTL DEF Spec, ReapExited

-----------------------------------------------------------------------------
(***************************************************************************)
(* Without any of the rare events: no address space is lost, and waitpid   *)
(* waits for a child that can still exit.  Both build on IndInv.           *)
(***************************************************************************)

NoEvents == Events = {}

\* A fork child is not dead before it is reaped.
ForkedAlive == \A t \in Slots : forked[t] => state[t] # "DEAD"

\* A task outside of its program runs on the kernel's page table.
KernelPcInv ==
  \A t \in Slots : Alive(t) /\ pc[t] \in {"shell", "elf", "cmd", "tail", "leaving"} =>
    cr3[t] = KernelPT

OrderlyInv == ForkedAlive /\ KernelPcInv /\ NoSpaceLeak

-----------------------------------------------------------------------------
\* Steps that start a task, on the kernel's page table.
LEMMA SpawnOrderly ==
  ASSUME IndInv, OrderlyInv, SpawnElf \/ SpawnCmd \/ SpawnOOM
  PROVE  OrderlyInv'
<1>0. /\ MaxTasks \in Nat /\ task_count \in 1 .. MaxTasks - 1 /\ task_count \in Slots
      /\ state \in [Slots -> {"READY", "RUNNING", "DEAD", "ZOMBIE"}]
      /\ cr3 \in [Slots -> Spaces \cup {KernelPT, NULL}]
      /\ pc \in [Slots -> UserPCs \cup OtherPCs]
  BY MaxTasksAssumption DEF IndInv, TypeOK, Slots, SpawnElf, SpawnCmd, SpawnOOM, Spawn
<1>1. /\ spaces' = spaces /\ forked' = forked
      /\ state' = [state EXCEPT ![task_count] = "READY"]
      /\ cr3' = [cr3 EXCEPT ![task_count] = KernelPT]
  BY DEF SpawnElf, SpawnCmd, SpawnOOM, Spawn, wm
<1>2. /\ task_count' \in {task_count, task_count + 1}
      /\ task_count' = task_count => pc' = pc
      /\ \A t \in Slots \ {task_count} : pc'[t] = pc[t]
  BY <1>0 DEF SpawnElf, SpawnCmd, SpawnOOM, Spawn
<1>3. \A t \in Slots \ {task_count} : Alive(t)' <=> Alive(t)
  BY <1>0, <1>1, <1>2 DEF Alive, Slots
<1>4. ~Alive(task_count)
  BY <1>0 DEF Alive
<1>5. ForkedAlive'
  BY <1>0, <1>1 DEF OrderlyInv, ForkedAlive
<1>6. KernelPcInv'
  BY <1>0, <1>1, <1>2, <1>3 DEF OrderlyInv, KernelPcInv
<1>7. NoSpaceLeak'
  BY <1>0, <1>1, <1>3, <1>4 DEF OrderlyInv, NoSpaceLeak
<1>. QED
  BY <1>5, <1>6, <1>7 DEF OrderlyInv

\* The new page table belongs to the child, or to the program that starts.
LEMMA ForkOrderly ==
  ASSUME IndInv, OrderlyInv, Fork
  PROVE  OrderlyInv'
<1>. DEFINE s == Fresh(Spaces \ spaces)
            k == ForkSlot
<1>2. /\ MaxTasks \in Nat /\ task_count \in 1 .. MaxTasks
      /\ k < MaxTasks /\ Slots = 0 .. MaxTasks - 1
  BY MaxTasksAssumption DEF IndInv, TypeOK, Slots, Fork, CanFork
<1>3. /\ k \in 1 .. task_count
      /\ k # task_count => k < task_count /\ state[k] = "DEAD"
  BY <1>2, ForkSlotFacts DEF IndInv
<1>. HIDE DEF k, s
<1>4. k \in Slots /\ ~Alive(k)
  BY <1>2, <1>3 DEF Alive, Schedulable
<1>5. /\ state'  = [state  EXCEPT ![k] = "READY"]
      /\ forked' = [forked EXCEPT ![k] = TRUE]
      /\ cr3'    = [cr3    EXCEPT ![k] = s]
      /\ pc'     = [pc     EXCEPT ![k] = "user"]
      /\ spaces' = spaces \cup {s}
      /\ task_count' = IF k = task_count THEN task_count + 1 ELSE task_count
  BY DEF Fork, ForkHead, k, s
<1>6. /\ DOMAIN state = Slots /\ DOMAIN forked = Slots
      /\ DOMAIN cr3 = Slots /\ DOMAIN pc = Slots
  BY DEF IndInv, TypeOK
<1>7. \A t \in Slots : Alive(t)' <=> Alive(t) \/ t = k
  <2>1. \A t \in Slots : t < task_count' <=> t < task_count \/ t = k
    BY <1>2, <1>3, <1>5
  <2>. QED
    BY <1>4, <1>5, <1>6, <2>1 DEF Alive, Schedulable
<1>8. ForkedAlive'
  BY <1>4, <1>5, <1>6 DEF OrderlyInv, ForkedAlive
<1>9. KernelPcInv'
  BY <1>4, <1>5, <1>6, <1>7 DEF OrderlyInv, KernelPcInv
<1>10. NoSpaceLeak'
  BY <1>4, <1>5, <1>6, <1>7 DEF OrderlyInv, NoSpaceLeak
<1>. QED
  BY <1>8, <1>9, <1>10 DEF OrderlyInv

LEMMA ExecOrderly ==
  ASSUME IndInv, OrderlyInv, ElfExec \/ Exec
  PROVE  OrderlyInv'
<1>. DEFINE s == Fresh(Spaces \ spaces)
<1>1. /\ current \in Slots /\ Alive(current)
      /\ DOMAIN cr3 = Slots /\ DOMAIN pc = Slots
  BY CurrentFacts DEF IndInv, TypeOK, ElfExec, MayExec, Exec, At
<1>2. /\ s \in Spaces \ spaces /\ spaces' \subseteq spaces \cup {s}
      /\ cr3[current] \in spaces' => cr3[current] \notin Spaces
      /\ cr3' = [cr3 EXCEPT ![current] = s]
      /\ pc'[current] \in UserPCs /\ \A t \in Slots \ {current} : pc'[t] = pc[t]
      /\ UNCHANGED <<state, forked, task_count>>
  <2>1. s \in Spaces \ spaces
    BY FreshFacts DEF ElfExec, Exec
  <2>. HIDE DEF s
  <2>2. CASE ElfExec
    <3>1. cr3[current] = KernelPT
      BY <1>1, <2>2 DEF ElfExec, MayExec, At, OrderlyInv, KernelPcInv
    <3>. QED
      BY <1>1, <2>1, <2>2, <3>1, ResourceAssumption DEF ElfExec, Goto, UserPCs, s
  <2>3. CASE Exec
    BY <1>1, <2>1, <2>3 DEF Exec, At, UserPCs, s
  <2>. QED
    BY <2>2, <2>3
<1>. HIDE DEF s
<1>3. \A t \in Slots : Alive(t)' <=> Alive(t)
  BY <1>2 DEF Alive
<1>4. ForkedAlive'
  BY <1>2 DEF OrderlyInv, ForkedAlive
<1>5. KernelPcInv'
  BY <1>1, <1>2, <1>3 DEF OrderlyInv, KernelPcInv, UserPCs
<1>6. NoSpaceLeak'
  <2>1. spaces' \subseteq Spaces
    BY <1>2 DEF IndInv, TypeOK
  <2>. QED
    BY <1>1, <1>2, <1>3, <2>1 DEF OrderlyInv, NoSpaceLeak
<1>. QED
  BY <1>4, <1>5, <1>6 DEF OrderlyInv

\* A program that ends is back on the kernel's page table, its own is freed.
LEMMA ExitOrderly ==
  ASSUME NoEvents, IndInv, OrderlyInv, ExitMain \/ Fault
  PROVE  OrderlyInv'
<1>1. /\ current \in Slots /\ Alive(current) /\ ~forked[current] /\ pc[current] = "user"
      /\ DOMAIN cr3 = Slots /\ DOMAIN pc = Slots
  BY CurrentFacts DEF NoEvents, IndInv, TypeOK, ExitMain, Fault, At
<1>2. saved = current
  BY <1>1 DEF IndInv, ExitReturnsHome, UserPCs
<1>3. /\ spaces' = spaces \ {cr3[current]}
      /\ cr3' = [cr3 EXCEPT ![current] = KernelPT]
      /\ \A t \in Slots \ {current} : pc'[t] = pc[t]
      /\ UNCHANGED <<state, forked, task_count>>
  BY <1>1, <1>2 DEF ExitMain, Fault, ExitRestore, Goto
<1>4. \A t \in Slots : Alive(t)' <=> Alive(t)
  BY <1>3 DEF Alive
<1>5. ForkedAlive'
  BY <1>3 DEF OrderlyInv, ForkedAlive
<1>6. KernelPcInv'
  BY <1>1, <1>3, <1>4 DEF OrderlyInv, KernelPcInv
<1>7. NoSpaceLeak'
  BY <1>1, <1>3, <1>4 DEF OrderlyInv, NoSpaceLeak
<1>. QED
  BY <1>5, <1>6, <1>7 DEF OrderlyInv

\* The slot of a reaped child, or of a task that exits, is free.
LEMMA EndOrderly ==
  ASSUME IndInv, OrderlyInv, Reap \/ TaskExit
  PROVE  OrderlyInv'
<1>1. /\ current \in Slots /\ Alive(current)
      /\ DOMAIN cr3 = Slots /\ DOMAIN pc = Slots /\ DOMAIN state = Slots /\ DOMAIN forked = Slots
  BY CurrentFacts DEF IndInv, TypeOK, Reap, TaskExit, At
<1>2. CASE Reap
  <2>. DEFINE c == wchild[current]
  <2>1. /\ c \in Slots \ {current}
        /\ pc[current] = "reap"
    BY <1>1, <1>2 DEF Reap, At, IndInv, WaitInv
  <2>2. /\ spaces' = spaces \ {cr3[c]}
        /\ cr3' = [cr3 EXCEPT ![c] = NULL] /\ state' = [state EXCEPT ![c] = "DEAD"]
        /\ forked' = [forked EXCEPT ![c] = FALSE]
        /\ pc' = [pc EXCEPT ![current] = "user"] /\ task_count' = task_count
    BY <1>2 DEF Reap, Goto
  <2>. HIDE DEF c
  <2>3. \A t \in Slots : Alive(t)' <=> Alive(t) /\ t # c
    BY <1>1, <2>1, <2>2 DEF Alive, Schedulable
  <2>4. ForkedAlive'
    BY <1>1, <2>1, <2>2 DEF OrderlyInv, ForkedAlive
  <2>5. KernelPcInv'
    BY <1>1, <2>1, <2>2, <2>3 DEF OrderlyInv, KernelPcInv
  <2>6. NoSpaceLeak'
    BY <1>1, <2>1, <2>2, <2>3 DEF OrderlyInv, NoSpaceLeak
  <2>. QED
    BY <2>4, <2>5, <2>6 DEF OrderlyInv
<1>3. CASE TaskExit
  <2>1. /\ pc[current] = "leaving" /\ pc' = [pc EXCEPT ![current] = "exited"]
        /\ state' = [state EXCEPT ![current] = "DEAD"]
        /\ UNCHANGED <<forked, cr3, spaces, task_count>>
    BY <1>3 DEF TaskExit, At, Goto
  <2>2. ~forked[current] /\ cr3[current] = KernelPT
    BY <1>1, <2>1 DEF IndInv, ForkedPcInv, UserPCs, OrderlyInv, KernelPcInv
  <2>3. \A t \in Slots : Alive(t)' <=> Alive(t) /\ t # current
    BY <1>1, <2>1 DEF Alive, Schedulable
  <2>4. ForkedAlive'
    BY <1>1, <2>1, <2>2 DEF OrderlyInv, ForkedAlive
  <2>5. KernelPcInv'
    BY <1>1, <2>1, <2>3 DEF OrderlyInv, KernelPcInv
  <2>6. NoSpaceLeak'
    BY <2>1, <2>2, <2>3, ResourceAssumption DEF OrderlyInv, NoSpaceLeak, IndInv, TypeOK
  <2>. QED
    BY <2>4, <2>5, <2>6 DEF OrderlyInv
<1>. QED
  BY <1>2, <1>3

\* The other steps concern neither spaces nor who is alive.
LEMMA QuietOrderly ==
  ASSUME NoEvents, IndInv, OrderlyInv,
         \/ Tick \/ ElfLoadFails \/ ExitChild \/ Tail \/ CmdDone
         \/ Wait \/ WaitSees \/ EnterGui \/ LeaveGui
  PROVE  OrderlyInv'
<1>1. /\ MaxTasks \in Nat /\ Slots = 0 .. MaxTasks - 1 /\ current \in Slots
      /\ task_count \in 1 .. MaxTasks
      /\ DOMAIN cr3 = Slots /\ DOMAIN pc = Slots /\ DOMAIN state = Slots
  BY MaxTasksAssumption, CurrentFacts DEF IndInv, TypeOK, Slots
<1>2. spaces' = spaces /\ cr3' = cr3 /\ forked' = forked /\ task_count' = task_count
  BY DEF Tick, ElfLoadFails, ExitChild, Tail, CmdDone, Wait, WaitBegin, WaitSees,
         EnterGui, LeaveGui, table
<1>3. /\ \A t \in Slots : Alive(t)' <=> Alive(t)
      /\ ForkedAlive'
  <2>1. CASE Tick
    <3>1. /\ state' = [state EXCEPT ![current] = Demoted(@), ![NextTask] = "RUNNING"]
          /\ NextTask \in Slots /\ NextTask # current /\ state[NextTask] \in Schedulable
      BY <1>1, <2>1, NextTaskFacts DEF Tick, IndInv
    <3>2. \A t \in Slots : state'[t] = state[t] \/ {state[t], state'[t]} \subseteq Schedulable
      BY <1>1, <3>1 DEF Demoted, Schedulable
    <3>. QED
      BY <1>2, <3>2 DEF Alive, OrderlyInv, ForkedAlive, Schedulable
  <2>2. CASE ExitChild
    <3>1. state' = [state EXCEPT ![current] = "ZOMBIE"] /\ Alive(current)
      BY <2>2, CurrentFacts DEF ExitChild, At
    <3>. QED
      BY <1>1, <1>2, <3>1 DEF Alive, OrderlyInv, ForkedAlive
  <2>3. CASE LeaveGui
    <3>1. \A t \in Slots : t < task_count => state'[t] = state[t]
      BY <1>1, <2>3 DEF LeaveGui, NoEvents
    <3>2. \A t \in Slots : forked[t] => t < task_count
      BY <1>1 DEF IndInv, UnusedInv
    <3>. QED
      BY <1>2, <3>1, <3>2 DEF Alive, OrderlyInv, ForkedAlive
  <2>4. CASE ElfLoadFails \/ Tail \/ CmdDone \/ Wait \/ WaitSees \/ EnterGui
    <3>1. state' = state
      BY <2>4 DEF ElfLoadFails, Tail, CmdDone, Wait, WaitBegin, WaitSees, EnterGui, table
    <3>. QED
      BY <1>2, <3>1 DEF Alive, OrderlyInv, ForkedAlive
  <2>. QED
    BY <2>1, <2>2, <2>3, <2>4
<1>4. /\ \A t \in Slots \ {current} : pc'[t] = pc[t]
      /\ Alive(current) => cr3[current] = KernelPT \/ pc'[current] \in UserPCs \cup {"exited", "stale"}
  <2>1. CASE Tick \/ EnterGui \/ LeaveGui
    <3>1. pc' = pc
      BY <2>1 DEF Tick, EnterGui, LeaveGui
    <3>2. pc[current] \in UserPCs \cup OtherPCs
      BY <1>1 DEF IndInv, TypeOK
    <3>. QED
      BY <1>1, <3>1, <3>2 DEF OrderlyInv, KernelPcInv, OtherPCs
  <2>2. CASE ElfLoadFails \/ Tail \/ CmdDone
    <3>1. pc[current] \in {"elf", "tail", "cmd"} /\ \A t \in Slots \ {current} : pc'[t] = pc[t]
      BY <1>1, <2>2 DEF ElfLoadFails, Tail, CmdDone, At, Goto
    <3>. QED
      BY <1>1, <3>1 DEF OrderlyInv, KernelPcInv
  <2>3. CASE ExitChild \/ Wait \/ WaitSees
    BY <1>1, <2>3 DEF ExitChild, Wait, WaitBegin, WaitSees, At, Goto, UserPCs
  <2>. QED
    BY <2>1, <2>2, <2>3
<1>5. NoSpaceLeak'
  BY <1>2, <1>3 DEF OrderlyInv, NoSpaceLeak
<1>6. KernelPcInv'
  <2>. SUFFICES ASSUME NEW t \in Slots, Alive(t)',
                       pc'[t] \in {"shell", "elf", "cmd", "tail", "leaving"}
                PROVE  cr3[t] = KernelPT
    BY <1>2 DEF KernelPcInv
  <2>1. Alive(t)
    BY <1>3
  <2>2. CASE t = current
    BY <1>4, <2>1, <2>2 DEF UserPCs
  <2>3. CASE t # current
    BY <1>4, <2>1, <2>3 DEF OrderlyInv, KernelPcInv
  <2>. QED
    BY <2>2, <2>3
<1>. QED
  BY <1>3, <1>5, <1>6 DEF OrderlyInv

-----------------------------------------------------------------------------
LEMMA OrderlyStep == NoEvents /\ IndInv /\ OrderlyInv /\ [Next]_vars => OrderlyInv'
<1>. SUFFICES ASSUME NoEvents, IndInv, OrderlyInv, [Next]_vars PROVE OrderlyInv'
  OBVIOUS
<1>1. ~ForkOOM /\ ~CloseOther /\ ~Close
  BY DEF NoEvents, ForkOOM, CloseOther, Close, CloseWindow
<1>2. CASE UNCHANGED vars
  BY <1>2 DEF vars, table, OrderlyInv, ForkedAlive, KernelPcInv, NoSpaceLeak, Alive
<1>. QED
  BY <1>1, <1>2, SpawnOrderly, ForkOrderly, ExecOrderly, ExitOrderly, EndOrderly, QuietOrderly
  DEF Next

LEMMA OrderlyInit == Init => OrderlyInv
BY DEF Init, OrderlyInv, ForkedAlive, KernelPcInv, NoSpaceLeak

\* OrderlyInv holds whatever the sizes of the task table and of the memory.
LEMMA OrderlyAlways ==
  ASSUME NoEvents
  PROVE  Spec => [](IndInv /\ OrderlyInv)
<1>1. KillOnly
  BY DEF NoEvents, KillOnly
<1>. QED
  BY <1>1, InitInd, NextInd, OrderlyInit, OrderlyStep, PTL DEF Spec

\* NoSpaceLeak: exit, exec and waitpid together give back every page table that
\* fork and exec took (sched.c, syscall.c, elf.c).
THEOREM NoLeak ==
  ASSUME NoEvents
  PROVE  Spec => []NoSpaceLeak
<1>1. OrderlyInv => NoSpaceLeak
  BY DEF OrderlyInv
<1>. QED
  BY <1>1, OrderlyAlways, PTL

\* WaiterHasChild: the loop of SYS_WAITPID is about a child of the caller that is
\* alive or a zombie, so it can end.
THEOREM WaiterSafe ==
  ASSUME NoEvents
  PROVE  Spec => []WaiterHasChild
<1>1. IndInv /\ OrderlyInv => WaiterHasChild
  <2>. SUFFICES ASSUME IndInv, OrderlyInv,
                       NEW t \in Slots, Alive(t), pc[t] \in {"wait", "reap"}
                PROVE  /\ wchild[t] \in Slots \ {t}
                       /\ Alive(wchild[t]) /\ forked[wchild[t]] /\ parent[wchild[t]] = t
                       /\ pc[t] = "reap" => state[wchild[t]] = "ZOMBIE"
    BY DEF WaiterHasChild
  <2>1. /\ wchild[t] \in Slots \ {t} /\ wchild[t] < task_count
        /\ forked[wchild[t]] /\ parent[wchild[t]] = t
        /\ pc[t] = "reap" => state[wchild[t]] = "ZOMBIE"
    BY DEF IndInv, WaitInv
  <2>2. state[wchild[t]] \in {"READY", "RUNNING", "DEAD", "ZOMBIE"} \ {"DEAD"}
    BY <2>1 DEF IndInv, TypeOK, OrderlyInv, ForkedAlive
  <2>. QED
    BY <2>1, <2>2 DEF Alive, Schedulable
<1>. QED
  BY <1>1, OrderlyAlways, PTL
=============================================================================
