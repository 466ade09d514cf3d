--------------------------- MODULE DesktopProofs ---------------------------
(***************************************************************************)
(* The desktop's windows and its input devices: the windows are sound with *)
(* any number of them and of tasks, the keyboard's readers get what was    *)
(* pressed, and the pointer is where the mouse moved it.                   *)
(***************************************************************************)
EXTENDS Windows, Input, GuiShell, FiniteSetTheorems, SequenceTheorems, WellFoundedInduction, TLAPS

(***************************************************************************)
(* The windows.                                                            *)
(***************************************************************************)
Pcs == {"unused", "start", "run", "out", "gfx", "close", "exit", "command", "dead"}
Owning == {"start", "run", "out", "gfx", "close"}

TasksOK ==
  /\ tasks \in [TaskSlots -> [pc : Pcs, win : Slots \cup {None},
                              home : Slots \cup {None}, gfx : BOOLEAN]]
  /\ strays \in Nat
  /\ {inGui, elfRunning, gfxActive, startOpen, cmdRunning} \subseteq BOOLEAN
  /\ closing # None => ~elfRunning

\* From its start until it has cleared up, a program's task has the window it
\* was started with, and only that, open or being closed; nobody else has it, nor
\* is it the shell's.
HeldWindows ==
  strays = 0 =>
    \A t \in TaskSlots : tasks[t].pc \in Owning =>
      /\ tasks[t].win = tasks[t].home /\ tasks[t].win \in open \cup ({closing} \ {None})
      /\ tasks[t].win # shellId
      /\ \A u \in TaskSlots : tasks[u].pc \in Owning /\ tasks[u].win = tasks[t].win => u = t

ShellAlive == strays = 0 /\ shellId # None => shellId \in open

\* Outside the desktop no program's task is left.
OutsideNone == ~inGui => \A t \in TaskSlots : tasks[t].pc \notin Owning

WinInv ==
  WindowsTypeOK /\ TasksOK /\ HeldWindows /\ ShellAlive /\ OutsideNone /\ FlagsEnd

-----------------------------------------------------------------------------
(***************************************************************************)
(* The smallest member of a set of naturals is one of its members.  The    *)
(* intervals 0 .. x are finite, and strict inclusion among finite sets is  *)
(* well-founded.                                                           *)
(***************************************************************************)
LEMMA MinFacts ==
  ASSUME NEW S, S \subseteq Nat, S # {}
  PROVE  Min(S) \in S
<1>. DEFINE T == {0 .. x : x \in S}
            R == StrictSubsetOrdering(Nat)
            F == FiniteSubsetsOf(Nat)
<1>1. IsWellFoundedOn(R, F)
  BY FS_StrictSubsetOrderingWellFounded
<1>2. T \subseteq F
  <2>. SUFFICES ASSUME NEW x \in S PROVE 0 .. x \in F
    OBVIOUS
  <2>1. IsFiniteSet(0 .. x)
    BY FS_Interval
  <2>2. 0 .. x \in SUBSET Nat
    OBVIOUS
  <2>. QED
    BY <2>1, <2>2 DEF FiniteSubsetsOf
<1>3. T # {}
  OBVIOUS
<1>4. PICK U \in T : \A V \in T : <<V, U>> \notin R
  <2>. HIDE DEF R, F, T
  <2>. QED
    BY <1>1, <1>2, <1>3, WFMin
<1>5. PICK x \in S : U = 0 .. x
  OBVIOUS
<1>6. \A y \in S : x <= y
  <2>. SUFFICES ASSUME NEW y \in S, y < x PROVE FALSE
    OBVIOUS
  <2>1. <<0 .. y, 0 .. x>> \notin R
    BY <1>4, <1>5
  <2>2. 0 .. y \subseteq 0 .. x /\ 0 .. y # 0 .. x
    BY x \in 0 .. x, x \notin 0 .. y
  <2>3. 0 .. y \in SUBSET Nat /\ 0 .. x \in SUBSET Nat
    OBVIOUS
  <2>. QED
    BY <2>1, <2>2, <2>3 DEF StrictSubsetOrdering
<1>. QED
  BY <1>6 DEF Min

LEMMA NoneFacts == None \notin Slots /\ Slots \subseteq Nat /\ 0 \in Slots
BY WindowsAssumption DEF None, Slots

\* wm_create hands out a slot that is not in use.
LEMMA NewSlotFacts ==
  ASSUME FreeSlots # {}
  PROVE  NewSlot \in Slots /\ NewSlot \notin open /\ NewSlot # None
BY MinFacts, NoneFacts DEF FreeSlots, NewSlot

\* task_spawn hands out a slot that was never used.
LEMMA NewTaskFacts ==
  ASSUME FreeTasks # {}
  PROVE  NewTask \in TaskSlots /\ tasks[NewTask].pc = "unused"
<1>1. FreeTasks \subseteq Nat
  BY WindowsAssumption DEF FreeTasks
<1>2. NewTask \in FreeTasks
  BY <1>1, MinFacts DEF NewTask
<1>. QED
  BY <1>2 DEF FreeTasks

-----------------------------------------------------------------------------
LEMMA InitWin == WindowsInit => WinInv
<1>. SUFFICES ASSUME WindowsInit PROVE WinInv
  OBVIOUS
<1>1. WindowsTypeOK /\ TasksOK
  BY DEF WindowsInit, WindowsTypeOK, TasksOK, Unused, Pcs
<1>2. HeldWindows /\ ShellAlive /\ OutsideNone /\ FlagsEnd
  BY DEF WindowsInit, HeldWindows, ShellAlive, OutsideNone, FlagsEnd, Unused, Owning
<1>. QED
  BY <1>1, <1>2 DEF WinInv

LEMMA EnterInd == ASSUME WinInv, EnterDesktop PROVE WinInv'
<1>. USE NoneFacts
<1>1. WindowsTypeOK'
  <2>1. 0 .. Panels \subseteq Slots
    BY WindowsAssumption DEF Slots
  <2>. QED
    BY <2>1 DEF WinInv, WindowsTypeOK, EnterDesktop, elfVars, closeVars
<1>2. TasksOK'
  BY DEF WinInv, TasksOK, EnterDesktop, elfVars, menuVars, closeVars
<1>3. HeldWindows' /\ OutsideNone'
  BY DEF WinInv, OutsideNone, HeldWindows, EnterDesktop
<1>4. ShellAlive'
  BY WindowsAssumption DEF ShellAlive, EnterDesktop
<1>5. FlagsEnd'
  BY DEF WinInv, FlagsEnd, EnterDesktop, elfVars, closeVars, Programs, Uncleared, InPixels
<1>. QED
  BY <1>1, <1>2, <1>3, <1>4, <1>5 DEF WinInv

LEMMA ExitInd ==
  ASSUME WinInv, Exit, startOpen' \in BOOLEAN
  PROVE  WinInv'
<1>1. \A t \in TaskSlots : tasks'[t].pc \in {"unused", "dead"} /\ tasks'[t].win = None
  BY DEF Exit, Unused, Dead
<1>2. WindowsTypeOK'
  BY <1>1 DEF WinInv, WindowsTypeOK, Exit
<1>3. TasksOK'
  BY DEF WinInv, TasksOK, Exit, Unused, Dead, Pcs
<1>4. HeldWindows' /\ ShellAlive' /\ OutsideNone'
  BY <1>1 DEF HeldWindows, ShellAlive, OutsideNone, Exit, Owning
<1>5. FlagsEnd'
  BY DEF FlagsEnd, Exit
<1>. QED
  BY <1>2, <1>3, <1>4, <1>5 DEF WinInv

\* Clicks and keys that open and close nothing.
LEMMA FocusInd ==
  ASSUME WinInv, SameTasks, UNCHANGED <<open, shellId>>,
         minimized' \subseteq open, focused' \in Slots \cup {None}, startOpen' \in BOOLEAN
  PROVE  WinInv'
<1>1. WindowsTypeOK' /\ TasksOK'
  BY DEF WinInv, WindowsTypeOK, TasksOK, SameTasks, elfVars, closeVars
<1>2. HeldWindows' /\ ShellAlive' /\ OutsideNone'
  BY DEF WinInv, HeldWindows, ShellAlive, OutsideNone, SameTasks, closeVars
<1>3. FlagsEnd'
  BY DEF WinInv, FlagsEnd, SameTasks, elfVars, closeVars, Programs, Uncleared, InPixels
<1>. QED
  BY <1>1, <1>2, <1>3 DEF WinInv

LEMMA CloseShellInd ==
  ASSUME WinInv, NEW w \in Slots, CloseShell(w)
  PROVE  WinInv'
<1>1. WindowsTypeOK' /\ TasksOK'
  BY DEF WinInv, WindowsTypeOK, TasksOK, CloseShell, SameTasks, elfVars, closeVars
<1>2. HeldWindows'
  BY NoneFacts DEF WinInv, WindowsTypeOK, HeldWindows, CloseShell, SameTasks, closeVars
<1>3. ShellAlive' /\ OutsideNone'
  BY DEF WinInv, ShellAlive, OutsideNone, CloseShell, SameTasks
<1>4. FlagsEnd'
  BY DEF WinInv, FlagsEnd, CloseShell, SameTasks, elfVars, closeVars, Programs, Uncleared, InPixels
<1>. QED
  BY <1>1, <1>2, <1>3, <1>4 DEF WinInv

\* The first half of the click: the window is gone, its tasks still run.
LEMMA CloseWindowInd ==
  ASSUME WinInv, NEW w \in Slots, CloseWindow(w)
  PROVE  WinInv'
<1>1. WindowsTypeOK' /\ TasksOK'
  BY DEF WinInv, WindowsTypeOK, TasksOK, CloseWindow, Home
<1>2. HeldWindows' /\ OutsideNone'
  BY NoneFacts DEF WinInv, HeldWindows, OutsideNone, CloseWindow, InLoop
<1>3. ShellAlive'
  BY DEF WinInv, ShellAlive, CloseWindow
<1>4. FlagsEnd'
  BY DEF FlagsEnd, CloseWindow
<1>. QED
  BY <1>1, <1>2, <1>3, <1>4 DEF WinInv

\* The second half: what such a task has set by now is known as left behind.
LEMMA KillTasksInd == ASSUME WinInv, KillTasks PROVE WinInv'
<1>1. \A t \in TaskSlots : tasks'[t] = IF tasks[t].win = closing THEN Dead ELSE tasks[t]
  BY DEF KillTasks, Killed
<1>2. Dead.pc = "dead" /\ Dead.win = None
  BY DEF Dead, Unused
<1>3. /\ closing # None /\ closing' = None
      /\ UNCHANGED <<inGui, open, minimized, focused, shellId, elfRunning, elfOut, gfxActive,
                     startOpen, cmdRunning, strays>>
  BY DEF KillTasks, winVars, elfVars, menuVars
<1>4. WindowsTypeOK'
  BY <1>1, <1>2, <1>3 DEF WinInv, WindowsTypeOK
<1>5. TasksOK'
  <2>1. tasks' \in [TaskSlots -> [pc : Pcs, win : Slots \cup {None},
                                  home : Slots \cup {None}, gfx : BOOLEAN]]
    BY DEF WinInv, TasksOK, KillTasks, Killed, Dead, Unused, Pcs
  <2>. QED
    BY <1>3, <2>1 DEF WinInv, TasksOK
<1>6. HeldWindows' /\ OutsideNone' /\ ShellAlive'
  BY <1>1, <1>2, <1>3 DEF WinInv, HeldWindows, OutsideNone, ShellAlive, Owning
<1>7. FlagsEnd'
  <2>1. elfRunning' => Programs' # {}
    BY <1>3 DEF WinInv, TasksOK
  <2>2. elfOut' # None /\ "out" \notin outlived' => \E t \in Uncleared' : tasks'[t].home = elfOut'
    <3>. SUFFICES ASSUME elfOut # None, "out" \notin outlived'
                  PROVE  \E t \in Uncleared' : tasks'[t].home = elfOut
      BY <1>3
    <3>1. /\ "out" \notin outlived
          /\ \A t \in Bound(closing) \cap Uncleared : tasks[t].home # elfOut
      BY DEF KillTasks
    <3>2. PICK t \in Uncleared : tasks[t].home = elfOut
      BY <3>1 DEF WinInv, FlagsEnd
    <3>3. tasks'[t] = tasks[t]
      BY <1>1, <3>1, <3>2 DEF Bound, Uncleared
    <3>. QED
      BY <3>2, <3>3 DEF Uncleared
  <2>3. gfxActive' /\ "gfx" \notin outlived' => InPixels' # {}
    <3>. SUFFICES ASSUME gfxActive, "gfx" \notin outlived'
                  PROVE  InPixels' # {}
      BY <1>3
    <3>1. "gfx" \notin outlived /\ Bound(closing) \cap InPixels = {}
      BY DEF KillTasks
    <3>2. PICK t \in InPixels : TRUE
      BY <3>1 DEF WinInv, FlagsEnd
    <3>3. tasks'[t] = tasks[t]
      BY <1>1, <3>1, <3>2 DEF Bound, InPixels
    <3>. QED
      BY <3>2, <3>3 DEF InPixels
  <2>. QED
    BY <2>1, <2>2, <2>3 DEF FlagsEnd
<1>. QED
  BY <1>4, <1>5, <1>6, <1>7 DEF WinInv

LEMMA AltTabInd == ASSUME WinInv, AltTab PROVE WinInv'
<1>1. focused' \in Slots \cup {None}
  <2>. DEFINE from == IF focused = None THEN 0 ELSE focused
  <2>1. CASE After(from) = {}
    BY <2>1 DEF AltTab, WinInv, WindowsTypeOK
  <2>2. CASE After(from) # {}
    <3>1. After(from) \subseteq Nat
      BY WindowsAssumption DEF After
    <3>2. Min(After(from)) \in Nat
      BY <3>1, <2>2, MinFacts
    <3>3. from \in Nat
      BY NoneFacts DEF WinInv, WindowsTypeOK
    <3>4. \A m \in Nat : (from + m) % NumSlots \in 0 .. NumSlots - 1
      BY <3>3, WindowsAssumption
    <3>. QED
      BY <2>2, <3>2, <3>4 DEF AltTab, Slots
  <2>. QED
    BY <2>1, <2>2
<1>. QED
  BY <1>1, FocusInd DEF AltTab, WinInv, WindowsTypeOK, TasksOK

LEMMA OpenShellInd == ASSUME WinInv, OpenShell PROVE WinInv'
<1>1. CASE shellId # None /\ shellId \in open
  BY <1>1, FocusInd DEF OpenShell, WinInv, WindowsTypeOK
<1>2. CASE ~(shellId # None /\ shellId \in open) /\ FreeSlots = {}
  BY <1>2, FocusInd DEF OpenShell, WinInv, WindowsTypeOK
<1>3. CASE ~(shellId # None /\ shellId \in open) /\ FreeSlots # {}
  <2>0. NewSlot \in Slots /\ NewSlot \notin open
    BY <1>3, NewSlotFacts
  <2>1. /\ open' = open \cup {NewSlot} /\ minimized' = minimized
        /\ shellId' = NewSlot /\ focused' = NewSlot
        /\ startOpen' = FALSE /\ SameTasks /\ closing = None
    BY <1>3 DEF OpenShell, InLoop
  <2>2. WindowsTypeOK' /\ TasksOK'
    BY <2>0, <2>1 DEF WinInv, WindowsTypeOK, TasksOK, SameTasks, elfVars, closeVars
  <2>3. HeldWindows' /\ ShellAlive' /\ OutsideNone'
    BY <2>0, <2>1 DEF WinInv, HeldWindows, ShellAlive, OutsideNone, SameTasks, closeVars
  <2>4. FlagsEnd'
    BY <2>1 DEF WinInv, FlagsEnd, SameTasks, elfVars, closeVars, Programs, Uncleared, InPixels
  <2>. QED
    BY <2>2, <2>3, <2>4 DEF WinInv
<1>. QED
  BY <1>1, <1>2, <1>3

-----------------------------------------------------------------------------
LEMMA SpawnInd ==
  ASSUME WinInv, NEW typed \in BOOLEAN, Spawn(typed)
  PROVE  WinInv'
<1>0. /\ NewSlot \in Slots /\ NewSlot \notin open /\ NewSlot # None
      /\ inGui /\ inGui' = inGui /\ focused' = NewSlot /\ startOpen' \in BOOLEAN
      /\ closing = None /\ closing' = None
      /\ UNCHANGED <<minimized, shellId, elfOut, gfxActive, cmdRunning, strays, outlived>>
  BY NewSlotFacts DEF Spawn, InLoop, closeVars, WinInv, TasksOK
<1>1. CASE FreeTasks = {}
  <2>1. open' = open /\ elfRunning' = FALSE /\ tasks' = tasks
    BY <1>1 DEF Spawn
  <2>2. WindowsTypeOK' /\ TasksOK'
    BY <1>0, <2>1 DEF WinInv, WindowsTypeOK, TasksOK
  <2>3. HeldWindows' /\ ShellAlive' /\ OutsideNone'
    BY <1>0, <2>1 DEF WinInv, HeldWindows, ShellAlive, OutsideNone
  <2>4. FlagsEnd'
    BY <1>0, <2>1 DEF WinInv, FlagsEnd, Uncleared, InPixels
  <2>. QED
    BY <2>2, <2>3, <2>4 DEF WinInv
<1>2. CASE FreeTasks # {}
  <2>. DEFINE new == [pc |-> "start", win |-> NewSlot, home |-> NewSlot, gfx |-> FALSE]
  <2>1. /\ open' = open \cup {NewSlot} /\ elfRunning' = TRUE
        /\ tasks' = [tasks EXCEPT ![NewTask] = new]
    BY <1>2 DEF Spawn
  <2>2. NewTask \in TaskSlots /\ tasks[NewTask].pc = "unused"
    BY <1>2, NewTaskFacts
  <2>3. /\ DOMAIN tasks = TaskSlots
        /\ tasks'[NewTask] = new
        /\ \A t \in TaskSlots \ {NewTask} : tasks'[t] = tasks[t]
    BY <2>1, <2>2 DEF WinInv, TasksOK
  <2>4. WindowsTypeOK'
    BY <1>0, <2>1, <2>2, <2>3 DEF WinInv, WindowsTypeOK
  <2>5. TasksOK'
    <3>1. new \in [pc : Pcs, win : Slots \cup {None}, home : Slots \cup {None}, gfx : BOOLEAN]
      BY <1>0 DEF Pcs
    <3>. QED
      BY <1>0, <2>1, <2>2, <3>1 DEF WinInv, TasksOK
  <2>6. HeldWindows'
    <3>. HIDE DEF new
    <3>. SUFFICES ASSUME strays = 0, NEW t \in TaskSlots, tasks'[t].pc \in Owning
                  PROVE  /\ tasks'[t].win = tasks'[t].home
                         /\ tasks'[t].win \in open' \cup ({closing'} \ {None})
                         /\ tasks'[t].win # shellId'
                         /\ \A u \in TaskSlots :
                              tasks'[u].pc \in Owning /\ tasks'[u].win = tasks'[t].win => u = t
      BY <1>0 DEF HeldWindows
    <3>1. new.win = NewSlot /\ new.home = NewSlot
      BY DEF new
    <3>2. \A u \in TaskSlots \ {NewTask} : tasks'[u].pc \in Owning =>
            tasks'[u].win = tasks'[u].home /\ tasks'[u].win \in open /\ tasks'[u].win # shellId
      BY <1>0, <2>3 DEF WinInv, HeldWindows
    <3>3. shellId # NewSlot
      BY <1>0 DEF WinInv, ShellAlive
    <3>4. CASE t = NewTask
      BY <1>0, <2>1, <2>3, <3>1, <3>2, <3>3, <3>4
    <3>5. CASE t # NewTask
      <4>1. \A u \in TaskSlots : tasks'[u].pc \in Owning /\ tasks'[u].win = tasks'[t].win => u = t
        BY <1>0, <2>3, <3>1, <3>2, <3>5 DEF WinInv, HeldWindows
      <4>. QED
        BY <1>0, <2>1, <3>2, <3>5, <4>1
    <3>. QED
      BY <3>4, <3>5
  <2>7. ShellAlive' /\ OutsideNone'
    BY <1>0, <2>1 DEF WinInv, ShellAlive, OutsideNone
  <2>8. FlagsEnd'
    <3>1. Programs' # {}
      BY <2>2, <2>3 DEF Programs
    <3>2. \A t \in TaskSlots : tasks[t].pc # "unused" => tasks'[t] = tasks[t]
      BY <2>2, <2>3
    <3>. QED
      BY <1>0, <3>1, <3>2 DEF WinInv, FlagsEnd, Uncleared, InPixels
  <2>. QED
    BY <2>4, <2>5, <2>6, <2>7, <2>8 DEF WinInv
<1>. QED
  BY <1>1, <1>2

LEMMA StartCommandInd == ASSUME WinInv, StartCommand PROVE WinInv'
<1>1. NewTask \in TaskSlots /\ tasks[NewTask].pc = "unused"
  BY NewTaskFacts DEF StartCommand
<1>2. /\ tasks' = [tasks EXCEPT ![NewTask] = [@ EXCEPT !.pc = "command"]]
      /\ cmdRunning' = TRUE
      /\ UNCHANGED <<inGui, open, minimized, focused, shellId,
                     elfRunning, elfOut, gfxActive, startOpen, strays, closing, outlived>>
  BY DEF StartCommand, winVars, elfVars, closeVars
<1>3. /\ tasks'[NewTask].pc = "command" /\ tasks'[NewTask].win = tasks[NewTask].win
      /\ \A t \in TaskSlots \ {NewTask} : tasks'[t] = tasks[t]
  BY <1>1, <1>2 DEF WinInv, TasksOK
<1>4. WindowsTypeOK'
  BY <1>1, <1>2, <1>3 DEF WinInv, WindowsTypeOK
<1>5. TasksOK'
  BY <1>1, <1>2 DEF WinInv, TasksOK, Pcs
<1>6. HeldWindows' /\ ShellAlive' /\ OutsideNone'
  BY <1>1, <1>2, <1>3 DEF WinInv, HeldWindows, ShellAlive, OutsideNone, Owning
<1>7. FlagsEnd'
  BY <1>1, <1>2, <1>3 DEF WinInv, FlagsEnd, Programs, Uncleared, InPixels
<1>. QED
  BY <1>4, <1>5, <1>6, <1>7 DEF WinInv

-----------------------------------------------------------------------------
(***************************************************************************)
(* The tasks' steps.                                                       *)
(***************************************************************************)
\* Task t goes from one place to the next and nothing else about the tasks
\* changes.
Stepped(t, from, to) ==
  /\ tasks[t].pc = from /\ tasks'[t].pc = to
  /\ tasks'[t].win = tasks[t].win /\ tasks'[t].home = tasks[t].home
  /\ \A u \in TaskSlots \ {t} : tasks'[u] = tasks[u]
  /\ tasks' \in [TaskSlots -> [pc : Pcs, win : Slots \cup {None},
                               home : Slots \cup {None}, gfx : BOOLEAN]]

LEMMA MoveFacts ==
  ASSUME WinInv, NEW t \in TaskSlots, NEW from, NEW to \in Pcs, Task(t, from, to)
  PROVE  Stepped(t, from, to)
BY DEF Stepped, Task, WinInv, TasksOK

\* Steps of a task that leave the windows alone and do not make it one that
\* holds a window.
LEMMA StepInd ==
  ASSUME WinInv, NEW t \in TaskSlots, NEW to \in Pcs,
         tasks'[t].pc = to, tasks'[t].win = tasks[t].win, tasks'[t].home = tasks[t].home,
         \A u \in TaskSlots \ {t} : tasks'[u] = tasks[u],
         tasks' \in [TaskSlots -> [pc : Pcs, win : Slots \cup {None},
                                   home : Slots \cup {None}, gfx : BOOLEAN]],
         to \in Owning => tasks[t].pc \in Owning,
         UNCHANGED <<inGui, winVars, startOpen, strays, closing>>,
         elfRunning' \in {elfRunning, FALSE},
         {elfRunning', gfxActive', cmdRunning'} \subseteq BOOLEAN,
         elfOut' \in Slots \cup {None},
         FlagsEnd'
  PROVE  WinInv'
<1>0. \A u \in TaskSlots : tasks'[u].win \in Slots \cup {None}
  OBVIOUS
<1>a. closing' # None => ~elfRunning'
  BY DEF WinInv, TasksOK
<1>1. WindowsTypeOK' /\ TasksOK'
  BY <1>0, <1>a DEF WinInv, WindowsTypeOK, TasksOK, winVars
<1>2. HeldWindows'
  <2>1. \A u \in TaskSlots : /\ tasks'[u].pc \in Owning => tasks[u].pc \in Owning
                             /\ tasks'[u].win = tasks[u].win
                             /\ tasks'[u].home = tasks[u].home
    OBVIOUS
  <2>. QED
    BY <2>1 DEF WinInv, HeldWindows, winVars
<1>3. ShellAlive'
  BY DEF WinInv, ShellAlive, winVars
<1>4. OutsideNone'
  BY DEF WinInv, OutsideNone
<1>. QED
  BY <1>1, <1>2, <1>3, <1>4 DEF WinInv

\* The windows of the tasks when one of them opens or closes one itself.
LEMMA StrayInd ==
  ASSUME WinInv, NEW t \in TaskSlots, NEW w \in Slots \cup {None}, SysWindow(t),
         tasks' = [tasks EXCEPT ![t].win = w], open' \subseteq Slots, minimized' \subseteq open'
  PROVE  WinInv'
<1>1. /\ strays' \in Nat /\ strays' # 0 /\ tasks[t].pc = "run"
      /\ UNCHANGED <<inGui, focused, shellId, elfRunning, elfOut, gfxActive, startOpen, cmdRunning,
                     closing, outlived>>
  BY DEF SysWindow, WinInv, TasksOK, elfVars, menuVars, closeVars
<1>2. \A u \in TaskSlots : /\ tasks'[u].pc = tasks[u].pc /\ tasks'[u].home = tasks[u].home
                           /\ tasks'[u].win \in Slots \cup {None}
  BY DEF WinInv, TasksOK
<1>3. WindowsTypeOK'
  BY <1>1, <1>2 DEF WinInv, WindowsTypeOK
<1>4. TasksOK'
  BY <1>1 DEF WinInv, TasksOK
<1>5. HeldWindows' /\ ShellAlive' /\ OutsideNone'
  BY <1>1, <1>2 DEF WinInv, HeldWindows, ShellAlive, OutsideNone
<1>6. FlagsEnd'
  BY <1>1, <1>2 DEF WinInv, FlagsEnd, Programs, Uncleared, InPixels
<1>. QED
  BY <1>3, <1>4, <1>5, <1>6 DEF WinInv

LEMMA TaskStepInd ==
  ASSUME WinInv, NEW t \in TaskSlots,
         \/ Begin(t) \/ GfxInit(t) \/ WinCreate(t) \/ WinClose(t) \/ Returned(t)
         \/ ClearOut(t) \/ ClearGfx(t) \/ TaskExit(t) \/ CommandDone(t)
  PROVE  WinInv'
<1>0. /\ tasks[t].home \in Slots \cup {None}
      /\ {elfRunning, gfxActive, cmdRunning} \subseteq BOOLEAN
      /\ elfOut \in Slots \cup {None}
  BY DEF WinInv, TasksOK, WindowsTypeOK
<1>1. CASE Begin(t)
  <2>1. Task(t, "start", "run") /\ elfOut' = tasks[t].home
        /\ outlived' = outlived \ {"out"}
        /\ UNCHANGED <<inGui, winVars, menuVars, strays, closing, elfRunning, gfxActive>>
    BY <1>1 DEF Begin, SameDesktop, Owned
  <2>2. Stepped(t, "start", "run")
    BY <2>1, MoveFacts DEF Pcs
  <2>3. FlagsEnd'
    BY <2>1, <2>2 DEF Stepped, WinInv, FlagsEnd, Programs, Uncleared, InPixels
  <2>. QED
    BY <1>0, <2>1, <2>2, <2>3, StepInd DEF Stepped, Pcs, Owning, menuVars
<1>2. CASE GfxInit(t)
  <2>1. tasks[t].pc = "run" /\ gfxActive' = TRUE
        /\ outlived' = outlived \ {"gfx"}
        /\ UNCHANGED <<inGui, winVars, menuVars, strays, closing, elfRunning, elfOut, tasks>>
    BY <1>2 DEF GfxInit, SameDesktop, Owned
  <2>2. FlagsEnd'
    BY <2>1 DEF WinInv, FlagsEnd, Programs, Uncleared, InPixels
  <2>. QED
    BY <1>0, <2>1, <2>2, StepInd DEF Pcs, Owning, menuVars, WinInv, TasksOK
<1>3. CASE WinCreate(t)
  BY <1>3, NewSlotFacts, StrayInd DEF WinCreate, WinInv, WindowsTypeOK
<1>4. CASE WinClose(t)
  BY <1>4, StrayInd DEF WinClose, WinInv, WindowsTypeOK
<1>5. CASE Returned(t)
  <2>1. tasks[t].pc = "run" /\ elfRunning' = FALSE
        /\ UNCHANGED <<inGui, winVars, menuVars, strays, closing, elfOut, gfxActive, outlived>>
    BY <1>5 DEF Returned, SameDesktop
  <2>2. /\ tasks'[t].pc = "out" /\ tasks'[t].win = tasks[t].win /\ tasks'[t].home = tasks[t].home
        /\ \A u \in TaskSlots \ {t} : tasks'[u] = tasks[u]
        /\ tasks' \in [TaskSlots -> [pc : Pcs, win : Slots \cup {None},
                                     home : Slots \cup {None}, gfx : BOOLEAN]]
    <3>1. /\ tasks' = [tasks EXCEPT ![t].pc = "out", ![t].gfx = gfxActive]
          /\ gfxActive \in BOOLEAN /\ "out" \in Pcs
          /\ tasks \in [TaskSlots -> [pc : Pcs, win : Slots \cup {None},
                                      home : Slots \cup {None}, gfx : BOOLEAN]]
      BY <1>0, <1>5 DEF Returned, WinInv, TasksOK, Pcs
    <3>2. tasks'[t] = [tasks[t] EXCEPT !.pc = "out", !.gfx = gfxActive]
      BY <3>1
    <3>3. \A u \in TaskSlots \ {t} : tasks'[u] = tasks[u]
      BY <3>1
    <3>4. tasks'[t] \in [pc : Pcs, win : Slots \cup {None}, home : Slots \cup {None}, gfx : BOOLEAN]
      BY <3>1, <3>2
    <3>5. tasks' \in [TaskSlots -> [pc : Pcs, win : Slots \cup {None},
                                    home : Slots \cup {None}, gfx : BOOLEAN]]
      BY <3>1, <3>3, <3>4
    <3>. QED
      BY <3>1, <3>2, <3>3, <3>5
  <2>3. FlagsEnd'
    BY <2>1, <2>2 DEF WinInv, FlagsEnd, Programs, Uncleared, InPixels
  <2>. QED
    BY <1>0, <2>1, <2>2, <2>3, StepInd DEF Pcs, Owning, menuVars
<1>6. CASE ClearOut(t)
  <2>1. Task(t, "out", "gfx") /\ elfOut' = None
        /\ outlived' = outlived \ {"out"}
        /\ UNCHANGED <<inGui, winVars, menuVars, strays, closing, elfRunning, gfxActive>>
    BY <1>6 DEF ClearOut, SameDesktop, Owned
  <2>2. Stepped(t, "out", "gfx")
    BY <2>1, MoveFacts DEF Pcs
  <2>3. FlagsEnd'
    BY <2>1, <2>2 DEF Stepped, WinInv, FlagsEnd, Programs, Uncleared, InPixels
  <2>. QED
    BY <1>0, <2>1, <2>2, <2>3, StepInd DEF Stepped, Pcs, Owning, menuVars
<1>7. CASE ClearGfx(t)
  <2>1. Task(t, "gfx", "close") /\ gfxActive' = FALSE
        /\ outlived' = outlived \ {"gfx"}
        /\ UNCHANGED <<inGui, winVars, menuVars, strays, closing, elfRunning, elfOut>>
    BY <1>7 DEF ClearGfx, SameDesktop, Owned
  <2>2. Stepped(t, "gfx", "close")
    BY <2>1, MoveFacts DEF Pcs
  <2>3. FlagsEnd'
    BY <2>1, <2>2 DEF Stepped, WinInv, FlagsEnd, Programs, Uncleared, InPixels
  <2>. QED
    BY <1>0, <2>1, <2>2, <2>3, StepInd DEF Stepped, Pcs, Owning, menuVars
<1>8. CASE TaskExit(t)
  <2>1. tasks[t].pc = "exit" /\ tasks' = [tasks EXCEPT ![t] = Dead]
        /\ UNCHANGED <<inGui, winVars, menuVars, strays, closing, outlived, elfRunning, elfOut, gfxActive>>
    BY <1>8 DEF TaskExit, SameDesktop, elfVars
  <2>2. Dead = [pc |-> "dead", win |-> None, home |-> None, gfx |-> FALSE]
    BY DEF Dead
  <2>3. /\ tasks'[t] = Dead /\ \A u \in TaskSlots \ {t} : tasks'[u] = tasks[u]
        /\ tasks' \in [TaskSlots -> [pc : Pcs, win : Slots \cup {None},
                                     home : Slots \cup {None}, gfx : BOOLEAN]]
    BY <2>1, <2>2 DEF WinInv, TasksOK, Pcs
  <2>4. FlagsEnd'
    BY <2>1, <2>2, <2>3 DEF WinInv, FlagsEnd, Programs, Uncleared, InPixels
  <2>5. WindowsTypeOK' /\ TasksOK'
    BY <2>1, <2>2, <2>3 DEF WinInv, WindowsTypeOK, TasksOK, winVars, menuVars
  <2>6. HeldWindows' /\ ShellAlive' /\ OutsideNone'
    BY <2>1, <2>2, <2>3 DEF WinInv, HeldWindows, ShellAlive, OutsideNone, winVars, Owning
  <2>. QED
    BY <2>4, <2>5, <2>6 DEF WinInv
<1>9. CASE CommandDone(t)
  <2>1. Task(t, "command", "exit") /\ cmdRunning' = FALSE
        /\ UNCHANGED <<inGui, winVars, startOpen, strays, elfRunning, elfOut, gfxActive, closing, outlived>>
    BY <1>9 DEF CommandDone, elfVars, closeVars
  <2>2. Stepped(t, "command", "exit")
    BY <2>1, MoveFacts DEF Pcs
  <2>3. FlagsEnd'
    BY <2>1, <2>2 DEF Stepped, WinInv, FlagsEnd, Programs, Uncleared, InPixels
  <2>. QED
    BY <1>0, <2>1, <2>2, <2>3, StepInd DEF Stepped, Pcs, Owning
<1>. QED
  BY <1>1, <1>2, <1>3, <1>4, <1>5, <1>6, <1>7, <1>8, <1>9

LEMMA FinishInd ==
  ASSUME WinInv, NEW t \in TaskSlots, Finish(t)
  PROVE  WinInv'
<1>. DEFINE w == tasks[t].home
            gone == IF w \in open /\ tasks[t].gfx THEN {w} ELSE {}
<1>1. /\ Task(t, "close", "exit")
      /\ open' = open \ gone /\ minimized' = minimized \ gone
      /\ focused' \in Slots \cup {None}
      /\ UNCHANGED <<inGui, shellId, elfVars, menuVars, strays, closing, outlived>>
  BY DEF Finish, Home, WinInv, WindowsTypeOK, closeVars
<1>2. Stepped(t, "close", "exit")
  BY <1>1, MoveFacts DEF Pcs
<1>3. gone \subseteq {w}
  OBVIOUS
<1>. HIDE DEF gone
<1>4. WindowsTypeOK'
  BY <1>1, <1>2 DEF Stepped, WinInv, WindowsTypeOK, elfVars
<1>5. TasksOK'
  BY <1>1, <1>2 DEF Stepped, WinInv, TasksOK, elfVars, menuVars
<1>6. HeldWindows'
  <2>. SUFFICES ASSUME strays = 0
                PROVE  HeldWindows'
    BY <1>1 DEF HeldWindows
  <2>1. tasks[t].win = w /\ \A u \in TaskSlots : tasks[u].pc \in Owning /\ tasks[u].win = w => u = t
    BY <1>2 DEF Stepped, WinInv, HeldWindows, Owning
  <2>2. \A u \in TaskSlots : tasks'[u].pc \in Owning => u # t /\ tasks'[u] = tasks[u]
    BY <1>2 DEF Stepped, Owning
  <2>. QED
    BY <1>1, <1>3, <2>1, <2>2 DEF WinInv, HeldWindows
<1>7. ShellAlive'
  BY <1>1, <1>2, <1>3 DEF Stepped, WinInv, ShellAlive, HeldWindows, Owning
<1>8. OutsideNone'
  BY <1>1, <1>2 DEF Stepped, WinInv, OutsideNone, Owning
<1>9. FlagsEnd'
  BY <1>1, <1>2 DEF Stepped, WinInv, FlagsEnd, Programs, Uncleared, InPixels, elfVars, closeVars
<1>. QED
  BY <1>4, <1>5, <1>6, <1>7, <1>8, <1>9 DEF WinInv

-----------------------------------------------------------------------------
LEMMA NextInd == WinInv /\ [WindowsNext]_windowVars => WinInv'
<1>. SUFFICES ASSUME WinInv, [WindowsNext]_windowVars PROVE WinInv'
  OBVIOUS
<1>0. startOpen \in BOOLEAN /\ open \subseteq Slots /\ minimized \subseteq open
      /\ {focused, shellId} \subseteq Slots \cup {None}
  BY DEF WinInv, WindowsTypeOK, TasksOK
<1>1. CASE EnterDesktop \/ ExitCommand \/ ExitItem
  BY <1>0, <1>1, EnterInd, ExitInd DEF ExitCommand, ExitItem
<1>2. ASSUME NEW w \in Slots, TaskbarClick(w) \/ WindowClick(w) \/ Minimize(w)
      PROVE  WinInv'
  <2>1. /\ SameTasks /\ UNCHANGED <<open, shellId>> /\ minimized' \subseteq open
        /\ focused' \in Slots \cup {None} /\ startOpen' = FALSE
    BY <1>0, <1>2 DEF TaskbarClick, WindowClick, Minimize, Home
  <2>. QED
    BY <2>1, FocusInd
<1>3. ASSUME NEW w \in Slots, CloseShell(w) \/ CloseWindow(w)
      PROVE  WinInv'
  BY <1>3, CloseShellInd, CloseWindowInd
<1>9. CASE KillTasks
  BY <1>9, KillTasksInd
<1>4. CASE DesktopClick \/ StartButton \/ OtherItem
  <2>1. /\ SameTasks /\ UNCHANGED <<open, shellId>> /\ minimized' \subseteq open
        /\ focused' \in Slots \cup {None} /\ startOpen' \in BOOLEAN
    BY <1>0, <1>4 DEF DesktopClick, StartButton, OtherItem, winVars
  <2>. QED
    BY <2>1, FocusInd
<1>5. CASE AltTab \/ OpenShell \/ StartCommand
  BY <1>5, AltTabInd, OpenShellInd, StartCommandInd
<1>6. ASSUME NEW typed \in BOOLEAN, Spawn(typed)
      PROVE  WinInv'
  BY <1>6, SpawnInd
<1>7. ASSUME NEW t \in TaskSlots,
             \/ Begin(t) \/ GfxInit(t) \/ WinCreate(t) \/ WinClose(t) \/ Returned(t)
             \/ ClearOut(t) \/ ClearGfx(t) \/ Finish(t) \/ TaskExit(t) \/ CommandDone(t)
      PROVE  WinInv'
  BY <1>7, TaskStepInd, FinishInd
<1>8. CASE UNCHANGED windowVars
  BY <1>8 DEF windowVars, winVars, elfVars, menuVars, WinInv, WindowsTypeOK, TasksOK, HeldWindows,
              ShellAlive, OutsideNone, FlagsEnd, Programs, Uncleared, InPixels, closeVars
<1>. QED
  BY <1>1, <1>2, <1>3, <1>4, <1>5, <1>6, <1>7, <1>8, <1>9 DEF WindowsNext

\* WinInv gives what the runs check: programs are among the tasks that hold a
\* window.
LEMMA WinSound == WinInv => DesktopSound
<1>. SUFFICES ASSUME WinInv PROVE DesktopSound
  OBVIOUS
<1>1. \A t \in Programs : t \in TaskSlots /\ tasks[t].pc \in Owning
  BY DEF Programs, Owning
<1>2. OwnWindow /\ ShellOpen
  BY <1>1 DEF WinInv, HeldWindows, ShellAlive, OwnWindow, ShellOpen
<1>. QED
  BY <1>2 DEF WinInv, DesktopSound

\* With any number of windows and tasks, a running program keeps a window of
\* its own, the shell's window stays open, and no program's flag outlives it but
\* one that is set while the program's window is being closed (wm.c: wm_create,
\* handle_mouse, elf_task_trampoline, wm_spawn_elf).
THEOREM DesktopCorrect == WindowsSpec => []DesktopSound
<1>1. WinInv => DesktopSound
  BY WinSound
<1>2. WindowsInit => WinInv
  BY InitWin
<1>3. WinInv /\ [WindowsNext]_windowVars => WinInv'
  BY NextInd
<1>. QED
  BY <1>1, <1>2, <1>3, PTL DEF WindowsSpec

-----------------------------------------------------------------------------
(***************************************************************************)
(* The keyboard.                                                           *)
(***************************************************************************)
\* A behaviour has one reader (two can take one character, see the README).
OneReader == \A R \in Readers : \E r \in {"wm", "elf"} : R = {r}

Flags5  == Modifiers \cup {"ext"}
Mods    == [Flags5 -> BOOLEAN]
CharSet == {NoChar} \cup (AllKeys \X {"upper", "lower", "symbol", "plain", "control"})
Codes   == [key : AllKeys \cup {"e0"}, down : BOOLEAN, means : CharSet]
Places  == {"out", "get", "load", "advance", "got", "empty", "wait", "keys"}

\* The handler's flags after a byte, and what a byte must say when it finds them so.
Handled(ms, b) ==
  IF b.key = "e0" THEN [ms EXCEPT !["ext"] = TRUE]
  ELSE IF ms["ext"] THEN [ms EXCEPT !["ext"] = FALSE]
  ELSE IF b.key \in {"shift", "ctrl", "alt"} THEN [ms EXCEPT ![b.key] = b.down]
  ELSE IF b.key = "caps" THEN [ms EXCEPT !["caps"] = IF b.down THEN ~@ ELSE @]
  ELSE ms
Typed(key, ms) == IF key \in Arrows THEN <<key, "plain">>
                  ELSE IF key \in Extended \cup Modifiers THEN NoChar
                  ELSE Meaning(key, ms["shift"], ms["caps"], ms["ctrl"])
ByteOK(b, ms) ==
  /\ b.key # "e0" => (ms["ext"] <=> b.key \in Extended)
  /\ b.means = IF b.key = "e0" \/ ~b.down THEN NoChar ELSE Typed(b.key, ms)

\* The flags go from one value to the other through the bytes of w, each of which
\* finds them as it should.
Through(t, w) ==
  \A i \in 1 .. Len(w) : t[i + 1] = Handled(t[i], w[i]) /\ ByteOK(w[i], t[i])
Runs(w, from, to) ==
  \E t \in [1 .. Len(w) + 1 -> Mods] : t[1] = from /\ t[Len(w) + 1] = to /\ Through(t, w)

\* The flags that go with the keys that are down.
Stands(ms, h, caps) ==
  /\ ms["ext"] = FALSE /\ (ms["caps"] <=> caps)
  /\ \A m \in {"shift", "ctrl", "alt"} : ms[m] <=> m \in h

\* The ring's slots from the head on hold what is wanted.
At(h, k) == IF h + k < RingSize THEN h + k ELSE h + k - RingSize
RingInv ==
  /\ ring \in [buf : [0 .. RingSize - 1 -> CharSet], head : 0 .. RingSize - 1, tail : 0 .. RingSize - 1]
  /\ want \in Seq(CharSet) /\ Len(want) < RingSize
  /\ ring.tail = At(ring.head, Len(want))
  /\ \A i \in 1 .. Len(want) : ring.buf[At(ring.head, i - 1)] = want[i]

ReaderInv ==
  /\ at \in [{"wm", "elf"} -> Places] /\ char \in [{"wm", "elf"} -> CharSet]
  /\ \E r \in {"wm", "elf"} :
       /\ readers = {r}
       /\ at[r] \in {"load", "advance"} => want # <<>>
       /\ at[r] = "advance" => char[r] = want[1]

WireInv ==
  /\ held \subseteq Keys /\ capsOn \in BOOLEAN /\ mods \in Mods /\ wire \in Seq(Codes)
  /\ \E ms \in Mods : Runs(wire, mods, ms) /\ Stands(ms, held, capsOn)

LineInv == line \in Seq(CharSet) /\ Len(line) < LineLen

KbdInv == WireInv /\ RingInv /\ ReaderInv /\ LineInv

-----------------------------------------------------------------------------
LEMMA KbdConsts ==
  /\ RingSize \in Nat \ {0} /\ LineLen \in Nat \ {0} /\ Keys \subseteq AllKeys
  /\ KeyLetters \cap (Extended \cup Modifiers \cup {"digit", "enter", "backspace", "f1", "e0", "ext", "none"}) = {}
BY KeyboardAssumption

LEMMA KeyFacts ==
  /\ "e0" \notin AllKeys /\ "ext" \notin AllKeys /\ Extended \cup Modifiers \subseteq AllKeys
  /\ Extended \cap Modifiers = {} /\ Arrows \subseteq Extended
  /\ "shift" \in Flags5 /\ "ctrl" \in Flags5 /\ "alt" \in Flags5 /\ "caps" \in Flags5 /\ "ext" \in Flags5
BY KbdConsts DEF AllKeys, Extended, Modifiers, Arrows, Flags5

\* The handler keeps the flags Booleans.
LEMMA HandledType ==
  ASSUME NEW ms \in Mods, NEW b \in Codes
  PROVE  Handled(ms, b) \in Mods
BY DEF Handled, Mods, Flags5, Modifiers, Codes

LEMMA RunsEmpty ==
  ASSUME NEW f \in Mods
  PROVE  Runs(<<>>, f, f)
<1>1. PICK t : t = [i \in 1 .. 1 |-> f]
  OBVIOUS
<1>2. t \in [1 .. 1 -> Mods] /\ t[1] = f
  BY <1>1
<1>3. Len(<<>>) = 0 /\ 0 + 1 = 1
  OBVIOUS
<1>4. Through(t, <<>>)
  BY <1>3 DEF Through
<1>. QED
  BY <1>2, <1>3, <1>4 DEF Runs

LEMMA RunsDone ==
  ASSUME NEW f, NEW g, Runs(<<>>, f, g)
  PROVE  f = g
BY DEF Runs

\* A byte that says what the flags it meets make of it may follow the others.
LEMMA RunsAppend ==
  ASSUME NEW w \in Seq(Codes), NEW f \in Mods, NEW g \in Mods, NEW b \in Codes,
         Runs(w, f, g), ByteOK(b, g)
  PROVE  Runs(Append(w, b), f, Handled(g, b))
<1>. DEFINE n == Len(w)
            v == Append(w, b)
<1>1. PICK t \in [1 .. n + 1 -> Mods] : t[1] = f /\ t[n + 1] = g /\ Through(t, w)
  BY DEF Runs
<1>2. n \in Nat /\ Len(v) = n + 1 /\ v[n + 1] = b /\ \A i \in 1 .. n : v[i] = w[i]
  BY AppendProperties
<1>3. Handled(g, b) \in Mods
  BY HandledType
<1>4. PICK h : h = Handled(g, b)
  OBVIOUS
<1>. DEFINE s == [i \in 1 .. Len(v) + 1 |-> IF i <= n + 1 THEN t[i] ELSE h]
<1>. HIDE DEF n, v
<1>5. s \in [1 .. Len(v) + 1 -> Mods]
  BY <1>1, <1>2, <1>3, <1>4
<1>6. s[1] = f /\ s[Len(v) + 1] = h /\ s[n + 1] = g /\ \A i \in 1 .. n + 1 : s[i] = t[i]
  BY <1>1, <1>2
<1>. HIDE DEF s
<1>7. ASSUME NEW i \in 1 .. Len(v)
      PROVE  s[i + 1] = Handled(s[i], v[i]) /\ ByteOK(v[i], s[i])
  <2>1. CASE i = n + 1
    BY <1>2, <1>4, <1>6, <2>1
  <2>2. CASE i # n + 1
    <3>1. i \in 1 .. n /\ i + 1 \in 1 .. n + 1 /\ i \in 1 .. n + 1
      BY <1>2, <2>2
    <3>2. s[i + 1] = t[i + 1] /\ s[i] = t[i] /\ v[i] = w[i]
      BY <1>2, <1>6, <3>1
    <3>3. t[i + 1] = Handled(t[i], w[i]) /\ ByteOK(w[i], t[i])
      BY <1>1, <3>1 DEF Through, n
    <3>. QED
      BY <3>2, <3>3
  <2>. QED
    BY <2>1, <2>2
<1>8. Through(s, v)
  BY <1>7 DEF Through
<1>9. Runs(v, f, h)
  BY <1>5, <1>6, <1>8 DEF Runs
<1>. QED
  BY <1>4, <1>9 DEF v

\* When the first byte is handled, the rest runs from the flags it leaves.
LEMMA RunsTail ==
  ASSUME NEW w \in Seq(Codes), w # <<>>, NEW f \in Mods, NEW g \in Mods, Runs(w, f, g)
  PROVE  /\ ByteOK(Head(w), f)
         /\ Runs(Tail(w), Handled(f, Head(w)), g)
<1>. DEFINE n == Len(w)
            v == Tail(w)
<1>1. PICK t \in [1 .. n + 1 -> Mods] : t[1] = f /\ t[n + 1] = g /\ Through(t, w)
  BY DEF Runs
<1>2. n \in Nat \ {0} /\ Len(v) = n - 1 /\ Head(w) = w[1] /\ \A i \in 1 .. n - 1 : v[i] = w[i + 1]
  BY HeadTailProperties, EmptySeq
<1>3. \A i \in 1 .. n : t[i + 1] = Handled(t[i], w[i]) /\ ByteOK(w[i], t[i])
  BY <1>1 DEF Through
<1>. DEFINE s == [i \in 1 .. Len(v) + 1 |-> t[i + 1]]
<1>. HIDE DEF n, v
<1>4. s \in [1 .. Len(v) + 1 -> Mods] /\ s[1] = t[2] /\ s[Len(v) + 1] = g
  BY <1>1, <1>2
<1>5. \A i \in 1 .. Len(v) + 1 : s[i] = t[i + 1]
  OBVIOUS
<1>. HIDE DEF s
<1>6. t[2] = Handled(f, Head(w)) /\ ByteOK(Head(w), f)
  <2>1. 1 \in 1 .. n /\ 1 + 1 = 2
    BY <1>2
  <2>. QED
    BY <1>1, <1>2, <1>3, <2>1
<1>7. Through(s, v)
  <2>. SUFFICES ASSUME NEW i \in 1 .. Len(v)
                PROVE  s[i + 1] = Handled(s[i], v[i]) /\ ByteOK(v[i], s[i])
    BY DEF Through
  <2>1. i \in 1 .. Len(v) + 1 /\ i + 1 \in 1 .. Len(v) + 1 /\ i + 1 \in 1 .. n /\ i \in 1 .. n - 1
    BY <1>2
  <2>2. s[i + 1] = t[i + 1 + 1] /\ s[i] = t[i + 1] /\ v[i] = w[i + 1]
    BY <1>2, <1>5, <2>1
  <2>. QED
    BY <1>3, <2>1, <2>2
<1>8. Runs(v, t[2], g)
  BY <1>4, <1>7 DEF Runs
<1>. QED
  BY <1>6, <1>8 DEF v

-----------------------------------------------------------------------------
(* ------------------------- keys and their codes ------------------------ *)
LEMMA PairsAreChars ==
  /\ \A a, b : <<a, b>> # NoChar
  /\ \A key \in AllKeys, kind \in {"upper", "lower", "symbol", "plain", "control"} : <<key, kind>> \in CharSet
  /\ NoChar \in CharSet /\ NoChar[1] = "none"
<1>1. ASSUME NEW a, NEW b PROVE <<a, b>> # NoChar
  <2>1. Len(<<a, b>>) = 2 /\ Len(NoChar) = 1
    BY DEF NoChar
  <2>. QED
    BY <2>1
<1>2. NoChar[1] = "none"
  BY DEF NoChar
<1>. QED
  BY <1>1, <1>2 DEF CharSet

\* What the handler types is one of the characters.
LEMMA TypedFacts ==
  ASSUME NEW key \in AllKeys, NEW ms \in Mods
  PROVE  /\ Typed(key, ms) \in CharSet
         /\ key \in Modifiers \cup {"home"} => Typed(key, ms) = NoChar
         /\ key \in Arrows => Typed(key, ms) = <<key, "plain">>
<1>1. \A s, c, k \in BOOLEAN : Meaning(key, s, c, k) \in CharSet
  <2>. SUFFICES ASSUME NEW s \in BOOLEAN, NEW c \in BOOLEAN, NEW k \in BOOLEAN
                PROVE  Meaning(key, s, c, k) \in CharSet
    OBVIOUS
  <2>1. CASE key \in KeyLetters
    <3>1. PICK kind \in {"upper", "lower"} : Table(key, s) = <<key, kind>>
      BY <2>1 DEF Table
    <3>2. Table(key, s)[1] = key
      BY <3>1
    <3>3. Meaning(key, s, c, k) \in {<<key, "upper">>, <<key, "control">>, <<key, kind>>,
                                     <<"up", "plain">>, <<"down", "plain">>}
      BY <2>1, <3>1, <3>2 DEF Meaning, Control
    <3>. QED
      BY <3>3, KeyFacts, PairsAreChars DEF Extended, Arrows
  <2>2. CASE key \notin KeyLetters
    <3>1. Table(key, s) \in CharSet /\ Table(key, s)[1] \in {key, "none"}
      BY <2>2, PairsAreChars DEF Table
    <3>2. Table(key, s)[1] \notin KeyLetters
      BY <2>2, <3>1, KbdConsts
    <3>3. Meaning(key, s, c, k) = Table(key, s)
      BY <3>2 DEF Meaning
    <3>. QED
      BY <3>1, <3>3
  <2>. QED
    BY <2>1, <2>2
<1>2. ms["shift"] \in BOOLEAN /\ ms["caps"] \in BOOLEAN /\ ms["ctrl"] \in BOOLEAN
  BY KeyFacts DEF Mods
<1>3. Typed(key, ms) \in CharSet
  BY <1>1, <1>2, PairsAreChars DEF Typed
<1>4. key \in Modifiers \cup {"home"} => Typed(key, ms) = NoChar
  BY DEF Typed, Modifiers, Extended, Arrows
<1>. QED
  BY <1>3, <1>4 DEF Typed

\* What a key means to the user is what the handler types when its flags are right.
LEMMA MeantIsTyped ==
  ASSUME held \subseteq AllKeys, capsOn \in BOOLEAN, NEW key \in AllKeys,
         NEW ms \in Mods, Stands(ms, held, capsOn)
  PROVE  Meant(key) = Typed(key, ms)
<1>1. /\ ms["shift"] <=> "shift" \in held
      /\ ms["ctrl"] <=> "ctrl" \in held
      /\ ms["caps"] <=> capsOn
  BY DEF Stands
<1>2. Table(key, "shift" \in held) = Table(key, ms["shift"])
  BY <1>1 DEF Table
<1>3. Meaning(key, "shift" \in held, capsOn, "ctrl" \in held)
        = Meaning(key, ms["shift"], ms["caps"], ms["ctrl"])
  BY <1>1, <1>2 DEF Meaning
<1>. QED
  BY <1>3 DEF Meant, Typed

\* What a key that moves does to the flags, once its bytes are handled.
Sent(b) == IF b.key \in Extended THEN <<E0>> ELSE <<>>
Says(b, k) == b.means = IF b.down THEN Typed(b.key, k) ELSE NoChar
FlagsAfter(b, k) == IF b.key \in Extended THEN k ELSE Handled(k, b)
KeyMoves(h, c, b, h2, c2) ==
  /\ h2 = IF b.down THEN h \cup {b.key} ELSE h \ {b.key}
  /\ c2 = IF b.down /\ b.key = "caps" THEN ~c ELSE c

\* The prefix of an extended key sets ext, and only that.
LEMMA PrefixRuns ==
  ASSUME NEW k \in Mods, k["ext"] = FALSE, NEW b \in Codes, b.key \in Extended, Says(b, k)
  PROVE  /\ E0 \in Codes /\ ByteOK(E0, k) /\ Handled(k, E0) \in Mods
         /\ ByteOK(b, Handled(k, E0)) /\ Handled(Handled(k, E0), b) = k
<1>1. E0 \in Codes /\ E0.key = "e0" /\ E0.means = NoChar
  BY PairsAreChars DEF E0, Codes
<1>2. PICK e : e = Handled(k, E0)
  OBVIOUS
<1>3. e = [k EXCEPT !["ext"] = TRUE]
  BY <1>1, <1>2 DEF Handled
<1>4. e \in Mods /\ e["ext"] = TRUE
  BY <1>3, KeyFacts DEF Mods
<1>5. b.key # "e0"
  BY KeyFacts
<1>6. Typed(b.key, e) = Typed(b.key, k)
  BY DEF Typed
<1>7. ByteOK(b, e)
  BY <1>4, <1>5, <1>6 DEF ByteOK, Says
<1>8. Handled(e, b) = k
  <2>1. Handled(e, b) = [e EXCEPT !["ext"] = FALSE]
    BY <1>4, <1>5 DEF Handled
  <2>. QED
    BY <1>3, <2>1, KeyFacts DEF Mods
<1>9. ByteOK(E0, k)
  BY <1>1 DEF ByteOK
<1>. QED
  BY <1>1, <1>2, <1>4, <1>7, <1>8, <1>9

\* All bytes of one key movement run, and end with the flags of that movement.
LEMMA BytesRun ==
  ASSUME NEW k \in Mods, k["ext"] = FALSE, NEW b \in Codes, b.key \in AllKeys, Says(b, k),
         NEW w \in Seq(Codes), NEW from \in Mods, Runs(w, from, k)
  PROVE  /\ w \o Sent(b) \o <<b>> \in Seq(Codes)
         /\ FlagsAfter(b, k) \in Mods /\ Runs(w \o Sent(b) \o <<b>>, from, FlagsAfter(b, k))
<1>1. \A s \in Seq(Codes), x \in Codes : s \o <<x>> = Append(s, x) /\ Append(s, x) \in Seq(Codes)
  OBVIOUS
<1>2. CASE b.key \in Extended
  <2>1. PICK u : u = Append(w, E0)
    OBVIOUS
  <2>2. PICK e \in Mods : e = Handled(k, E0)
    BY <1>2, PrefixRuns
  <2>3. E0 \in Codes /\ ByteOK(E0, k) /\ ByteOK(b, e) /\ Handled(e, b) = k
    BY <1>2, <2>2, PrefixRuns
  <2>4. u \in Seq(Codes) /\ Runs(u, from, e)
    BY <1>1, <2>1, <2>2, <2>3, RunsAppend
  <2>5. Append(u, b) \in Seq(Codes) /\ Runs(Append(u, b), from, k)
    <3>1. Runs(Append(u, b), from, Handled(e, b))
      BY <2>3, <2>4, RunsAppend
    <3>. QED
      BY <1>1, <2>3, <2>4, <3>1
  <2>6. w \o Sent(b) \o <<b>> = Append(u, b)
    BY <1>1, <1>2, <2>1, <2>3, <2>4 DEF Sent
  <2>. QED
    BY <1>2, <2>5, <2>6 DEF FlagsAfter
<1>3. CASE b.key \notin Extended
  <2>1. b.key # "e0"
    BY KeyFacts
  <2>2. ByteOK(b, k)
    BY <1>3, <2>1 DEF ByteOK, Says
  <2>3. Append(w, b) \in Seq(Codes) /\ Runs(Append(w, b), from, Handled(k, b))
    BY <1>1, <2>2, RunsAppend
  <2>4. Handled(k, b) \in Mods
    BY HandledType
  <2>5. w \o <<>> = w
    OBVIOUS
  <2>6. w \o Sent(b) \o <<b>> = Append(w, b)
    BY <1>1, <1>3, <2>5 DEF Sent
  <2>. QED
    BY <1>3, <2>3, <2>4, <2>6 DEF FlagsAfter
<1>. QED
  BY <1>2, <1>3

\* Flags that agree with the keys held down still do after one more movement.
LEMMA FlagsFollow ==
  ASSUME NEW h, NEW c \in BOOLEAN, NEW h2, NEW c2, NEW b \in Codes, NEW k \in Mods,
         Stands(k, h, c), KeyMoves(h, c, b, h2, c2), b.key \in AllKeys
  PROVE  Stands(FlagsAfter(b, k), h2, c2)
<1>1. PICK key : key = b.key
  OBVIOUS
<1>2. PICK down \in BOOLEAN : down = b.down
  BY DEF Codes
<1>3. /\ h2 = IF down THEN h \cup {key} ELSE h \ {key}
      /\ c2 = IF down /\ key = "caps" THEN ~c ELSE c
  BY <1>1, <1>2 DEF KeyMoves
<1>4. PICK g : g = FlagsAfter(b, k)
  OBVIOUS
<1>5. k["ext"] = FALSE /\ key # "e0" /\ key \in AllKeys
  BY <1>1, KeyFacts DEF Stands
<1>6. CASE key \in Extended
  <2>1. g = k
    BY <1>1, <1>4, <1>6 DEF FlagsAfter
  <2>2. key \notin {"shift", "ctrl", "alt", "caps"}
    BY <1>6 DEF Extended, Arrows
  <2>. QED
    BY <1>3, <1>4, <2>1, <2>2 DEF Stands
<1>7. CASE key \in {"shift", "ctrl", "alt"}
  <2>1. g = [k EXCEPT ![key] = down]
    BY <1>1, <1>2, <1>4, <1>5, <1>7, KeyFacts DEF Handled, FlagsAfter, Modifiers
  <2>2. g[key] = down /\ \A m \in Flags5 \ {key} : g[m] = k[m]
    BY <1>7, <2>1, KeyFacts DEF Mods
  <2>. QED
    BY <1>3, <1>4, <1>7, <2>2, KeyFacts DEF Stands
<1>8. CASE key = "caps"
  <2>1. g = [k EXCEPT !["caps"] = IF down THEN ~@ ELSE @]
    BY <1>1, <1>2, <1>4, <1>5, <1>8, KeyFacts DEF Handled, FlagsAfter, Modifiers
  <2>2. (g["caps"] <=> c2) /\ \A m \in Flags5 \ {"caps"} : g[m] = k[m]
    BY <1>3, <1>8, <2>1, KeyFacts DEF Mods, Stands
  <2>. QED
    BY <1>3, <1>4, <1>8, <2>2, KeyFacts DEF Stands
<1>9. CASE key \notin Modifiers \cup Extended
  <2>1. g = k
    BY <1>1, <1>4, <1>5, <1>9 DEF Handled, FlagsAfter, Modifiers
  <2>. QED
    BY <1>3, <1>4, <1>9, <2>1 DEF Stands, Modifiers
<1>. QED
  BY <1>6, <1>7, <1>8, <1>9 DEF Modifiers

(* ------------------------- the user, the interrupt --------------------- *)
LEMMA Joined ==
  ASSUME NEW S, NEW w \in Seq(S), NEW u \in Seq(S), NEW v \in Seq(S)
  PROVE  w \o (u \o v) = w \o u \o v
OBVIOUS

\* A key press keeps what is on the wire right.
LEMMA PressWire ==
  ASSUME WireInv, NEW key \in Keys, Press(key)
  PROVE  WireInv'
<1>1. PICK ms \in Mods : Runs(wire, mods, ms) /\ Stands(ms, held, capsOn)
  BY DEF WireInv
<1>2. key \in AllKeys /\ held \subseteq AllKeys /\ held' \subseteq Keys
  BY KbdConsts DEF WireInv, Press
<1>3. PICK b : b = [key |-> key, down |-> TRUE, means |-> Meant(key)]
  OBVIOUS
<1>4. b \in Codes /\ b.key = key /\ b.down = TRUE /\ Says(b, ms)
  BY <1>1, <1>2, <1>3, MeantIsTyped, TypedFacts, PairsAreChars DEF Codes, WireInv, Says
<1>5. wire' = wire \o Sent(b) \o <<b>>
  <2>1. wire' = wire \o (Sent(b) \o <<b>>)
    BY <1>3, <1>4 DEF Press, Bytes, Sent
  <2>2. Sent(b) \in Seq(Codes) /\ <<b>> \in Seq(Codes)
    <3>1. E0 \in Codes
      BY PairsAreChars DEF E0, Codes
    <3>. QED
      BY <1>4, <3>1 DEF Sent
  <2>. QED
    BY <2>1, <2>2, Joined DEF WireInv
<1>6. KeyMoves(held, capsOn, b, held', capsOn') /\ capsOn' \in BOOLEAN /\ mods' = mods
  BY <1>4 DEF Press, WireInv, KeyMoves
<1>7. /\ wire' \in Seq(Codes)
      /\ \E g \in Mods : Runs(wire', mods, g) /\ Stands(g, held', capsOn')
  <2>1. ms["ext"] = FALSE /\ mods \in Mods /\ wire \in Seq(Codes) /\ capsOn \in BOOLEAN
    BY <1>1 DEF Stands, WireInv
  <2>2. /\ wire' \in Seq(Codes)
        /\ FlagsAfter(b, ms) \in Mods /\ Runs(wire', mods, FlagsAfter(b, ms))
    BY <1>1, <1>2, <1>4, <1>5, <2>1, BytesRun
  <2>3. Stands(FlagsAfter(b, ms), held', capsOn')
    BY <1>1, <1>2, <1>4, <1>6, <2>1, FlagsFollow
  <2>. QED
    BY <2>2, <2>3
<1>. QED
  BY <1>2, <1>6, <1>7 DEF WireInv

\* So does a key release.
LEMMA ReleaseWire ==
  ASSUME WireInv, NEW key \in Keys, Release(key)
  PROVE  WireInv'
<1>1. PICK ms \in Mods : Runs(wire, mods, ms) /\ Stands(ms, held, capsOn)
  BY DEF WireInv
<1>2. key \in AllKeys /\ held \subseteq AllKeys /\ held' \subseteq Keys
  BY KbdConsts DEF WireInv, Release
<1>3. PICK b : b = [key |-> key, down |-> FALSE, means |-> NoChar]
  OBVIOUS
<1>4. b \in Codes /\ b.key = key /\ b.down = FALSE /\ Says(b, ms)
  BY <1>1, <1>2, <1>3, MeantIsTyped, TypedFacts, PairsAreChars DEF Codes, WireInv, Says
<1>5. wire' = wire \o Sent(b) \o <<b>>
  <2>1. wire' = wire \o (Sent(b) \o <<b>>)
    BY <1>3, <1>4 DEF Release, Bytes, Sent
  <2>2. Sent(b) \in Seq(Codes) /\ <<b>> \in Seq(Codes)
    <3>1. E0 \in Codes
      BY PairsAreChars DEF E0, Codes
    <3>. QED
      BY <1>4, <3>1 DEF Sent
  <2>. QED
    BY <2>1, <2>2, Joined DEF WireInv
<1>6. KeyMoves(held, capsOn, b, held', capsOn') /\ capsOn' \in BOOLEAN /\ mods' = mods
  BY <1>4 DEF Release, WireInv, KeyMoves
<1>7. /\ wire' \in Seq(Codes)
      /\ \E g \in Mods : Runs(wire', mods, g) /\ Stands(g, held', capsOn')
  <2>1. ms["ext"] = FALSE /\ mods \in Mods /\ wire \in Seq(Codes) /\ capsOn \in BOOLEAN
    BY <1>1 DEF Stands, WireInv
  <2>2. /\ wire' \in Seq(Codes)
        /\ FlagsAfter(b, ms) \in Mods /\ Runs(wire', mods, FlagsAfter(b, ms))
    BY <1>1, <1>2, <1>4, <1>5, <2>1, BytesRun
  <2>3. Stands(FlagsAfter(b, ms), held', capsOn')
    BY <1>1, <1>2, <1>4, <1>6, <2>1, FlagsFollow
  <2>. QED
    BY <2>2, <2>3
<1>. QED
  BY <1>2, <1>6, <1>7 DEF WireInv

\* What the handler does with a byte: the flags, and the character it stores.
LEMMA CallbackDoes ==
  ASSUME WireInv, Callback
  PROVE  /\ Head(wire) \in Codes /\ ByteOK(Head(wire), mods)
         /\ mods' = Handled(mods, Head(wire))
         /\ PutKey(Head(wire).means)
<1>1. PICK ms \in Mods : Runs(wire, mods, ms)
  BY DEF WireInv
<1>2. PICK b : b = Head(wire)
  OBVIOUS
<1>3. wire # <<>> /\ b \in Codes /\ ByteOK(b, mods) /\ mods \in Mods
  BY <1>1, <1>2, RunsTail, HeadTailProperties DEF Callback, WireInv
<1>4. CASE b.key = "e0"
  <2>1. mods' = [mods EXCEPT !["ext"] = TRUE] /\ ring' = ring
    BY <1>2, <1>4 DEF Callback, Quiet
  <2>2. b.means = NoChar
    BY <1>3, <1>4 DEF ByteOK
  <2>. QED
    BY <1>2, <1>3, <1>4, <2>1, <2>2 DEF Handled, PutKey
<1>5. CASE b.key = "ctrl"
  <2>1. mods' = [mods EXCEPT !["ctrl"] = b.down] /\ ring' = ring
    BY <1>2, <1>5 DEF Callback, Quiet
  <2>2. ~mods["ext"] /\ b.means = NoChar
    BY <1>3, <1>5, KeyFacts, TypedFacts DEF ByteOK, Codes, Modifiers, Extended, Arrows
  <2>. QED
    BY <1>2, <1>3, <1>5, <2>1, <2>2 DEF Handled, PutKey
<1>6. CASE b.key \notin {"e0", "ctrl"} /\ mods["ext"]
  <2>1. ExtendedByte(b)
    BY <1>2, <1>6 DEF Callback
  <2>2. b.key \in Extended /\ b.key \in AllKeys
    BY <1>3, <1>6 DEF ByteOK, Codes
  <2>3. mods' = Handled(mods, b)
    BY <1>6, <2>1 DEF ExtendedByte, Handled
  <2>4. PutKey(b.means)
    <3>1. CASE b.down /\ b.key \in Arrows
      <4>1. b.means = <<b.key, "plain">>
        BY <1>3, <1>6, <2>2, <3>1, TypedFacts DEF ByteOK
      <4>. QED
        BY <2>1, <3>1, <4>1 DEF ExtendedByte, PutKey, Quiet
    <3>2. CASE ~(b.down /\ b.key \in Arrows)
      <4>1. b.means = NoChar
        BY <1>3, <1>6, <2>2, <3>2, TypedFacts DEF ByteOK, Extended
      <4>. QED
        BY <2>1, <3>2, <4>1 DEF ExtendedByte, PutKey, Quiet
    <3>. QED
      BY <3>1, <3>2
  <2>. QED
    BY <1>2, <1>3, <2>3, <2>4
<1>7. CASE b.key \notin {"e0", "ctrl"} /\ ~mods["ext"]
  <2>1. PlainByte(b)
    BY <1>2, <1>7 DEF Callback
  <2>2. b.key \in AllKeys /\ b.key \notin Extended
    BY <1>3, <1>7 DEF ByteOK, Codes
  <2>3. CASE b.key \in {"shift", "alt", "caps"}
    <3>1. b.means = NoChar
      BY <1>3, <1>7, <2>2, <2>3, TypedFacts DEF ByteOK, Modifiers
    <3>2. ring' = ring /\ mods' = Handled(mods, b)
      BY <1>7, <2>1, <2>3 DEF PlainByte, Handled, Quiet
    <3>. QED
      BY <1>2, <1>3, <3>1, <3>2 DEF PutKey
  <2>4. CASE b.key \notin {"shift", "alt", "caps"}
    <3>1. mods' = Handled(mods, b)
      BY <1>7, <2>1, <2>4 DEF PlainByte, Handled
    <3>2. b.key \notin Modifiers
      BY <1>7, <2>4 DEF Modifiers
    <3>3. b.means = IF b.down THEN Meaning(b.key, mods["shift"], mods["caps"], mods["ctrl"]) ELSE NoChar
      BY <1>3, <1>7, <2>2, <3>2, KeyFacts DEF ByteOK, Typed
    <3>4. PutKey(b.means)
      BY <2>1, <2>4, <3>3 DEF PlainByte, PutKey
    <3>. QED
      BY <1>2, <1>3, <3>1, <3>4
  <2>. QED
    BY <2>3, <2>4
<1>. QED
  BY <1>4, <1>5, <1>6, <1>7

\* So does the handler when it takes a byte.
LEMMA CallbackWire ==
  ASSUME WireInv, Callback
  PROVE  WireInv'
<1>1. PICK ms \in Mods : Runs(wire, mods, ms) /\ Stands(ms, held, capsOn)
  BY DEF WireInv
<1>2. wire # <<>> /\ wire' = Tail(wire) /\ held' = held /\ capsOn' = capsOn
  BY DEF Callback
<1>3. Runs(wire', mods', ms)
  BY <1>1, <1>2, CallbackDoes, RunsTail DEF WireInv
<1>4. mods' \in Mods /\ wire' \in Seq(Codes)
  BY <1>2, CallbackDoes, HandledType, HeadTailProperties DEF WireInv
<1>. QED
  BY <1>1, <1>2, <1>3, <1>4 DEF WireInv

(* ------------------------------- the ring ------------------------------ *)
LEMMA Wraps ==
  ASSUME NEW h \in 0 .. RingSize - 1, NEW k \in 0 .. RingSize
  PROVE  /\ (h + k) % RingSize = At(h, k) /\ At(h, k) \in 0 .. RingSize - 1
         /\ k < RingSize => At(h, k + 1) = At(At(h, k), 1)
         /\ k < RingSize => At(At(h, 1), k) = At(h, k + 1)
         /\ At(h, k) = h => k = 0 \/ k = RingSize
         /\ (At(h, k) - h) % RingSize = IF k = RingSize THEN 0 ELSE k
<1>1. RingSize \in Nat \ {0}
  BY KbdConsts
<1>2. At(h, k) \in 0 .. RingSize - 1
  BY <1>1 DEF At
<1>3. \A d \in 0 .. RingSize - 1 : d % RingSize = d
  BY <1>1
<1>4. \A d \in 0 .. RingSize - 1 : (d + RingSize) % RingSize = d /\ (d - RingSize) % RingSize = d
  <2>. SUFFICES ASSUME NEW d \in 0 .. RingSize - 1
                PROVE  (d + RingSize) % RingSize = d /\ (d - RingSize) % RingSize = d
    OBVIOUS
  <2>1. d + RingSize = RingSize * 1 + d /\ d - RingSize = RingSize * (0 - 1) + d
    BY <1>1
  <2>. QED
    BY <1>1, <2>1
<1>5. (h + k) % RingSize = At(h, k)
  <2>1. CASE h + k < RingSize
    BY <1>1, <1>3, <2>1 DEF At
  <2>2. CASE h + k >= RingSize
    <3>1. h + k - RingSize \in 0 .. RingSize - 1 /\ h + k = (h + k - RingSize) + RingSize
      BY <1>1, <2>2
    <3>2. PICK d \in 0 .. RingSize - 1 : d = h + k - RingSize
      BY <3>1
    <3>. QED
      BY <1>1, <1>4, <2>2, <3>1, <3>2 DEF At
  <2>. QED
    BY <1>1, <2>1, <2>2
<1>6. (At(h, k) - h) % RingSize = IF k = RingSize THEN 0 ELSE k
  <2>1. CASE h + k < RingSize
    <3>1. At(h, k) - h = k /\ k < RingSize
      BY <1>1, <2>1 DEF At
    <3>. QED
      BY <1>1, <1>3, <3>1
  <2>2. CASE h + k >= RingSize /\ k < RingSize
    <3>1. At(h, k) - h = k - RingSize
      BY <1>1, <2>2 DEF At
    <3>. QED
      BY <1>1, <1>4, <2>2, <3>1
  <2>3. CASE k = RingSize
    <3>1. At(h, k) - h = 0
      BY <1>1, <2>3 DEF At
    <3>. QED
      BY <1>1, <1>3, <2>3, <3>1
  <2>. QED
    BY <1>1, <2>1, <2>2, <2>3
<1>. QED
  BY <1>1, <1>2, <1>5, <1>6 DEF At

\* kb_push drops a character exactly when the ring holds RingSize - 1 of them.
LEMMA FullMeans ==
  ASSUME RingInv
  PROVE  /\ Full <=> Len(want) = RingSize - 1
         /\ NextTail = At(ring.tail, 1)
<1>1. RingSize \in Nat \ {0} /\ Len(want) \in 0 .. RingSize - 1 /\ Len(want) \in 0 .. RingSize /\ 1 \in 0 .. RingSize
  BY KbdConsts DEF RingInv
<1>2. ring.tail \in 0 .. RingSize - 1 /\ ring.head \in 0 .. RingSize - 1
  BY DEF RingInv
<1>3. NextTail = At(ring.tail, 1)
  <2>1. PICK t \in 0 .. RingSize - 1 : t = ring.tail
    BY <1>2
  <2>2. (t + 1) % RingSize = At(t, 1)
    BY <1>1, Wraps
  <2>. QED
    BY <2>1, <2>2 DEF NextTail
<1>4. ring.tail = At(ring.head, Len(want))
  BY DEF RingInv
<1>5. NextTail = At(ring.head, Len(want) + 1)
  <2>1. PICK h, k : h = ring.head /\ k = Len(want)
    OBVIOUS
  <2>2. h \in 0 .. RingSize - 1 /\ k \in 0 .. RingSize /\ k < RingSize
    BY <1>1, <1>2, <2>1
  <2>3. At(h, k + 1) = At(At(h, k), 1)
    BY <2>2, Wraps
  <2>. QED
    BY <1>3, <1>4, <2>1, <2>3
<1>6. Len(want) + 1 \in 0 .. RingSize
  BY <1>1
<1>7. At(ring.head, Len(want) + 1) = ring.head <=> Len(want) + 1 = RingSize
  <2>1. PICK h, l : h = ring.head /\ l = Len(want) + 1
    OBVIOUS
  <2>2. h \in 0 .. RingSize - 1 /\ l \in 1 .. RingSize /\ RingSize \in Nat
    BY <1>1, <1>2, <2>1
  <2>3. At(h, l) = h <=> l = RingSize
    BY <2>2 DEF At
  <2>. QED
    BY <2>1, <2>3
<1>. QED
  BY <1>1, <1>3, <1>5, <1>7 DEF Full

\* kb_push adds the character at the end.
LEMMA RingPut ==
  ASSUME RingInv, NEW c \in CharSet, PutKey(c),
         want' = IF c = NoChar \/ Len(want) = RingSize - 1 THEN want ELSE Append(want, c)
  PROVE  RingInv' /\ (want # <<>> => want' # <<>> /\ want'[1] = want[1])
<1>1. CASE c = NoChar \/ Full
  <2>1. ring' = ring /\ want' = want
    BY <1>1, FullMeans DEF PutKey
  <2>. QED
    BY <2>1 DEF RingInv
<1>2. CASE c # NoChar /\ ~Full
  <2>. DEFINE n == Len(want)
              h == ring.head
              t == ring.tail
  <2>1. RingSize \in Nat \ {0} /\ n \in 0 .. RingSize - 2 /\ h \in 0 .. RingSize - 1 /\ t \in 0 .. RingSize - 1
    BY <1>2, KbdConsts, FullMeans DEF RingInv
  <2>2. ring' = [ring EXCEPT !.buf[t] = c, !.tail = At(t, 1)] /\ want' = Append(want, c)
    BY <1>2, FullMeans DEF PutKey
  <2>3. t = At(h, n) /\ At(t, 1) = At(h, n + 1) /\ At(t, 1) \in 0 .. RingSize - 1
    <3>1. t = At(h, n)
      BY DEF RingInv
    <3>2. n \in 0 .. RingSize /\ 1 \in 0 .. RingSize /\ n < RingSize
      BY <2>1
    <3>. HIDE DEF n, h, t
    <3>. QED
      BY <2>1, <3>1, <3>2, Wraps
  <2>4. ring.buf \in [0 .. RingSize - 1 -> CharSet] /\ want \in Seq(CharSet)
    BY DEF RingInv
  <2>5. PICK u : u = At(t, 1)
    OBVIOUS
  <2>6. PICK buf : buf = [ring.buf EXCEPT ![t] = c]
    OBVIOUS
  <2>7. buf \in [0 .. RingSize - 1 -> CharSet] /\ buf[t] = c
        /\ \A s \in 0 .. RingSize - 1 : s # t => buf[s] = ring.buf[s]
    BY <2>1, <2>4, <2>6
  <2>8. ring' = [buf |-> buf, head |-> h, tail |-> u]
    BY <2>2, <2>5, <2>6 DEF RingInv
  <2>9. ring'.buf = buf /\ ring'.head = h /\ ring'.tail = u
        /\ ring' \in [buf : [0 .. RingSize - 1 -> CharSet], head : 0 .. RingSize - 1, tail : 0 .. RingSize - 1]
    BY <2>1, <2>3, <2>5, <2>7, <2>8
  <2>10. /\ want' \in Seq(CharSet) /\ Len(want') = n + 1 /\ want'[n + 1] = c
         /\ \A i \in 1 .. n : want'[i] = want[i]
    BY <2>2, <2>4, AppendProperties
  <2>11. \A i \in 1 .. n : ring.buf[At(h, i - 1)] = want[i]
    BY DEF RingInv
  <2>. HIDE DEF n, h, t
  <2>12. ASSUME NEW i \in 1 .. n + 1
         PROVE  buf[At(h, i - 1)] = want'[i]
    <3>1. CASE i = n + 1
      <4>1. i - 1 = n
        BY <2>1, <3>1
      <4>. QED
        BY <2>1, <2>3, <2>7, <2>10, <3>1, <4>1
    <3>2. CASE i # n + 1
      <4>1. i \in 1 .. n /\ i - 1 \in 0 .. RingSize - 1
        BY <2>1, <3>2
      <4>2. At(h, i - 1) # t /\ At(h, i - 1) \in 0 .. RingSize - 1
        BY <2>1, <2>3, <4>1 DEF At
      <4>. QED
        BY <2>7, <2>10, <2>11, <4>1, <4>2
    <3>. QED
      BY <3>1, <3>2
  <2>13. RingInv'
    <3>1. Len(want') < RingSize /\ ring'.tail = At(ring'.head, Len(want'))
      BY <2>1, <2>3, <2>5, <2>9, <2>10
    <3>2. \A i \in 1 .. Len(want') : ring'.buf[At(ring'.head, i - 1)] = want'[i]
      BY <2>9, <2>10, <2>12
    <3>. QED
      BY <2>9, <2>10, <3>1, <3>2 DEF RingInv, At
  <2>14. want # <<>> => want' # <<>> /\ want'[1] = want[1]
    BY <2>1, <2>4, <2>10, EmptySeq DEF n
  <2>. QED
    BY <2>13, <2>14
<1>. QED
  BY <1>1, <1>2

\* keyboard_getchar takes the first one out.
LEMMA RingTake ==
  ASSUME RingInv, want # <<>>, want' = Tail(want),
         ring' = [ring EXCEPT !.head = (@ + 1) % RingSize]
  PROVE  RingInv'
<1>. DEFINE n == Len(want)
            h == ring.head
<1>1. RingSize \in Nat \ {0} /\ n \in 1 .. RingSize - 1 /\ h \in 0 .. RingSize - 1
      /\ 1 \in 0 .. RingSize /\ want \in Seq(CharSet)
  BY KbdConsts, EmptySeq DEF RingInv
<1>2. PICK g : g = At(h, 1)
  OBVIOUS
<1>3. g \in 0 .. RingSize - 1 /\ g = (h + 1) % RingSize
  BY <1>1, <1>2, Wraps
<1>4. ring' = [ring EXCEPT !.head = g]
  BY <1>3
<1>5. ring'.buf = ring.buf /\ ring'.head = g /\ ring'.tail = ring.tail
      /\ ring' \in [buf : [0 .. RingSize - 1 -> CharSet], head : 0 .. RingSize - 1, tail : 0 .. RingSize - 1]
  BY <1>3, <1>4 DEF RingInv
<1>6. want' \in Seq(CharSet) /\ Len(want') = n - 1 /\ \A i \in 1 .. n - 1 : want'[i] = want[i + 1]
  BY <1>1, HeadTailProperties
<1>7. ring.tail = At(h, n) /\ \A i \in 1 .. n : ring.buf[At(h, i - 1)] = want[i]
  BY DEF RingInv
<1>. HIDE DEF n, h
<1>8. ring.tail = At(g, n - 1)
  <2>1. PICK k \in 0 .. RingSize : k = n - 1 /\ k < RingSize /\ k + 1 = n
    BY <1>1
  <2>2. At(g, k) = At(h, n)
    BY <1>1, <1>2, <2>1, Wraps
  <2>. QED
    BY <1>7, <2>1, <2>2
<1>9. ASSUME NEW i \in 1 .. n - 1
      PROVE  ring.buf[At(g, i - 1)] = want'[i]
  <2>1. i + 1 \in 1 .. n /\ (i + 1) - 1 = i
    BY <1>1
  <2>2. At(g, i - 1) = At(h, i)
    <3>1. PICK k \in 0 .. RingSize : k = i - 1 /\ k < RingSize /\ k + 1 = i
      BY <1>1
    <3>. QED
      BY <1>1, <1>2, <3>1, Wraps
  <2>3. ring.buf[At(h, i)] = want[i + 1]
    BY <1>7, <2>1
  <2>. QED
    BY <1>6, <2>2, <2>3
<1>10. Len(want') < RingSize /\ ring'.tail = At(ring'.head, Len(want'))
  BY <1>1, <1>5, <1>6, <1>8
<1>11. \A i \in 1 .. Len(want') : ring'.buf[At(ring'.head, i - 1)] = want'[i]
  BY <1>5, <1>6, <1>9
<1>. QED
  BY <1>5, <1>6, <1>10, <1>11 DEF RingInv, At

(* ------------------------------ the readers ---------------------------- *)
LEMMA ReaderMoves ==
  ASSUME ReaderInv, NEW r \in {"wm", "elf"}, NEW from, NEW to \in Places, Step(r, from, to)
  PROVE  /\ readers = {r} /\ at[r] = from /\ at' \in [{"wm", "elf"} -> Places] /\ at'[r] = to
         /\ at[r] \in {"load", "advance"} => want # <<>>
         /\ at[r] = "advance" => char[r] = want[1]
<1>1. r \in readers /\ at[r] = from /\ at' = [at EXCEPT ![r] = to]
  BY DEF Step
<1>2. PICK q \in {"wm", "elf"} : /\ readers = {q}
                                 /\ at[q] \in {"load", "advance"} => want # <<>>
                                 /\ at[q] = "advance" => char[q] = want[1]
  BY DEF ReaderInv
<1>3. q = r
  BY <1>1, <1>2
<1>. QED
  BY <1>1, <1>2, <1>3 DEF ReaderInv

\* A step of a reader that does not take a character off the ring and is not
\* about to.
LEMMA ReaderStays ==
  ASSUME ReaderInv, NEW r \in {"wm", "elf"}, NEW from, NEW to \in Places \ {"load", "advance"},
         Step(r, from, to), readers' = readers, char' \in [{"wm", "elf"} -> CharSet]
  PROVE  ReaderInv'
<1>1. readers = {r} /\ at' \in [{"wm", "elf"} -> Places] /\ at'[r] = to
  BY ReaderMoves
<1>. QED
  BY <1>1 DEF ReaderInv

\* The three steps of keyboard_getchar, of the one reader.
LEMMA GetcharInd ==
  ASSUME KbdInv, NEW r \in readers, Test(r) \/ Load(r) \/ Advance(r)
  PROVE  RingInv' /\ ReaderInv'
<1>1. r \in {"wm", "elf"} /\ char \in [{"wm", "elf"} -> CharSet]
  BY DEF KbdInv, ReaderInv
<1>2. want \in Seq(CharSet)
  BY DEF KbdInv, RingInv
<1>3. CASE Test(r)
  <2>1. PICK to \in Places : to = (IF HasChar THEN "load" ELSE "empty") /\ Step(r, "get", to)
    BY <1>3 DEF Test, Places
  <2>2. readers' = readers /\ char' = char /\ ring' = ring /\ want' = want
    BY <1>3 DEF Test
  <2>3. readers = {r} /\ at' \in [{"wm", "elf"} -> Places] /\ at'[r] = to
    BY <1>1, <2>1, ReaderMoves DEF KbdInv
  <2>4. HasChar => want # <<>>
    <3>. SUFFICES ASSUME want = <<>> PROVE ~HasChar
      OBVIOUS
    <3>1. Len(want) = 0
      OBVIOUS
    <3>2. ring.tail = At(ring.head, 0) /\ ring.head \in 0 .. RingSize - 1
      BY <3>1 DEF KbdInv, RingInv
    <3>3. At(ring.head, 0) = ring.head
      BY <3>2, KbdConsts DEF At
    <3>. QED
      BY <3>2, <3>3 DEF HasChar
  <2>5. at'[r] # "advance" /\ (at'[r] = "load" => HasChar)
    BY <2>1, <2>3
  <2>6. RingInv'
    BY <2>2 DEF KbdInv, RingInv
  <2>. QED
    BY <1>1, <2>2, <2>3, <2>4, <2>5, <2>6 DEF ReaderInv
<1>4. CASE Load(r)
  <2>1. Step(r, "load", "advance") /\ "advance" \in Places
    BY <1>4 DEF Load, Places
  <2>2. readers' = readers /\ char' = [char EXCEPT ![r] = ring.buf[ring.head]] /\ ring' = ring /\ want' = want
    BY <1>4 DEF Load
  <2>3. /\ readers = {r} /\ at' \in [{"wm", "elf"} -> Places] /\ at'[r] = "advance" /\ want # <<>>
    BY <1>1, <2>1, ReaderMoves DEF KbdInv
  <2>4. ring.buf[ring.head] = want[1] /\ want[1] \in CharSet
    <3>1. 1 \in 1 .. Len(want)
      BY <1>2, <2>3, EmptySeq
    <3>2. ring.buf[At(ring.head, 1 - 1)] = want[1] /\ ring.head \in 0 .. RingSize - 1
      BY <3>1 DEF KbdInv, RingInv
    <3>3. At(ring.head, 1 - 1) = ring.head
      BY <3>2, KbdConsts DEF At
    <3>. QED
      BY <1>2, <3>1, <3>2, <3>3, ElementOfSeq
  <2>5. char' \in [{"wm", "elf"} -> CharSet] /\ char'[r] = want[1]
    BY <1>1, <2>2, <2>4
  <2>6. RingInv'
    BY <2>2 DEF KbdInv, RingInv
  <2>. QED
    BY <1>1, <2>2, <2>3, <2>5, <2>6 DEF ReaderInv
<1>5. CASE Advance(r)
  <2>1. Step(r, "advance", "got") /\ "got" \in Places /\ readers' = readers /\ char' = char
        /\ ring' = [ring EXCEPT !.head = (@ + 1) % RingSize]
    BY <1>5 DEF Advance, Places
  <2>2. want # <<>>
    BY <1>1, <2>1, ReaderMoves DEF KbdInv
  <2>3. want' = Tail(want)
    BY <1>5, <2>2 DEF Advance
  <2>4. RingInv'
    BY <2>1, <2>2, <2>3, RingTake DEF KbdInv
  <2>5. ReaderInv'
    BY <1>1, <2>1, ReaderStays DEF KbdInv
  <2>. QED
    BY <2>4, <2>5
<1>. QED
  BY <1>3, <1>4, <1>5

\* The program's calls: SYS_READ builds its line, the raw call takes one character.
LEMMA ProgramInd ==
  ASSUME KbdInv, (\E c \in Calls : SysRead(c)) \/ ReadReady \/ Received
  PROVE  KbdInv'
<1>1. /\ char \in [{"wm", "elf"} -> CharSet] /\ line \in Seq(CharSet) /\ Len(line) < LineLen
      /\ LineLen \in Nat \ {0}
  BY KbdConsts DEF KbdInv, ReaderInv, LineInv
<1>2. \E from, to : to \in Places \ {"load", "advance"} /\ ElfStep(from, to)
  BY DEF SysRead, ReadReady, Received, Places
<1>3. /\ held' = held /\ capsOn' = capsOn /\ wire' = wire /\ mods' = mods
      /\ ring' = ring /\ want' = want /\ readers' = readers
  BY <1>2 DEF ElfStep, Hardware
<1>4. WireInv' /\ RingInv'
  BY <1>3 DEF KbdInv, WireInv, RingInv
<1>5. char' \in [{"wm", "elf"} -> CharSet] /\ LineInv'
  <2>1. CASE (\E c \in Calls : SysRead(c)) \/ ReadReady
    BY <1>1, <2>1 DEF SysRead, ReadReady, LineInv
  <2>2. CASE Received
    <3>1. char' = [char EXCEPT !["elf"] = NoChar]
      BY <2>2 DEF Received
    <3>2. char' \in [{"wm", "elf"} -> CharSet]
      BY <1>1, <3>1, PairsAreChars
    <3>3. Collected \in Seq(CharSet)
      <4>1. Len(line) \in Nat /\ \A i \in 1 .. Len(line) - 1 : line[i] \in CharSet
        BY <1>1
      <4>2. Front(line) \in Seq(CharSet)
        BY <4>1, SubSeqProperties DEF Front
      <4>. QED
        BY <1>1, <4>2, AppendProperties DEF Collected
    <3>4. line' = <<>> \/ (line' = Collected /\ ~LineDone)
      BY <2>2 DEF Received, ReadDone
    <3>5. LineInv'
      <4>1. CASE line' = <<>>
        BY <1>1, <4>1 DEF LineInv
      <4>2. CASE line' = Collected /\ ~LineDone
        <5>1. Len(Collected) \in Nat /\ ~(Len(Collected) >= LineLen)
          BY <3>3, <4>2, LenProperties DEF LineDone
        <5>. QED
          BY <1>1, <3>3, <4>2, <5>1 DEF LineInv
      <4>. QED
        BY <3>4, <4>1, <4>2
    <3>. QED
      BY <3>2, <3>5
  <2>. QED
    BY <2>1, <2>2
<1>6. ReaderInv'
  <2>1. PICK from, to : to \in Places \ {"load", "advance"} /\ Step("elf", from, to)
    BY <1>2 DEF ElfStep
  <2>. QED
    BY <1>3, <1>5, <2>1, ReaderStays DEF KbdInv
<1>. QED
  BY <1>4, <1>5, <1>6 DEF KbdInv

LEMMA DesktopLoopInd ==
  ASSUME KbdInv, WmPass \/ WmDrains \/ WmDrained \/ WmKeys \/ WmKey
  PROVE  KbdInv'
<1>1. char \in [{"wm", "elf"} -> CharSet]
  BY DEF KbdInv, ReaderInv
<1>2. \E from, to : to \in Places \ {"load", "advance"} /\ WmStep(from, to)
  BY DEF WmPass, WmDrains, WmDrained, WmKeys, WmKey, Places
<1>3. /\ held' = held /\ capsOn' = capsOn /\ wire' = wire /\ mods' = mods
      /\ ring' = ring /\ want' = want /\ readers' = readers /\ line' = line
  BY <1>2 DEF WmStep, Hardware
<1>4. WireInv' /\ RingInv' /\ LineInv'
  BY <1>3 DEF KbdInv, WireInv, RingInv, LineInv
<1>5. char' \in [{"wm", "elf"} -> CharSet]
  BY <1>1, PairsAreChars DEF WmPass, WmDrains, WmDrained, WmKeys, WmKey
<1>6. ReaderInv'
  <2>1. PICK from, to : to \in Places \ {"load", "advance"} /\ Step("wm", from, to)
    BY <1>2 DEF WmStep
  <2>. QED
    BY <1>3, <1>5, <2>1, ReaderStays DEF KbdInv
<1>. QED
  BY <1>4, <1>6 DEF KbdInv

LEMMA KeyInd ==
  ASSUME KbdInv, NEW key \in Keys, Press(key) \/ Release(key)
  PROVE  KbdInv'
<1>1. /\ ring' = ring /\ want' = want /\ readers' = readers /\ at' = at /\ char' = char /\ line' = line
  BY DEF Press, Release, readVars
<1>2. RingInv' /\ ReaderInv' /\ LineInv'
  BY <1>1 DEF KbdInv, RingInv, ReaderInv, LineInv
<1>3. WireInv'
  BY PressWire, ReleaseWire DEF KbdInv
<1>. QED
  BY <1>2, <1>3 DEF KbdInv

LEMMA CallbackInd ==
  ASSUME KbdInv, Callback
  PROVE  KbdInv'
<1>1. PICK c \in CharSet : c = Head(wire).means
  BY CallbackDoes DEF KbdInv, Codes
<1>2. /\ readers' = readers /\ at' = at /\ char' = char /\ line' = line
      /\ want' = IF c = NoChar \/ Len(want) = RingSize - 1 THEN want ELSE Append(want, c)
  BY <1>1 DEF Callback, readVars
<1>3. PutKey(c)
  BY <1>1, CallbackDoes DEF KbdInv
<1>4. RingInv' /\ (want # <<>> => want' # <<>> /\ want'[1] = want[1])
  BY <1>2, <1>3, RingPut DEF KbdInv
<1>5. ReaderInv'
  BY <1>2, <1>4 DEF KbdInv, ReaderInv
<1>6. WireInv'
  BY CallbackWire DEF KbdInv
<1>7. LineInv'
  BY <1>2 DEF KbdInv, LineInv
<1>. QED
  BY <1>4, <1>5, <1>6, <1>7 DEF KbdInv

LEMMA KbdStarts ==
  ASSUME OneReader, KbdInit
  PROVE  KbdInv
<1>1. RingSize \in Nat \ {0} /\ LineLen \in Nat \ {0} /\ 0 \in 0 .. RingSize - 1
  BY KbdConsts
<1>2. WireInv
  <2>1. mods \in Mods /\ \A m \in Flags5 : mods[m] = FALSE
    BY DEF KbdInit, Mods, Flags5
  <2>2. Stands(mods, held, capsOn)
    BY <2>1, KeyFacts DEF KbdInit, Stands
  <2>3. wire = <<>> /\ wire \in Seq(Codes) /\ Runs(wire, mods, mods)
    BY <2>1, RunsEmpty DEF KbdInit
  <2>. QED
    BY <2>1, <2>2, <2>3 DEF WireInv, KbdInit
<1>3. RingInv
  <2>1. PICK buf : buf = [i \in 0 .. RingSize - 1 |-> NoChar]
    OBVIOUS
  <2>2. buf \in [0 .. RingSize - 1 -> CharSet]
    BY <2>1, PairsAreChars
  <2>3. ring = [buf |-> buf, head |-> 0, tail |-> 0] /\ want = <<>>
    BY <2>1 DEF KbdInit
  <2>4. Len(want) = 0 /\ want \in Seq(CharSet) /\ 1 .. Len(want) = {} /\ At(0, 0) = 0
    BY <1>1, <2>3 DEF At
  <2>. QED
    BY <1>1, <2>2, <2>3, <2>4 DEF RingInv
<1>4. ReaderInv
  <2>1. PICK r \in {"wm", "elf"} : readers = {r}
    BY DEF KbdInit, OneReader
  <2>2. at \in [{"wm", "elf"} -> Places] /\ at[r] = "out"
    BY DEF KbdInit, Places
  <2>3. char \in [{"wm", "elf"} -> CharSet]
    BY PairsAreChars DEF KbdInit
  <2>. QED
    BY <2>1, <2>2, <2>3 DEF ReaderInv
<1>5. LineInv
  BY <1>1 DEF KbdInit, LineInv
<1>. QED
  BY <1>2, <1>3, <1>4, <1>5 DEF KbdInv

LEMMA KbdStays ==
  ASSUME KbdInv, [KbdNext]_kbdVars
  PROVE  KbdInv'
<1>1. ASSUME NEW r \in readers, Test(r) \/ Load(r) \/ Advance(r)
      PROVE  KbdInv'
  <2>1. /\ held' = held /\ capsOn' = capsOn /\ wire' = wire /\ mods' = mods /\ line' = line
    BY <1>1 DEF Test, Load, Advance, Hardware
  <2>2. WireInv' /\ LineInv'
    BY <2>1 DEF KbdInv, WireInv, LineInv
  <2>. QED
    BY <1>1, <2>2, GetcharInd DEF KbdInv
<1>2. CASE UNCHANGED kbdVars
  BY <1>2 DEF kbdVars, KbdInv, WireInv, RingInv, ReaderInv, LineInv
<1>. QED
  BY <1>1, <1>2, KeyInd, CallbackInd, ProgramInd, DesktopLoopInd DEF KbdNext

LEMMA KeysAreTrue ==
  ASSUME KbdInv
  PROVE  KeysTrue
<1>. DEFINE n == Len(want)
<1>1. /\ RingSize \in Nat \ {0} /\ want \in Seq(CharSet) /\ n \in 0 .. RingSize - 1
      /\ n \in 0 .. RingSize /\ n # RingSize
      /\ ring.head \in 0 .. RingSize - 1 /\ ring.tail \in 0 .. RingSize - 1
  BY KbdConsts DEF KbdInv, RingInv
<1>2. KbdTypeOK
  BY <1>1 DEF KbdTypeOK, KbdInv, LineInv, WireInv
<1>3. Buffered = want
  <2>1. ring.tail = At(ring.head, n) /\ \A i \in 1 .. n : ring.buf[At(ring.head, i - 1)] = want[i]
    BY DEF KbdInv, RingInv
  <2>2. Held = n
    <3>1. PICK h, k : h = ring.head /\ k = n
      OBVIOUS
    <3>2. h \in 0 .. RingSize - 1 /\ k \in 0 .. RingSize /\ k # RingSize
      BY <1>1, <3>1
    <3>3. (At(h, k) - h) % RingSize = k
      BY <3>2, Wraps
    <3>. QED
      BY <2>1, <3>1, <3>3 DEF Held
  <2>3. PICK m \in Nat : m = n
    BY <1>1
  <2>4. ASSUME NEW i \in 1 .. m
        PROVE  ring.buf[(ring.head + i - 1) % RingSize] = want[i]
    <3>1. i - 1 \in 0 .. RingSize /\ ring.head + i - 1 = ring.head + (i - 1)
      BY <1>1, <2>3
    <3>2. (ring.head + (i - 1)) % RingSize = At(ring.head, i - 1)
      BY <1>1, <3>1, Wraps
    <3>. QED
      BY <2>1, <2>3, <2>4, <3>1, <3>2
  <2>5. Buffered = [i \in 1 .. m |-> want[i]]
    BY <2>2, <2>3, <2>4 DEF Buffered
  <2>6. want = [i \in 1 .. m |-> want[i]]
    BY <1>1, <2>3
  <2>. QED
    BY <2>5, <2>6
<1>4. \A r \in readers : at[r] = "advance" => want # <<>> /\ char[r] = Head(want)
  BY <1>1, HeadTailProperties DEF KbdInv, ReaderInv
<1>5. ModifiersTrue
  <2>. SUFFICES ASSUME wire = <<>>
                PROVE  /\ \A m \in {"shift", "ctrl", "alt"} : mods[m] <=> m \in held
                       /\ mods["caps"] = capsOn /\ ~mods["ext"]
    BY DEF ModifiersTrue
  <2>1. PICK ms \in Mods : Runs(wire, mods, ms) /\ Stands(ms, held, capsOn)
    BY DEF KbdInv, WireInv
  <2>2. mods = ms
    BY <2>1, RunsDone
  <2>3. \A m \in {"shift", "ctrl", "alt", "caps"} : mods[m] \in BOOLEAN
    BY KeyFacts DEF KbdInv, WireInv, Mods
  <2>4. mods["caps"] \in BOOLEAN /\ capsOn \in BOOLEAN /\ (mods["caps"] <=> capsOn) /\ ~mods["ext"]
    BY <2>1, <2>2, <2>3 DEF Stands, KbdInv, WireInv
  <2>5. \A m \in {"shift", "ctrl", "alt"} : mods[m] <=> m \in held
    BY <2>1, <2>2 DEF Stands
  <2>. QED
    BY <2>4, <2>5
<1>. QED
  BY <1>2, <1>3, <1>4, <1>5 DEF KeysTrue, RingTrue

-----------------------------------------------------------------------------
(***************************************************************************)
(* The mouse.                                                              *)
(***************************************************************************)
Packets   == [dx : -256 .. 255, dy : -256 .. 255, btn : 0 .. 7, over : BOOLEAN]
MouseByte == [val : Nat, place : 1 .. 3, of : Packets]
Field(p, place) == IF place = 1 THEN Flags(p) ELSE IF place = 2 THEN Low(p.dx) ELSE Low(p.dy)

\* The bytes in the controller are what their packets say, and end with a whole one.
Follows(a, b) == IF a.place = 3 THEN b.place = 1 ELSE b.place = a.place + 1 /\ b.of = a.of
StreamOK ==
  /\ sent \in Seq(MouseByte)
  /\ \A i \in 1 .. Len(sent) : sent[i].val = Field(sent[i].of, sent[i].place)
  /\ \A i \in 1 .. Len(sent) - 1 : Follows(sent[i], sent[i + 1])
  /\ sent # <<>> => sent[Len(sent)].place = 3

\* What mouse_poll has of the packet whose next byte comes first.
PhaseOK ==
  /\ phase \in 0 .. 2 /\ pkt \in [1 .. 3 -> Nat]
  /\ mouse \in [x : 0 .. Width - 1, y : 0 .. Height - 1, btn : 0 .. 7]
Half ==
  IF sent = <<>> THEN phase = 0
  ELSE /\ sent[1].place = phase + 1
       /\ phase >= 1 => pkt[1] = Flags(sent[1].of)
       /\ phase = 2 => pkt[2] = Low(sent[1].of.dx)
MouseInv == StreamOK /\ PhaseOK /\ (aligned => mouse = truth /\ Half)

-----------------------------------------------------------------------------
LEMMA MouseConsts ==
  /\ Width \in Nat \ {0} /\ Height \in Nat \ {0}
  /\ Deltas \subseteq -256 .. 255 /\ Buttons \subseteq 0 .. 7
BY MouseAssumption

\* The low byte of a movement.
LEMMA LowIs ==
  ASSUME NEW d \in -256 .. 255
  PROVE  Low(d) \in 0 .. 255 /\ Low(d) = IF d < 0 THEN d + 256 ELSE d
<1>1. CASE d < 0
  <2>1. d = 256 * (0 - 1) + (d + 256) /\ d + 256 \in 0 .. 255
    BY <1>1
  <2>. QED
    BY <1>1, <2>1 DEF Low
<1>2. CASE d >= 0
  BY <1>2 DEF Low
<1>. QED
  BY <1>1, <1>2

\* The flags of a packet, read as mouse_poll reads them.
LEMMA FlagsAre ==
  ASSUME NEW p \in Packets
  PROVE  /\ Flags(p) \in 0 .. 255 /\ Flags(p) % 8 = p.btn
         /\ Bit(Flags(p), 8) /\ ~Bit(Flags(p), 128)
         /\ Bit(Flags(p), 16) <=> p.dx < 0
         /\ Bit(Flags(p), 32) <=> p.dy < 0
         /\ Bit(Flags(p), 64) <=> p.over
<1>1. PICK r \in 0 .. 7 : r = p.btn
  BY DEF Packets
<1>2. PICK x \in 0 .. 1 : x = Sign(p.dx) /\ (x = 1 <=> p.dx < 0)
  BY DEF Sign, Packets
<1>3. PICK y \in 0 .. 1 : y = Sign(p.dy) /\ (y = 1 <=> p.dy < 0)
  BY DEF Sign, Packets
<1>4. PICK o \in 0 .. 1 : 64 * o = (IF p.over THEN 64 ELSE 0) /\ (o = 1 <=> p.over)
  BY DEF Packets
<1>5. Flags(p) = r + 8 + 16 * x + 32 * y + 64 * o
  BY <1>1, <1>2, <1>3, <1>4 DEF Flags
<1>6. PICK f \in Nat : f = r + 8 + 16 * x + 32 * y + 64 * o
  OBVIOUS
<1>7. f \in 0 .. 255 /\ f % 8 = r
  BY <1>6
<1>8. f \div 8 = 1 + 2 * x + 4 * y + 8 * o
  BY <1>6
<1>9. f \div 16 = x + 2 * y + 4 * o /\ f \div 32 = y + 2 * o /\ f \div 64 = o /\ f \div 128 = 0
  BY <1>6
<1>10. Bit(f, 8) /\ ~Bit(f, 128) /\ (Bit(f, 16) <=> x = 1) /\ (Bit(f, 32) <=> y = 1) /\ (Bit(f, 64) <=> o = 1)
  <2>1. ASSUME NEW q \in Int, NEW v \in 0 .. 1 PROVE (v + 2 * q) % 2 = v
    OBVIOUS
  <2>2. /\ f \div 8 = 1 + 2 * (x + 2 * y + 4 * o) /\ f \div 16 = x + 2 * (y + 2 * o)
        /\ f \div 32 = y + 2 * o /\ f \div 64 = o + 2 * 0 /\ f \div 128 = 0 + 2 * 0
    BY <1>8, <1>9
  <2>3. /\ (f \div 8) % 2 = 1 /\ (f \div 16) % 2 = x /\ (f \div 32) % 2 = y
        /\ (f \div 64) % 2 = o /\ (f \div 128) % 2 = 0
    <3>1. x + 2 * y + 4 * o \in Int /\ y + 2 * o \in Int /\ o \in Int
      OBVIOUS
    <3>. QED
      BY <2>1, <2>2, <3>1
  <2>. QED
    BY <2>3 DEF Bit
<1>11. Flags(p) = f
  BY <1>5, <1>6
<1>12. (Bit(f, 16) <=> p.dx < 0) /\ (Bit(f, 32) <=> p.dy < 0) /\ (Bit(f, 64) <=> p.over)
  BY <1>2, <1>3, <1>4, <1>10
<1>13. f \in 0 .. 255 /\ f % 8 = p.btn /\ Bit(f, 8) /\ ~Bit(f, 128)
  BY <1>1, <1>7, <1>10
<1>. QED
  BY <1>11, <1>12, <1>13, Zenon

LEMMA MoveType ==
  ASSUME NEW m \in [x : 0 .. Width - 1, y : 0 .. Height - 1, btn : 0 .. 7],
         NEW dx \in Int, NEW dy \in Int, NEW btn \in 0 .. 7
  PROVE  Move(m, dx, dy, btn) \in [x : 0 .. Width - 1, y : 0 .. Height - 1, btn : 0 .. 7]
BY MouseConsts DEF Move, Clamp

\* One byte taken by mouse_poll's loop.
State == [phase |-> phase, pkt |-> pkt, mouse |-> mouse]

LEMMA DecodedType ==
  ASSUME NEW m \in [x : 0 .. Width - 1, y : 0 .. Height - 1, btn : 0 .. 7], NEW v \in [1 .. 3 -> Nat]
  PROVE  Decoded(m, v) \in [x : 0 .. Width - 1, y : 0 .. Height - 1, btn : 0 .. 7]
<1>1. v[1] \in Nat /\ v[2] \in Nat /\ v[3] \in Nat
  OBVIOUS
<1>2. PICK dx \in Int : dx = v[2] - (IF Bit(v[1], 16) THEN 256 ELSE 0)
  BY <1>1
<1>3. PICK dy \in Int : dy = v[3] - (IF Bit(v[1], 32) THEN 256 ELSE 0)
  BY <1>1
<1>4. PICK btn \in 0 .. 7 : btn = v[1] % 8
  BY <1>1
<1>5. Decoded(m, v) \in {m, Move(m, dx, dy, btn)}
  BY <1>2, <1>3, <1>4 DEF Decoded
<1>. QED
  BY <1>5, MoveType

\* What one byte does to the static state of mouse_poll.
LEMMA TakenIs ==
  ASSUME PhaseOK, NEW b \in Nat
  PROVE  LET q == TakeByte(State, b)
             v == [pkt EXCEPT ![phase + 1] = b]
         IN /\ q.phase = IF phase = 0 /\ ~Bit(b, 8) THEN 0 ELSE IF phase = 2 THEN 0 ELSE phase + 1
            /\ q.pkt = IF phase = 0 /\ ~Bit(b, 8) THEN pkt ELSE v
            /\ q.mouse = IF phase = 2 THEN Decoded(mouse, v) ELSE mouse
<1>1. PICK q : q = TakeByte(State, b)
  OBVIOUS
<1>2. PICK v : v = [pkt EXCEPT ![phase + 1] = b]
  OBVIOUS
<1>3. State.phase = phase /\ State.pkt = pkt /\ State.mouse = mouse /\ phase \in 0 .. 2
  BY DEF State, PhaseOK
<1>4. Collect(State, b).phase = phase + 1 /\ Collect(State, b).pkt = v /\ Collect(State, b).mouse = mouse
      /\ Collect(State, b) \in [phase : Int, pkt : {v}, mouse : {mouse}]
  <2>1. PICK w \in Int : w = phase + 1
    BY <1>3
  <2>2. Collect(State, b) = [[phase |-> phase, pkt |-> pkt, mouse |-> mouse] EXCEPT !.pkt = v, !.phase = w]
    <3>1. [State.pkt EXCEPT ![State.phase + 1] = b] = v /\ State.phase + 1 = w
      BY <1>2, <1>3, <2>1
    <3>. QED
      BY <3>1, Zenon DEF Collect, State
  <2>. QED
    BY <2>1, <2>2
<1>5. CASE phase = 0 /\ ~Bit(b, 8)
  BY <1>1, <1>3, <1>5 DEF TakeByte
<1>6. CASE ~(phase = 0 /\ ~Bit(b, 8)) /\ phase = 2
  <2>1. PICK c : c = Collect(State, b)
    OBVIOUS
  <2>2. PICK d : d = Decoded(mouse, v)
    OBVIOUS
  <2>3. c \in [phase : Int, pkt : {v}, mouse : {mouse}] /\ c.phase = 3 /\ c.pkt = v
    BY <1>3, <1>4, <1>6, <2>1
  <2>4. q = [c EXCEPT !.phase = 0, !.mouse = d]
    BY <1>1, <1>3, <1>6, <2>1, <2>2, <2>3 DEF TakeByte
  <2>5. q.phase = 0 /\ q.pkt = v /\ q.mouse = d
    BY <2>3, <2>4
  <2>. QED
    BY <1>1, <1>2, <1>6, <2>2, <2>5
<1>7. CASE ~(phase = 0 /\ ~Bit(b, 8)) /\ phase # 2
  <2>1. q = Collect(State, b)
    BY <1>1, <1>3, <1>4, <1>7 DEF TakeByte
  <2>. QED
    BY <1>1, <1>2, <1>4, <1>7, <2>1
<1>. QED
  BY <1>5, <1>6, <1>7

\* A byte taken: the last one of a packet moves the pointer where the packet says.
LEMMA ByteInd ==
  ASSUME MouseInv, PollByte
  PROVE  MouseInv'
<1>1. PICK b \in MouseByte : b = Head(sent)
  BY HeadTailProperties DEF PollByte, MouseInv, StreamOK
<1>2. /\ sent # <<>> /\ sent' = Tail(sent) /\ aligned' = aligned /\ truth' = WholeMove(truth, b)
      /\ phase' = TakeByte(State, b.val).phase /\ pkt' = TakeByte(State, b.val).pkt
      /\ mouse' = TakeByte(State, b.val).mouse
  BY <1>1 DEF PollByte, State
<1>3. PICK n \in Nat \ {0} : n = Len(sent)
  BY <1>2, EmptySeq DEF MouseInv, StreamOK
<1>4. /\ sent' \in Seq(MouseByte) /\ Len(sent') = n - 1 /\ \A i \in 1 .. n - 1 : sent'[i] = sent[i + 1]
      /\ b = sent[1] /\ (sent' = <<>> <=> n = 1)
  <2>1. sent' \in Seq(MouseByte) /\ Len(sent') = n - 1 /\ b = sent[1]
        /\ \A i \in 1 .. n - 1 : sent'[i] = sent[i + 1]
    BY <1>1, <1>2, <1>3, HeadTailProperties DEF MouseInv, StreamOK
  <2>2. sent' = <<>> <=> n - 1 = 0
    BY <2>1, EmptySeq
  <2>. QED
    BY <1>3, <2>1, <2>2
<1>5. /\ \A i \in 1 .. n : sent[i] \in MouseByte
      /\ \A i \in 1 .. n : sent[i].val = Field(sent[i].of, sent[i].place)
      /\ \A i \in 1 .. n - 1 : Follows(sent[i], sent[i + 1])
      /\ sent[n].place = 3
  BY <1>2, <1>3, ElementOfSeq DEF MouseInv, StreamOK
<1>6. StreamOK'
  <2>1. \A i \in 1 .. n - 1 : sent'[i].val = Field(sent'[i].of, sent'[i].place)
    <3>. SUFFICES ASSUME NEW i \in 1 .. n - 1
                  PROVE  sent'[i].val = Field(sent'[i].of, sent'[i].place)
      OBVIOUS
    <3>1. i + 1 \in 1 .. n
      OBVIOUS
    <3>. QED
      BY <1>4, <1>5, <3>1
  <2>2. \A i \in 1 .. n - 2 : Follows(sent'[i], sent'[i + 1])
    <3>. SUFFICES ASSUME NEW i \in 1 .. n - 2
                  PROVE  Follows(sent'[i], sent'[i + 1])
      OBVIOUS
    <3>1. i + 1 \in 1 .. n - 1 /\ i \in 1 .. n - 1
      OBVIOUS
    <3>2. Follows(sent[i + 1], sent[i + 1 + 1])
      BY <1>5, <3>1
    <3>3. sent'[i] = sent[i + 1] /\ sent'[i + 1] = sent[i + 1 + 1]
      BY <1>4, <3>1
    <3>. QED
      BY <3>2, <3>3
  <2>3. n # 1 => sent'[n - 1].place = 3
    <3>. SUFFICES ASSUME n # 1 PROVE sent'[n - 1].place = 3
      OBVIOUS
    <3>1. n - 1 \in 1 .. n - 1 /\ n - 1 + 1 = n
      OBVIOUS
    <3>. QED
      BY <1>4, <1>5, <3>1
  <2>4. (n - 1) - 1 = n - 2
    OBVIOUS
  <2>. QED
    BY <1>4, <2>1, <2>2, <2>3, <2>4 DEF StreamOK
<1>7. PICK v : v = [pkt EXCEPT ![phase + 1] = b.val]
  OBVIOUS
<1>8. /\ phase' = IF phase = 0 /\ ~Bit(b.val, 8) THEN 0 ELSE IF phase = 2 THEN 0 ELSE phase + 1
      /\ pkt' = IF phase = 0 /\ ~Bit(b.val, 8) THEN pkt ELSE v
      /\ mouse' = IF phase = 2 THEN Decoded(mouse, v) ELSE mouse
  <2>1. b.val \in Nat
    BY DEF MouseByte
  <2>. QED
    BY <1>2, <1>7, <2>1, TakenIs DEF MouseInv
<1>9. v \in [1 .. 3 -> Nat] /\ v[phase + 1] = b.val /\ \A i \in 1 .. 3 : i # phase + 1 => v[i] = pkt[i]
  BY <1>7 DEF MouseInv, PhaseOK, MouseByte
<1>10. PhaseOK'
  <2>1. phase' \in 0 .. 2 /\ pkt' \in [1 .. 3 -> Nat]
    BY <1>8, <1>9 DEF MouseInv, PhaseOK
  <2>2. mouse' \in [x : 0 .. Width - 1, y : 0 .. Height - 1, btn : 0 .. 7]
    BY <1>8, <1>9, DecodedType DEF MouseInv, PhaseOK
  <2>. QED
    BY <2>1, <2>2 DEF PhaseOK
<1>11. ASSUME aligned PROVE mouse' = truth' /\ Half'
  <2>1. /\ mouse = truth /\ phase \in 0 .. 2 /\ b.place = phase + 1
        /\ phase >= 1 => pkt[1] = Flags(b.of)
        /\ phase = 2 => pkt[2] = Low(b.of.dx)
    BY <1>2, <1>4, <1>11 DEF MouseInv, PhaseOK, Half
  <2>2. b.val = Field(b.of, b.place) /\ b.of \in Packets
    <3>1. 1 \in 1 .. n
      OBVIOUS
    <3>. QED
      BY <1>4, <1>5, <3>1 DEF MouseByte
  <2>3. CASE phase # 2
    <3>1. b.place \in {1, 2} /\ b.place # 3 /\ b.place < 3
      BY <2>1, <2>3
    <3>2. truth' = truth
      BY <1>2, <3>1 DEF WholeMove
    <3>3. phase = 0 => b.val = Flags(b.of) /\ Bit(b.val, 8)
      BY <2>1, <2>2, FlagsAre DEF Field
    <3>4. phase' = phase + 1 /\ pkt' = v /\ mouse' = mouse
      BY <1>8, <2>1, <2>3, <3>3
    <3>5. n # 1
      BY <1>4, <1>5, <3>1
    <3>6. Follows(b, sent[1 + 1]) /\ sent'[1] = sent[1 + 1]
      <4>1. 1 \in 1 .. n - 1
        BY <3>5
      <4>. QED
        BY <1>4, <1>5, <4>1
    <3>7. sent'[1].place = phase + 2 /\ sent'[1].of = b.of
      BY <2>1, <3>1, <3>6 DEF Follows
    <3>8. v[1] = Flags(b.of) /\ (phase = 1 => v[2] = Low(b.of.dx))
      BY <1>9, <2>1, <2>2, <2>3, <3>3 DEF Field
    <3>9. sent' # <<>> /\ phase' + 1 = phase + 2
      BY <1>4, <2>1, <3>4, <3>5
    <3>. QED
      BY <2>1, <3>2, <3>4, <3>7, <3>8, <3>9 DEF Half
  <2>4. CASE phase = 2
    <3>1. PICK p \in Packets : p = b.of
      BY <2>2
    <3>2. b.place = 3 /\ b.val = Low(p.dy) /\ phase' = 0
      BY <1>8, <2>1, <2>2, <2>4, <3>1 DEF Field
    <3>3. v[1] = Flags(p) /\ v[2] = Low(p.dx) /\ v[3] = Low(p.dy)
      BY <1>9, <2>1, <2>4, <3>1, <3>2
    <3>4. p.dx \in -256 .. 255 /\ p.dy \in -256 .. 255
      BY DEF Packets
    <3>5. /\ v[2] - (IF Bit(v[1], 16) THEN 256 ELSE 0) = p.dx
          /\ v[3] - (IF Bit(v[1], 32) THEN 256 ELSE 0) = p.dy
          /\ (Bit(v[1], 64) \/ Bit(v[1], 128)) <=> p.over
          /\ v[1] % 8 = p.btn
      <4>1. Low(p.dx) = (IF p.dx < 0 THEN p.dx + 256 ELSE p.dx) /\ Low(p.dy) = (IF p.dy < 0 THEN p.dy + 256 ELSE p.dy)
        BY <3>4, LowIs
      <4>. QED
        BY <3>3, <3>4, <4>1, FlagsAre
    <3>6. Decoded(mouse, v) = IF p.over THEN mouse ELSE Move(mouse, p.dx, p.dy, p.btn)
      BY <3>5 DEF Decoded
    <3>7. truth' = IF p.over THEN truth ELSE Move(truth, p.dx, p.dy, p.btn)
      BY <1>2, <3>1, <3>2 DEF WholeMove
    <3>8. mouse' = truth'
      BY <1>8, <2>1, <2>4, <3>6, <3>7
    <3>9. sent' # <<>> => sent'[1].place = 1
      <4>. SUFFICES ASSUME n # 1 PROVE sent'[1].place = 1
        BY <1>4
      <4>1. 1 \in 1 .. n - 1
        OBVIOUS
      <4>2. Follows(b, sent[1 + 1]) /\ sent'[1] = sent[1 + 1]
        BY <1>4, <1>5, <4>1
      <4>. QED
        BY <3>2, <4>2 DEF Follows
    <3>. QED
      BY <3>2, <3>8, <3>9 DEF Half
  <2>. QED
    BY <2>3, <2>4
<1>. QED
  BY <1>2, <1>6, <1>10, <1>11 DEF MouseInv

\* A packet sent goes behind the bytes that wait.
LEMMA MovesInd ==
  ASSUME MouseInv, NEW dx \in Deltas, NEW dy \in Deltas, NEW btn \in Buttons, NEW over \in BOOLEAN,
         Moves(dx, dy, btn, over)
  PROVE  MouseInv'
<1>1. PICK p : p = [dx |-> dx, dy |-> dy, btn |-> btn, over |-> over]
  OBVIOUS
<1>2. p \in Packets
  BY <1>1, MouseConsts DEF Packets
<1>3. PICK b1, b2, b3 : /\ b1 = [val |-> Flags(p), place |-> 1, of |-> p]
                        /\ b2 = [val |-> Low(p.dx), place |-> 2, of |-> p]
                        /\ b3 = [val |-> Low(p.dy), place |-> 3, of |-> p]
  OBVIOUS
<1>4. b1 \in MouseByte /\ b2 \in MouseByte /\ b3 \in MouseByte
  <2>1. Flags(p) \in Nat /\ Low(p.dx) \in Nat /\ Low(p.dy) \in Nat
    <3>1. p.dx \in -256 .. 255 /\ p.dy \in -256 .. 255
      BY <1>2 DEF Packets
    <3>2. Low(p.dx) \in 0 .. 255 /\ Low(p.dy) \in 0 .. 255
      BY <3>1, LowIs, Zenon
    <3>3. Flags(p) \in 0 .. 255
      BY <1>2, FlagsAre, Zenon
    <3>. QED
      BY <3>2, <3>3
  <2>. QED
    BY <1>2, <1>3, <2>1 DEF MouseByte
<1>5. /\ \A b \in {b1, b2, b3} : b.val = Field(b.of, b.place)
      /\ b1.place = 1 /\ Follows(b1, b2) /\ Follows(b2, b3) /\ b3.place = 3
  <2>1. /\ b1.place = 1 /\ b1.of = p /\ b1.val = Flags(p)
        /\ b2.place = 2 /\ b2.of = p /\ b2.val = Low(p.dx)
        /\ b3.place = 3 /\ b3.of = p /\ b3.val = Low(p.dy)
    BY <1>3
  <2>. QED
    BY <2>1 DEF Field, Follows
<1>6. PICK n \in Nat : n = Len(sent)
  BY DEF MouseInv, StreamOK
<1>7. PICK new : new = <<b1, b2, b3>>
  OBVIOUS
<1>8. /\ new \in Seq(MouseByte) /\ Len(new) = 3 /\ new[1] = b1 /\ new[2] = b2 /\ new[3] = b3
      /\ sent' = sent \o new
  <2>1. new \in Seq(MouseByte) /\ Len(new) = 3 /\ new[1] = b1 /\ new[2] = b2 /\ new[3] = b3
    BY <1>4, <1>7
  <2>2. sent' = sent \o new
    BY <1>1, <1>3, <1>7 DEF Moves, PacketBytes
  <2>. QED
    BY <2>1, <2>2
<1>9. /\ sent' \in Seq(MouseByte) /\ Len(sent') = n + 3 /\ \A i \in 1 .. n : sent'[i] = sent[i]
      /\ sent'[n + 1] = b1 /\ sent'[n + 2] = b2 /\ sent'[n + 3] = b3
  <2>1. sent \in Seq(MouseByte)
    BY DEF MouseInv, StreamOK
  <2>2. /\ sent' \in Seq(MouseByte) /\ Len(sent') = n + 3
        /\ \A i \in 1 .. n + 3 : sent'[i] = IF i <= n THEN sent[i] ELSE new[i - n]
    <3>1. /\ sent \o new \in Seq(MouseByte) /\ Len(sent \o new) = Len(sent) + Len(new)
          /\ \A i \in 1 .. Len(sent) + Len(new) :
                (sent \o new)[i] = IF i <= Len(sent) THEN sent[i] ELSE new[i - Len(sent)]
      BY <1>8, <2>1, ConcatProperties, Zenon
    <3>2. Len(sent) = n /\ Len(new) = 3 /\ sent' = sent \o new
      BY <1>6, <1>8
    <3>. QED
      BY <3>1, <3>2, Zenon
  <2>3. ASSUME NEW i \in 1 .. 3
        PROVE  sent'[n + i] = new[i]
    <3>1. n + i \in 1 .. n + 3 /\ ~(n + i <= n) /\ (n + i) - n = i
      OBVIOUS
    <3>. QED
      BY <2>2, <3>1, Zenon
  <2>4. sent'[n + 1] = new[1] /\ sent'[n + 2] = new[2] /\ sent'[n + 3] = new[3]
    <3>1. 1 \in 1 .. 3 /\ 2 \in 1 .. 3 /\ 3 \in 1 .. 3
      OBVIOUS
    <3>. QED
      BY <2>3, <3>1, Zenon
  <2>5. sent'[n + 1] = b1 /\ sent'[n + 2] = b2 /\ sent'[n + 3] = b3
    BY <1>8, <2>4, Zenon
  <2>6. ASSUME NEW i \in 1 .. n
        PROVE  sent'[i] = sent[i]
    <3>1. i \in 1 .. n + 3 /\ i <= n
      OBVIOUS
    <3>. QED
      BY <2>2, <3>1, Zenon
  <2>. QED
    BY <2>2, <2>5, <2>6, Zenon
<1>10. StreamOK'
  <2>1. /\ \A i \in 1 .. n : sent[i].val = Field(sent[i].of, sent[i].place)
        /\ \A i \in 1 .. n - 1 : Follows(sent[i], sent[i + 1])
        /\ n # 0 => sent[n].place = 3
    BY <1>6, EmptySeq DEF MouseInv, StreamOK
  <2>2. ASSUME NEW i \in 1 .. n + 3
        PROVE  sent'[i].val = Field(sent'[i].of, sent'[i].place)
    <3>1. i \in 1 .. n \/ i = n + 1 \/ i = n + 2 \/ i = n + 3
      OBVIOUS
    <3>. QED
      BY <1>5, <1>9, <2>1, <3>1
  <2>3. ASSUME NEW i \in 1 .. n + 2
        PROVE  Follows(sent'[i], sent'[i + 1])
    <3>1. CASE i \in 1 .. n - 1
      BY <1>9, <2>1, <3>1
    <3>2. CASE i = n
      <4>1. sent'[i].place = 3 /\ sent'[i + 1].place = 1
        BY <1>5, <1>9, <2>1, <3>2
      <4>. QED
        BY <4>1 DEF Follows
    <3>3. CASE i = n + 1
      <4>1. i + 1 = n + 2
        BY <3>3
      <4>. QED
        BY <1>5, <1>9, <3>3, <4>1
    <3>4. CASE i = n + 2
      <4>1. i + 1 = n + 3
        BY <3>4
      <4>. QED
        BY <1>5, <1>9, <3>4, <4>1
    <3>. QED
      BY <3>1, <3>2, <3>3, <3>4
  <2>4. (n + 3) - 1 = n + 2
    OBVIOUS
  <2>. QED
    BY <1>5, <1>9, <2>2, <2>3, <2>4 DEF StreamOK
<1>11. /\ phase' = phase /\ pkt' = pkt /\ mouse' = mouse /\ truth' = truth /\ aligned' = aligned
  BY DEF Moves
<1>12. PhaseOK'
  BY <1>11 DEF MouseInv, PhaseOK
<1>13. Half => Half'
  <2>. SUFFICES ASSUME Half PROVE Half'
    OBVIOUS
  <2>1. sent' # <<>>
    BY <1>9, EmptySeq
  <2>2. CASE n = 0
    <3>1. phase = 0 /\ sent'[1].place = 1
      <4>1. sent = <<>> /\ n + 1 = 1
        <5>1. sent \in Seq(MouseByte) /\ Len(sent) = 0
          BY <1>6, <2>2 DEF MouseInv, StreamOK
        <5>2. sent = <<>>
          BY <5>1, EmptySeq
        <5>. QED
          BY <2>2, <5>2
      <4>2. sent'[1].place = 1
        <5>1. sent'[n + 1] = b1
          BY <1>9
        <5>2. sent'[1] = b1
          BY <4>1, <5>1, Zenon
        <5>. QED
          BY <1>5, <5>2, Zenon
      <4>3. phase = 0
        BY <4>1 DEF Half
      <4>. QED
        BY <4>2, <4>3
    <3>. QED
      BY <1>11, <2>1, <3>1 DEF Half
  <2>3. CASE n # 0
    <3>1. sent'[1] = sent[1] /\ sent # <<>>
      BY <1>6, <1>9, <2>3, EmptySeq
    <3>. QED
      BY <1>11, <2>1, <3>1 DEF Half
  <2>. QED
    BY <2>2, <2>3
<1>. QED
  BY <1>10, <1>11, <1>12, <1>13 DEF MouseInv

\* The driver going on and off, and the end of a poll.
LEMMA OnOffInd ==
  ASSUME MouseInv, PollEnd \/ StartMouse \/ Disable \/ UNCHANGED mouseVars
  PROVE  MouseInv'
<1>1. CASE PollEnd \/ UNCHANGED mouseVars
  BY <1>1 DEF PollEnd, mouseVars, MouseInv, StreamOK, PhaseOK, Half
<1>2. CASE StartMouse
  <2>1. /\ mouse' = Centre /\ truth' = Centre /\ sent' = sent /\ phase' = phase /\ pkt' = pkt
        /\ aligned' = aligned
    BY <1>2 DEF StartMouse
  <2>2. Centre \in [x : 0 .. Width - 1, y : 0 .. Height - 1, btn : 0 .. 7]
    <3>1. Width \div 2 \in 0 .. Width - 1 /\ Height \div 2 \in 0 .. Height - 1
      BY MouseConsts
    <3>. QED
      BY <3>1 DEF Centre
  <2>. QED
    BY <2>1, <2>2 DEF MouseInv, StreamOK, PhaseOK, Half
<1>3. CASE Disable
  <2>1. /\ phase' = phase /\ pkt' = pkt /\ mouse' = mouse /\ truth' = truth
        /\ aligned' => aligned /\ phase = 0 /\ (sent' = <<>> \/ sent'[1].place = 1)
    BY <1>3 DEF Disable
  <2>2. PICK n \in Nat : n = Len(sent)
    BY DEF MouseInv, StreamOK
  <2>3. PICK k \in 0 .. n : sent' = SubSeq(sent, k + 1, n)
    BY <1>3, <2>2 DEF Disable
  <2>4. /\ sent' \in Seq(MouseByte) /\ Len(sent') = n - k
        /\ \A i \in 1 .. n - k : sent'[i] = sent[i + k]
    <3>1. sent \in Seq(MouseByte) /\ k + 1 \in 1 .. n + 1 /\ n \in k .. n /\ n = Len(sent)
      BY <2>2 DEF MouseInv, StreamOK
    <3>2. sent' \in Seq(MouseByte)
      BY <2>3, <3>1
    <3>3. Len(sent') = n - k /\ \A i \in 1 .. n - k : sent'[i] = sent[i + k]
      BY <2>3, <3>1
    <3>. QED
      BY <3>2, <3>3
  <2>5. /\ \A i \in 1 .. n : sent[i].val = Field(sent[i].of, sent[i].place)
        /\ \A i \in 1 .. n - 1 : Follows(sent[i], sent[i + 1])
        /\ n # 0 => sent[n].place = 3
    BY <2>2, EmptySeq DEF MouseInv, StreamOK
  <2>6. StreamOK'
    <3>1. ASSUME NEW i \in 1 .. n - k
          PROVE  sent'[i].val = Field(sent'[i].of, sent'[i].place)
      <4>1. i + k \in 1 .. n
        OBVIOUS
      <4>. QED
        BY <2>4, <2>5, <4>1
    <3>2. ASSUME NEW i \in 1 .. (n - k) - 1
          PROVE  Follows(sent'[i], sent'[i + 1])
      <4>1. i + k \in 1 .. n - 1 /\ i \in 1 .. n - k /\ i + 1 \in 1 .. n - k /\ (i + 1) + k = (i + k) + 1
        OBVIOUS
      <4>. QED
        BY <2>4, <2>5, <4>1
    <3>3. ASSUME n - k # 0
          PROVE  sent'[n - k].place = 3
      <4>1. n - k \in 1 .. n - k /\ (n - k) + k = n /\ n # 0
        BY <3>3
      <4>. QED
        BY <2>4, <2>5, <4>1
    <3>4. sent' # <<>> => n - k # 0
      BY <2>4, EmptySeq
    <3>. QED
      BY <2>4, <3>1, <3>2, <3>3, <3>4 DEF StreamOK
  <2>7. PhaseOK'
    BY <2>1 DEF MouseInv, PhaseOK
  <2>8. aligned' => mouse' = truth' /\ Half'
    <3>. SUFFICES ASSUME aligned' PROVE mouse' = truth' /\ Half'
      OBVIOUS
    <3>1. mouse' = truth' /\ phase' = 0 /\ (sent' = <<>> \/ sent'[1].place = 1)
      BY <2>1 DEF MouseInv
    <3>. QED
      BY <3>1 DEF Half
  <2>. QED
    BY <2>6, <2>7, <2>8 DEF MouseInv
<1>. QED
  BY <1>1, <1>2, <1>3

LEMMA MouseStarts ==
  ASSUME MouseInit
  PROVE  MouseInv
<1>1. Width \div 2 \in 0 .. Width - 1 /\ Height \div 2 \in 0 .. Height - 1
  BY MouseConsts
<1>2. Centre \in [x : 0 .. Width - 1, y : 0 .. Height - 1, btn : 0 .. 7]
  BY <1>1 DEF Centre
<1>3. sent = <<>> /\ Len(sent) = 0 /\ sent \in Seq(MouseByte)
  BY DEF MouseInit
<1>4. <<0, 0, 0>> \in [1 .. 3 -> Nat]
  OBVIOUS
<1>. QED
  BY <1>2, <1>3, <1>4 DEF MouseInit, MouseInv, StreamOK, PhaseOK, Half

LEMMA MouseStays ==
  ASSUME MouseInv, [MouseNext]_mouseVars
  PROVE  MouseInv'
BY ByteInd, MovesInd, OnOffInd DEF MouseNext

LEMMA PointerIsTrue ==
  ASSUME MouseInv
  PROVE  PointerTrue
<1>1. MouseTypeOK
  BY DEF MouseTypeOK, MouseInv, PhaseOK
<1>2. aligned => mouse = truth /\ (sent # <<>> => sent[1].place = phase + 1)
  BY DEF MouseInv, Half
<1>. QED
  BY <1>1, <1>2 DEF PointerTrue

-----------------------------------------------------------------------------
\* With a ring, a line and a screen of any size, and any keys and movements, one
\* reader gets the characters that were pressed, in their order and once each,
\* the modifiers follow the keys, and the pointer is where the packets received
\* whole moved it (keyboard.c: keyboard_handler, keyboard_getchar; mouse.c).
THEOREM InputIsTrue ==
  ASSUME OneReader
  PROVE  InputSpec => []InputTrue
<1>1. KbdInit => KbdInv
  BY KbdStarts
<1>2. KbdInv /\ [KbdNext]_kbdVars => KbdInv'
  BY KbdStays
<1>3. MouseInit => MouseInv
  BY MouseStarts
<1>4. MouseInv /\ [MouseNext]_mouseVars => MouseInv'
  BY MouseStays
<1>5. KbdInv /\ MouseInv => InputTrue
  BY KeysAreTrue, PointerIsTrue DEF InputTrue
<1>. QED
  BY <1>1, <1>2, <1>3, <1>4, <1>5, PTL DEF InputSpec, KbdSpec, MouseSpec

-----------------------------------------------------------------------------
(***************************************************************************)
(* Induction over sets, and folds as runs.                                 *)
(***************************************************************************)

LEMMA NatLeast ==
  ASSUME NEW S \in SUBSET Nat, S # {}
  PROVE  \E m \in S : \A n \in S : m <= n
<1>. DEFINE LT == {ss \in Nat \X Nat : ss[1] < ss[2]}
<1>1. IsWellFoundedOn(LT, Nat)
  BY NatLessThanWellFounded DEF OpToRel
<1>2. \E m \in S : \A n \in S : ~(<<n, m>> \in LT)
  <2>. HIDE DEF LT
  <2>. QED
    BY <1>1, WFMin
<1>3. \A m, n \in Nat : <<n, m>> \notin LT => m <= n
  OBVIOUS
<1>. HIDE DEF LT
<1>. QED
  BY <1>2, <1>3

LEMMA LeastIs ==
  ASSUME NEW S \in SUBSET Nat, S # {}
  PROVE  Min(S) \in S /\ \A n \in S : Min(S) <= n
<1>1. \E m \in S : \A n \in S : m <= n
  BY NatLeast
<1>. QED
  BY <1>1 DEF Min

\* Induction, over a set: a set of naturals that has 0 and with each number its
\* successor has them all.
LEMMA SetInduction ==
  ASSUME NEW S \in SUBSET Nat, 0 \in S, \A n \in S : n + 1 \in S
  PROVE S = Nat
<1>1. SUFFICES ASSUME Nat \ S # {} PROVE FALSE
  OBVIOUS
<1>2. PICK m \in Nat \ S : \A k \in Nat \ S : m <= k
  BY <1>1, NatLeast
<1>3. m # 0
  BY <1>2
<1>4. m - 1 \in Nat /\ m = (m - 1) + 1 /\ ~(m <= m - 1)
  BY <1>3
<1>5. m - 1 \in S
  BY <1>2, <1>4
<1> QED BY <1>2, <1>4, <1>5

LEMMA LargestIs ==
  ASSUME NEW s, NEW m \in s, s \subseteq Int, \A i \in s : i <= m
  PROVE  Max(s) = m
<1>1. \E x \in s : \A y \in s : x >= y
  <2>1. \A y \in s : m >= y
    OBVIOUS
  <2>. QED
    BY <2>1
<1>2. Max(s) \in s /\ \A y \in s : Max(s) >= y
  BY <1>1, Zenon DEF Max
<1>3. Max(s) >= m /\ m >= Max(s) /\ m \in Int /\ Max(s) \in Int
  BY <1>2
<1>. QED
  BY <1>3

LEMMA FirstOf ==
  ASSUME NEW n \in Nat, NEW i \in 1..n
  PROVE  /\ 1..i \in SUBSET (1..n) /\ 1..i # {} /\ i \in 0..n /\ i - 1 \in 0..n
         /\ i \in 1..i /\ 1..i \subseteq Int /\ \A j \in 1..i : j <= i
         /\ (1..i) \ {i} = 1..i - 1
<1>1. 1..i \in SUBSET (1..n) /\ i \in 0..n /\ i - 1 \in 0..n /\ 1..i \subseteq Int
  OBVIOUS
<1>2. i \in 1..i
  OBVIOUS
<1>3. \A j \in 1..i : j <= i
  OBVIOUS
<1>4. (1..i) \ {i} = 1..i - 1
  OBVIOUS
<1>. QED
  BY <1>1, <1>2, <1>3, <1>4

\* FoldLeft(WmPutchar, w, text) applies WmPutchar to one element after the other.
WmPutcharRec(w, text, n, iter) ==
  iter = [s \in SUBSET (1..n) |->
            IF s = {} THEN w ELSE WmPutchar(iter[s \ {Max(s)}], text[Max(s)])]

LEMMA WmPutcharIter ==
  ASSUME NEW w, NEW text, NEW n \in Nat
  PROVE  \E iter : WmPutcharRec(w, text, n, iter)
<1>. DEFINE Rec(iter, k) == WmPutcharRec(w, text, k, iter)
            Made == {k \in Nat : \E iter : Rec(iter, k)}
<1>1. 0 \in Made
  <2>1. SUBSET (1..0) = {{}}
    OBVIOUS
  <2>2. Rec([s \in SUBSET (1..0) |-> w], 0)
    BY <2>1 DEF WmPutcharRec
  <2>. QED
    BY <2>2
<1>2. ASSUME NEW k \in Made  PROVE k + 1 \in Made
  <2>1. PICK it : Rec(it, k)
    OBVIOUS
  <2>. DEFINE nx == [s \in SUBSET (1..k + 1) |->
                IF k + 1 \in s THEN WmPutchar(it[s \ {k + 1}], text[k + 1]) ELSE it[s]]
  <2>2. ASSUME NEW s \in SUBSET (1..k + 1)
        PROVE  nx[s] = IF s = {} THEN w ELSE WmPutchar(nx[s \ {Max(s)}], text[Max(s)])
    <3>1. CASE k + 1 \in s
      <4>1. Max(s) = k + 1
        <5>1. k + 1 \in s /\ s \subseteq Int /\ \A i \in s : i <= k + 1
          BY <3>1
        <5>. QED
          BY <5>1, LargestIs, Zenon
      <4>2. s \ {k + 1} \in SUBSET (1..k + 1) /\ k + 1 \notin s \ {k + 1}
        OBVIOUS
      <4>3. nx[s \ {k + 1}] = it[s \ {k + 1}]
        BY <4>2, Zenon
      <4>4. nx[s] = WmPutchar(it[s \ {k + 1}], text[k + 1])
        BY <3>1, Zenon
      <4>. QED
        BY <3>1, <4>1, <4>3, <4>4, Zenon
    <3>2. CASE k + 1 \notin s
      <4>1. s \in SUBSET (1..k) /\ k \in Nat
        BY <3>2
      <4>2. nx[s] = it[s]
        BY <3>2, Zenon
      <4>3. it[s] = IF s = {} THEN w ELSE WmPutchar(it[s \ {Max(s)}], text[Max(s)])
        BY <2>1, <4>1, Zenon DEF WmPutcharRec
      <4>4. s \ {Max(s)} \in SUBSET (1..k + 1) /\ k + 1 \notin s \ {Max(s)}
        BY <3>2
      <4>5. nx[s \ {Max(s)}] = it[s \ {Max(s)}]
        BY <4>4, Zenon
      <4>. QED
        BY <4>2, <4>3, <4>5, Zenon
    <3>. QED
      BY <3>1, <3>2
  <2>3. DOMAIN nx = SUBSET (1..k + 1) /\ nx = [s \in SUBSET (1..k + 1) |-> nx[s]]
    OBVIOUS
  <2>4. Rec(nx, k + 1)
    <3>. HIDE DEF nx
    <3>. QED
      BY <2>2, <2>3, Zenon DEF WmPutcharRec
  <2>5. k + 1 \in Nat
    OBVIOUS
  <2>. QED
    BY <2>4, <2>5, Zenon
<1>3. Made = Nat
  <2>. HIDE DEF Made
  <2>1. Made \in SUBSET Nat
    BY DEF Made
  <2>. QED
    BY <1>1, <1>2, <2>1, SetInduction, Zenon
<1>. QED
  BY <1>3, Zenon

\* The values the fold goes through.
WmPutcharRun(g, w, text, n) == g[0] = w /\ \A i \in 1..n : g[i] = WmPutchar(g[i - 1], text[i])

LEMMA WmPutcharFold ==
  ASSUME NEW w, NEW text, NEW n \in Nat, DOMAIN text = 1..n
  PROVE  \E g : WmPutcharRun(g, w, text, n) /\ FoldLeft(WmPutchar, w, text) = g[n]
<1>. DEFINE it == CHOOSE it : WmPutcharRec(w, text, n, it)
            g == [i \in 0..n |-> it[1..i]]
<1>1. FoldLeft(WmPutchar, w, text) = it[1..n]
  BY DEF FoldLeft, MapThenFoldSet, WmPutcharRec
<1>2. WmPutcharRec(w, text, n, it)
  BY WmPutcharIter, Zenon
<1>. HIDE DEF it
<1>3. g[0] = w /\ g[n] = it[1..n]
  <2>1. 1..0 = {} /\ 0 \in 0..n /\ n \in 0..n
    OBVIOUS
  <2>. QED
    BY <2>1, <1>2 DEF WmPutcharRec
<1>4. ASSUME NEW i \in 1..n  PROVE g[i] = WmPutchar(g[i - 1], text[i])
  <2>1. /\ 1..i \in SUBSET (1..n) /\ 1..i # {} /\ i \in 0..n /\ i - 1 \in 0..n
        /\ i \in 1..i /\ 1..i \subseteq Int /\ \A j \in 1..i : j <= i
        /\ (1..i) \ {i} = 1..i - 1
    BY FirstOf, Zenon
  <2>2. Max(1..i) = i
    BY LargestIs, <2>1, Zenon
  <2>3. (1..i) \ {i} = 1..i - 1
    BY <2>1
  <2>4. g[i] = it[1..i] /\ g[i - 1] = it[1..i - 1]
    BY <2>1
  <2>5. it[1..i] = WmPutchar(it[1..i - 1], text[i])
    BY <1>2, <2>1, <2>2, <2>3, Zenon DEF WmPutcharRec
  <2>. QED
    BY <2>4, <2>5, Zenon
<1>. HIDE DEF g
<1>5. WmPutcharRun(g, w, text, n)
  BY <1>3, <1>4 DEF WmPutcharRun
<1>. QED
  BY <1>1, <1>3, <1>5, Zenon

-----------------------------------------------------------------------------
(***************************************************************************)
(* The shell window: one character.                                        *)
(***************************************************************************)

GuiChars == GuiLetters \cup {Blank, NewLine, Back, End, "!"}
              \cup UNION {ToSet(text) : text \in GuiOutputs \cup {GuiPrompt}}
WinBuf == [0..BufRows - 1 -> [0..BufCols - 1 -> GuiChars]]
Bot(row) == IF row - VisRows + 1 < 0 THEN 0 ELSE row - VisRows + 1

\* Nothing is in the buffer behind the cursor.
BlankFrom(buf, row, col) ==
  \A r \in 0..BufRows - 1, c \in 0..BufCols - 1 :
    r > row \/ (r = row /\ c >= col) => buf[r][c] = Blank

Wins(last_row) == [buf : WinBuf, row : 0..last_row, col : 0..Far, top : Nat]

OkWin(w) ==
  w \in Wins(BufRows - 1) /\ w.top <= Bot(w.row) /\ BlankFrom(w.buf, w.row, w.col)

\* A window whose cursor may be below the last row.
TallWin(w) ==
  /\ w \in Wins(BufRows) /\ w.top <= Bot(w.row) /\ BlankFrom(w.buf, w.row, w.col)
  /\ w.row = BufRows => w.top <= Bot(BufRows - 1)

LEMMA GuiConsts ==
  /\ BufRows \in Nat \ {0} /\ BufCols \in Nat \ {0} /\ VisRows \in Nat \ {0} /\ ViewStep \in Nat
  /\ GuiHistMax \in Nat \ {0} /\ GuiLineMax \in Nat /\ Far = BufCols + 1 /\ Far \in Nat
  BY GuiAssumption DEF Far

LEMMA GuiCharsHave ==
  Blank \in GuiChars /\ NewLine \in GuiChars /\ Back \in GuiChars /\ End \in GuiChars
  BY DEF GuiChars

LEMMA BotGrows ==
  ASSUME NEW r \in Nat, NEW s \in Nat, r <= s
  PROVE  Bot(r) <= Bot(s) /\ Bot(r) \in Nat
  BY GuiConsts DEF Bot

LEMMA SetCharAtIs ==
  ASSUME NEW buf \in WinBuf, NEW r \in 0..BufRows - 1, NEW i \in Int, NEW x \in GuiChars
  PROVE  /\ SetCharAt(buf, r, i, x) \in WinBuf
         /\ \A q \in 0..BufRows - 1, c \in 0..BufCols - 1 :
              SetCharAt(buf, r, i, x)[q][c] = IF q = r /\ c = i THEN x ELSE buf[q][c]
<1>1. buf \in [0..BufRows - 1 -> [0..BufCols - 1 -> GuiChars]]
  BY DEF WinBuf
<1>2. PICK cells : cells = [buf[r] EXCEPT ![i] = x]
  OBVIOUS
<1>3. /\ cells \in [0..BufCols - 1 -> GuiChars]
      /\ \A c \in 0..BufCols - 1 : cells[c] = IF c = i THEN x ELSE buf[r][c]
  BY <1>1, <1>2
<1>4. SetCharAt(buf, r, i, x) = [buf EXCEPT ![r] = cells]
  BY <1>1, <1>2 DEF SetCharAt
<1>. QED
  BY <1>1, <1>3, <1>4 DEF WinBuf

LEMMA CursorSeenOK ==
  ASSUME NEW w, OkWin(w)
  PROVE  /\ OkWin(CursorSeen(w)) /\ CursorSeen(w).row = w.row /\ CursorSeen(w).col = w.col
         /\ CursorSeen(w).buf = w.buf
<1>1. w \in Wins(BufRows - 1) /\ w.row \in Nat /\ w.top \in Nat
  BY GuiConsts DEF OkWin, Wins
<1>2. CASE w.row >= w.top + VisRows
  <2>1. PICK t : t = w.row - VisRows + 1
    OBVIOUS
  <2>2. t \in Nat /\ t = Bot(w.row)
    BY <1>1, <1>2, <2>1, GuiConsts DEF Bot
  <2>3. CursorSeen(w) = [w EXCEPT !.top = t]
    BY <1>2, <2>1 DEF CursorSeen
  <2>4. PICK x : x = CursorSeen(w)
    OBVIOUS
  <2>5. /\ x \in Wins(BufRows - 1) /\ x.top = t /\ x.row = w.row /\ x.col = w.col /\ x.buf = w.buf
    BY <1>1, <2>2, <2>3, <2>4 DEF Wins
  <2>6. t <= t
    BY <2>2
  <2>7. OkWin(x)
    BY <2>2, <2>5, <2>6 DEF OkWin
  <2>. QED
    BY <2>4, <2>5, <2>7
<1>3. CASE ~(w.row >= w.top + VisRows)
  BY <1>3 DEF CursorSeen
<1>. QED
  BY <1>2, <1>3

LEMMA BlankLines ==
  /\ BlankLine \in [0..BufCols - 1 -> GuiChars] /\ BlankBuf \in WinBuf
  /\ \A c \in 0..BufCols - 1 : BlankLine[c] = Blank
  /\ \A r \in 0..BufRows - 1, c \in 0..BufCols - 1 : BlankBuf[r][c] = Blank
<1>1. BlankLine \in [0..BufCols - 1 -> GuiChars] /\ \A c \in 0..BufCols - 1 : BlankLine[c] = Blank
  BY GuiCharsHave DEF BlankLine
<1>2. BlankBuf = [r \in 0..BufRows - 1 |-> BlankLine]
  BY DEF BlankBuf
<1>. QED
  BY <1>1, <1>2 DEF WinBuf

LEMMA ScrolledUpOK ==
  ASSUME NEW w, TallWin(w)
  PROVE  /\ OkWin(ScrolledUp(w)) /\ ScrolledUp(w).col = w.col
         /\ w.row < BufRows => ScrolledUp(w) = w
<1>1. w \in Wins(BufRows) /\ w.row \in 0..BufRows /\ w.buf \in WinBuf
  BY DEF TallWin, Wins
<1>2. CASE w.row < BufRows
  <2>1. w.row \in 0..BufRows - 1
    BY <1>1, <1>2, GuiConsts
  <2>2. w \in Wins(BufRows - 1)
    BY <1>1, <2>1 DEF Wins
  <2>3. ScrolledUp(w) = w
    BY <1>2 DEF ScrolledUp
  <2>. QED
    BY <2>2, <2>3 DEF OkWin, TallWin
<1>3. CASE ~(w.row < BufRows)
  <2>1. w.row = BufRows /\ BufRows - 1 \in 0..BufRows - 1
    BY <1>1, <1>3, GuiConsts
  <2>2. PICK b : b = [r \in 0..BufRows - 1 |-> IF r < BufRows - 1 THEN w.buf[r + 1] ELSE BlankLine]
    OBVIOUS
  <2>3. PICK n : n = BufRows - 1
    OBVIOUS
  <2>4. ScrolledUp(w) = [w EXCEPT !.buf = b, !.row = n]
    BY <1>3, <2>2, <2>3 DEF ScrolledUp
  <2>5. b \in WinBuf
    <3>1. \A r \in 0..BufRows - 1 : r < BufRows - 1 => r + 1 \in 0..BufRows - 1
      BY GuiConsts
    <3>2. \A r \in 0..BufRows - 1 : b[r] \in [0..BufCols - 1 -> GuiChars]
      BY <1>1, <2>2, <3>1, BlankLines DEF WinBuf
    <3>. QED
      BY <2>2, <3>2 DEF WinBuf
  <2>6. PICK x : x = ScrolledUp(w)
    OBVIOUS
  <2>7. x \in Wins(n) /\ x.buf = b /\ x.row = n /\ x.top = w.top /\ x.col = w.col
    BY <1>1, <2>1, <2>3, <2>4, <2>5, <2>6 DEF Wins
  <2>8. BlankFrom(b, n, w.col)
    <3>1. n \in 0..BufRows - 1 /\ ~(n < BufRows - 1) /\ \A r \in 0..BufRows - 1 : ~(r > n)
      BY <2>1, <2>3
    <3>2. b[n] = BlankLine
      BY <2>2, <3>1
    <3>. QED
      BY <3>1, <3>2, BlankLines DEF BlankFrom
  <2>9. w.top <= Bot(n)
    BY <2>1, <2>3 DEF TallWin
  <2>10. OkWin(x)
    BY <2>3, <2>7, <2>8, <2>9 DEF OkWin
  <2>. QED
    BY <1>3, <2>6, <2>7, <2>10
<1>. QED
  BY <1>2, <1>3

\* The cell a character goes to, and what a window is with a character in it.
LEMMA PutCellOK ==
  ASSUME NEW w, OkWin(w), NEW x \in GuiChars
  PROVE  /\ TallWin(PutCell(w, x))
         /\ w.col < BufCols => /\ PutCell(w, x).row = w.row /\ PutCell(w, x).col = w.col + 1
                               /\ PutCell(w, x).buf = SetCharAt(w.buf, w.row, w.col, x)
<1>1. /\ w \in Wins(BufRows - 1) /\ w.row \in 0..BufRows - 1 /\ w.buf \in WinBuf /\ w.col \in 0..Far
      /\ w.top \in Nat /\ w.top <= Bot(w.row) /\ w \in Wins(BufRows)
  BY GuiConsts DEF OkWin, Wins
<1>2. PICK r, i : r = Row(w) /\ i = Col(w)
  OBVIOUS
<1>3. /\ r \in 0..BufRows /\ i \in 0..BufCols - 1 /\ r >= w.row /\ r \in Nat /\ w.row \in Nat
      /\ w.col < BufCols => r = w.row /\ i = w.col
      /\ r = w.row => i >= w.col
      /\ i + 1 \in 0..Far /\ Far \in 0..Far
  BY <1>1, <1>2, GuiConsts DEF Row, Col, Wrapped
<1>4. Bot(w.row) <= Bot(r) /\ Bot(r) \in Nat /\ Bot(w.row) \in Nat
  BY <1>3, BotGrows
<1>5. w.top <= Bot(r)
  BY <1>1, <1>4
<1>6. r = BufRows => w.top <= Bot(BufRows - 1)
  <2>. SUFFICES ASSUME r = BufRows  PROVE w.top <= Bot(BufRows - 1)
    OBVIOUS
  <2>1. w.row <= BufRows - 1 /\ BufRows - 1 \in Nat /\ w.row \in Nat
    BY <1>1, GuiConsts
  <2>2. Bot(w.row) <= Bot(BufRows - 1) /\ Bot(BufRows - 1) \in Nat
    BY <2>1, BotGrows
  <2>. QED
    BY <1>1, <1>4, <2>2
<1>7. CASE r < BufRows
  <2>1. PICK b : b = SetCharAt(w.buf, r, i, x)
    OBVIOUS
  <2>2. r \in 0..BufRows - 1
    BY <1>3, <1>7, GuiConsts
  <2>3. /\ b \in WinBuf
        /\ \A q \in 0..BufRows - 1, c \in 0..BufCols - 1 :
             b[q][c] = IF q = r /\ c = i THEN x ELSE w.buf[q][c]
    BY <1>1, <1>3, <2>1, <2>2, SetCharAtIs
  <2>4. PICK j : j = i + 1
    OBVIOUS
  <2>5. PutCell(w, x) = [w EXCEPT !.buf = b, !.row = r, !.col = j]
    BY <1>2, <1>7, <2>1, <2>4 DEF PutCell
  <2>6. PICK y : y = PutCell(w, x)
    OBVIOUS
  <2>7. y \in Wins(BufRows) /\ y.buf = b /\ y.row = r /\ y.top = w.top /\ y.col = j
    BY <1>1, <1>3, <2>3, <2>4, <2>5, <2>6 DEF Wins
  <2>8. BlankFrom(b, r, j)
    <3> SUFFICES ASSUME NEW q \in 0..BufRows - 1, NEW c \in 0..BufCols - 1,
                        q > r \/ (q = r /\ c >= j)
                 PROVE  b[q][c] = Blank
      BY DEF BlankFrom
    <3>1. ~(q = r /\ c = i) /\ (q > w.row \/ (q = w.row /\ c >= w.col))
      BY <1>1, <1>3, <2>4
    <3>2. w.buf[q][c] = Blank
      BY <3>1 DEF OkWin, BlankFrom
    <3>. QED
      BY <2>3, <3>1, <3>2
  <2>9. TallWin(y)
    BY <1>5, <1>6, <2>7, <2>8 DEF TallWin
  <2>. QED
    BY <1>3, <2>1, <2>4, <2>6, <2>7, <2>9
<1>8. CASE ~(r < BufRows)
  <2>1. r = BufRows /\ ~(w.col < BufCols)
    BY <1>1, <1>3, <1>8, GuiConsts
  <2>2. PutCell(w, x) = [w EXCEPT !.row = r, !.col = Far]
    BY <1>2, <1>8 DEF PutCell
  <2>3. PICK y : y = PutCell(w, x)
    OBVIOUS
  <2>4. y \in Wins(BufRows) /\ y.buf = w.buf /\ y.row = r /\ y.top = w.top /\ y.col = Far
    BY <1>1, <1>3, <2>2, <2>3 DEF Wins
  <2>5. BlankFrom(w.buf, r, Far)
    <3>1. \A q \in 0..BufRows - 1 : ~(q > r) /\ ~(q = r)
      BY <2>1, GuiConsts
    <3>. QED
      BY <3>1 DEF BlankFrom
  <2>6. TallWin(y)
    BY <1>5, <1>6, <2>4, <2>5 DEF TallWin
  <2>. QED
    BY <2>1, <2>3, <2>6
<1>. QED
  BY <1>7, <1>8

LEMMA FeedOK ==
  ASSUME NEW w, OkWin(w)  PROVE TallWin([w EXCEPT !.row = @ + 1, !.col = 0])
<1>1. /\ w \in Wins(BufRows) /\ w.row \in 0..BufRows - 1 /\ w.col \in 0..Far
      /\ w.top \in Nat /\ w.top <= Bot(w.row)
  BY GuiConsts DEF OkWin, Wins
<1>2. PICK r : r = w.row + 1
  OBVIOUS
<1>3. r \in 0..BufRows /\ r \in Nat /\ w.row \in Nat /\ w.row <= r /\ 0 \in 0..Far
  BY <1>1, <1>2, GuiConsts
<1>4. PICK y : y = [w EXCEPT !.row = r, !.col = 0]
  OBVIOUS
<1>5. y \in Wins(BufRows) /\ y.buf = w.buf /\ y.row = r /\ y.top = w.top /\ y.col = 0
  BY <1>1, <1>3, <1>4 DEF Wins
<1>6. w.top <= Bot(r)
  BY <1>1, <1>3, BotGrows
<1>7. r = BufRows => w.top <= Bot(BufRows - 1)
  <2>1. r = BufRows => w.row = BufRows - 1
    BY <1>1, <1>2
  <2>. QED
    BY <1>1, <2>1
<1>8. BlankFrom(w.buf, r, 0)
  <2>1. \A q \in 0..BufRows - 1 : q >= r => q > w.row
    BY <1>1, <1>2
  <2>. QED
    BY <1>1, <1>3, <2>1 DEF OkWin, BlankFrom
<1>9. TallWin(y)
  BY <1>5, <1>6, <1>7, <1>8 DEF TallWin
<1>. QED
  BY <1>2, <1>4, <1>9

LEMMA BackOK ==
  ASSUME NEW w, OkWin(w), w.col > 0
  PROVE  /\ OkWin(WmPutchar(w, Back)) /\ WmPutchar(w, Back).row = w.row
         /\ WmPutchar(w, Back).col = w.col - 1
         /\ WmPutchar(w, Back).buf = SetCharAt(w.buf, w.row, w.col - 1, Blank)
<1>1. /\ w \in Wins(BufRows - 1) /\ w.row \in 0..BufRows - 1 /\ w.buf \in WinBuf /\ w.col \in 0..Far
  BY DEF OkWin, Wins
<1>2. PICK i : i = w.col - 1
  OBVIOUS
<1>3. i \in 0..Far /\ i \in Int /\ Blank \in GuiChars
  BY <1>1, <1>2, GuiConsts, GuiCharsHave
<1>4. PICK b : b = SetCharAt(w.buf, w.row, i, Blank)
  OBVIOUS
<1>5. /\ b \in WinBuf
      /\ \A q \in 0..BufRows - 1, c \in 0..BufCols - 1 :
           b[q][c] = IF q = w.row /\ c = i THEN Blank ELSE w.buf[q][c]
  <2>1. PICK a, r : a = w.buf /\ r = w.row
    OBVIOUS
  <2>2. a \in WinBuf /\ r \in 0..BufRows - 1 /\ b = SetCharAt(a, r, i, Blank)
    BY <1>1, <1>4, <2>1
  <2>3. /\ b \in WinBuf
        /\ \A q \in 0..BufRows - 1, c \in 0..BufCols - 1 :
             b[q][c] = IF q = r /\ c = i THEN Blank ELSE a[q][c]
    BY <1>3, <2>2, SetCharAtIs
  <2>. QED
    BY <2>1, <2>3
<1>6. WmPutchar(w, Back) = [w EXCEPT !.buf = b, !.col = i]
  BY <1>1, <1>2, <1>4 DEF WmPutchar
<1>7. PICK y : y = WmPutchar(w, Back)
  OBVIOUS
<1>8. y \in Wins(BufRows - 1) /\ y.buf = b /\ y.row = w.row /\ y.top = w.top /\ y.col = i
  BY <1>1, <1>3, <1>5, <1>6, <1>7 DEF Wins
<1>9. BlankFrom(b, w.row, i)
  <2> SUFFICES ASSUME NEW q \in 0..BufRows - 1, NEW c \in 0..BufCols - 1,
                      q > w.row \/ (q = w.row /\ c >= i)
               PROVE  b[q][c] = Blank
    BY DEF BlankFrom
  <2>1. CASE q = w.row /\ c = i
    BY <1>5, <2>1
  <2>2. CASE ~(q = w.row /\ c = i)
    <3>1. q > w.row \/ (q = w.row /\ c >= w.col)
      BY <1>1, <1>2, <2>2
    <3>2. w.buf[q][c] = Blank
      BY <3>1 DEF OkWin, BlankFrom
    <3>. QED
      BY <1>5, <2>2, <3>2
  <2>. QED
    BY <2>1, <2>2
<1>10. OkWin(y)
  BY <1>8, <1>9 DEF OkWin
<1>. QED
  BY <1>2, <1>4, <1>7, <1>8, <1>10

LEMMA PutcharOK ==
  ASSUME NEW w, OkWin(w), NEW x \in GuiChars
  PROVE  OkWin(WmPutchar(w, x))
<1>1. CASE x = Back
  <2>1. w.col \in Nat
    BY GuiConsts DEF OkWin, Wins
  <2>2. CASE w.col = 0
    BY <1>1, <2>2 DEF WmPutchar
  <2>3. CASE w.col # 0
    BY <1>1, <2>1, <2>3, BackOK
  <2>. QED
    BY <2>2, <2>3
<1>2. CASE x = NewLine
  <2>1. PICK y : y = [w EXCEPT !.row = @ + 1, !.col = 0]
    OBVIOUS
  <2>2. TallWin(y) /\ WmPutchar(w, x) = CursorSeen(ScrolledUp(y))
    BY <1>2, <2>1, FeedOK DEF WmPutchar, NewLine, Back
  <2>. QED
    BY <2>2, ScrolledUpOK, CursorSeenOK
<1>3. CASE x \notin {Back, NewLine}
  <2>1. WmPutchar(w, x) = CursorSeen(ScrolledUp(PutCell(w, x)))
    BY <1>3 DEF WmPutchar
  <2>. QED
    BY <2>1, PutCellOK, ScrolledUpOK, CursorSeenOK
<1>. QED
  BY <1>1, <1>2, <1>3

\* A printable character that fits the row.
LEMMA PrintOK ==
  ASSUME NEW w, OkWin(w), NEW x \in GuiChars \ {Back, NewLine}, w.col < BufCols
  PROVE  /\ WmPutchar(w, x).row = w.row /\ WmPutchar(w, x).col = w.col + 1
         /\ WmPutchar(w, x).buf = SetCharAt(w.buf, w.row, w.col, x)
<1>1. PICK y : y = PutCell(w, x)
  OBVIOUS
<1>2. /\ TallWin(y) /\ y.row = w.row /\ y.col = w.col + 1
      /\ y.buf = SetCharAt(w.buf, w.row, w.col, x)
  BY <1>1, PutCellOK
<1>3. w.row < BufRows
  BY GuiConsts DEF OkWin, Wins
<1>4. ScrolledUp(y) = y /\ OkWin(y)
  BY <1>2, <1>3, ScrolledUpOK
<1>5. WmPutchar(w, x) = CursorSeen(y)
  BY <1>1, <1>4 DEF WmPutchar
<1>. QED
  BY <1>2, <1>4, <1>5, CursorSeenOK

-----------------------------------------------------------------------------
(***************************************************************************)
(* The shell window: texts.                                                *)
(***************************************************************************)

LEMMA PutsOK ==
  ASSUME NEW w, OkWin(w), NEW text \in Seq(GuiChars)
  PROVE  OkWin(WmPuts(w, text))
<1>1. PICK n : n = Len(text)
  OBVIOUS
<1>2. n \in Nat /\ DOMAIN text = 1..n /\ \A i \in 1..n : text[i] \in GuiChars
  BY <1>1
<1>3. PICK g : WmPutcharRun(g, w, text, n) /\ FoldLeft(WmPutchar, w, text) = g[n]
  BY <1>2, WmPutcharFold, Zenon
<1>. DEFINE S == {i \in Nat : i <= n => OkWin(g[i])}
<1>4. S = Nat
  <2>1. 0 \in S
    BY <1>3 DEF WmPutcharRun
  <2>2. ASSUME NEW i \in S  PROVE i + 1 \in S
    <3>. SUFFICES ASSUME i + 1 <= n  PROVE OkWin(g[i + 1])
      OBVIOUS
    <3>1. i + 1 \in 1..n /\ (i + 1) - 1 = i /\ i <= n
      BY <1>2
    <3>2. g[i + 1] = WmPutchar(g[i], text[i + 1]) /\ text[i + 1] \in GuiChars
      BY <1>2, <1>3, <3>1 DEF WmPutcharRun
    <3>. QED
      BY <3>1, <3>2, PutcharOK
  <2>. QED
    BY <2>1, <2>2, SetInduction
<1>5. OkWin(g[n])
  BY <1>2, <1>4
<1>. QED
  BY <1>3, <1>5, Zenon DEF WmPuts

\* len characters are erased, and so much of text is typed, from column m of row r.
Retyping(x, r, m, len, text, j) ==
  /\ OkWin(x) /\ x.row = r /\ x.col = IF j <= len THEN m + len - j ELSE m + (j - len)
  /\ \A i \in 1..Len(text) : i <= j - len => x.buf[r][m + i - 1] = text[i]

LEMMA ErasedOne ==
  ASSUME NEW x, NEW r, NEW m \in Nat, NEW len \in Nat, NEW text \in Seq(GuiLetters), NEW j \in Nat,
         Retyping(x, r, m, len, text, j), j + 1 <= len
  PROVE  Retyping(WmPutchar(x, Back), r, m, len, text, j + 1)
<1>1. OkWin(x) /\ x.row = r /\ x.col = m + len - j /\ x.col > 0
  BY DEF Retyping
<1>2. /\ OkWin(WmPutchar(x, Back)) /\ WmPutchar(x, Back).row = r
      /\ WmPutchar(x, Back).col = m + len - j - 1
  BY <1>1, BackOK
<1>3. j + 1 <= len /\ m + len - j - 1 = m + len - (j + 1)
      /\ \A i \in 1..Len(text) : ~(i <= (j + 1) - len)
  OBVIOUS
<1>. QED
  BY <1>2, <1>3 DEF Retyping

LEMMA LettersPrint ==
  ASSUME NEW x \in GuiLetters  PROVE x \in GuiChars \ {Back, NewLine} /\ x # End
  BY GuiAssumption DEF GuiChars

LEMMA TypedOne ==
  ASSUME NEW x, NEW r, NEW m \in Nat, NEW len \in Nat, NEW text \in Seq(GuiLetters), NEW j \in Nat,
         Retyping(x, r, m, len, text, j), len <= j, j < len + Len(text), m + Len(text) <= BufCols
  PROVE  Retyping(WmPutchar(x, text[(j + 1) - len]), r, m, len, text, j + 1)
<1>1. PICK k : k = (j + 1) - len
  OBVIOUS
<1>2. /\ k \in 1..Len(text) /\ Len(text) \in Nat /\ k \in Nat /\ BufCols \in Nat
      /\ m + k - 1 \in 0..BufCols - 1 /\ j - len = k - 1
      /\ (IF j <= len THEN m + len - j ELSE m + (j - len)) = m + k - 1
      /\ (IF j + 1 <= len THEN m + len - (j + 1) ELSE m + (j + 1 - len)) = m + k
  BY <1>1, GuiConsts
<1>3. /\ OkWin(x) /\ x.row = r /\ x.col = m + k - 1 /\ x.col < BufCols
      /\ \A i \in 1..Len(text) : i <= k - 1 => x.buf[r][m + i - 1] = text[i]
  BY <1>2 DEF Retyping
<1>4. PICK c : c = text[k]
  OBVIOUS
<1>5. c \in GuiChars \ {Back, NewLine} /\ c \in GuiChars
  BY <1>2, <1>4, LettersPrint
<1>6. PICK y : y = WmPutchar(x, c)
  OBVIOUS
<1>7. OkWin(y)
  BY <1>3, <1>5, <1>6, PutcharOK
<1>8. y.row = r /\ y.col = x.col + 1 /\ y.buf = SetCharAt(x.buf, r, x.col, c)
  BY <1>3, <1>5, <1>6, PrintOK
<1>9. x.buf \in WinBuf /\ r \in 0..BufRows - 1 /\ x.col \in Int
  BY <1>2, <1>3 DEF OkWin, Wins
<1>10. PICK b : b = x.buf
  OBVIOUS
<1>11. \A q \in 0..BufRows - 1, i \in 0..BufCols - 1 :
         y.buf[q][i] = IF q = r /\ i = m + k - 1 THEN c ELSE b[q][i]
  <2>1. b \in WinBuf /\ m + k - 1 \in Int /\ y.buf = SetCharAt(b, r, m + k - 1, c)
    BY <1>2, <1>3, <1>8, <1>9, <1>10
  <2>. QED
    BY <1>5, <1>9, <2>1, SetCharAtIs
<1>12. ASSUME NEW i \in 1..Len(text), i <= k  PROVE y.buf[r][m + i - 1] = text[i]
  <2>1. m + i - 1 \in 0..BufCols - 1
    BY <1>2
  <2>2. CASE i = k
    BY <1>4, <1>9, <1>11, <2>1, <2>2
  <2>3. CASE i # k
    <3>1. i <= k - 1 /\ m + i - 1 # m + k - 1
      BY <1>2, <1>12, <2>3
    <3>2. b[r][m + i - 1] = text[i]
      BY <1>3, <1>10, <3>1
    <3>. QED
      BY <1>9, <1>11, <2>1, <3>1, <3>2
  <2>. QED
    BY <2>2, <2>3
<1>13. y.col = m + k /\ j + 1 - len = k
  <2>1. PICK q : q = x.col
    OBVIOUS
  <2>2. y.col = q + 1 /\ q = m + k - 1
    BY <1>3, <1>8, <2>1
  <2>3. k \in Nat /\ m \in Nat
    BY <1>2
  <2>4. y.col = m + k
    BY <2>2, <2>3
  <2>. QED
    BY <1>1, <2>4
<1>14. Retyping(y, r, m, len, text, j + 1)
  BY <1>2, <1>7, <1>8, <1>12, <1>13 DEF Retyping
<1>. QED
  BY <1>1, <1>4, <1>6, <1>14

Backs(len) == [i \in 1..len |-> Back]

LEMMA BacksThen ==
  ASSUME NEW len \in Nat, NEW text \in Seq(GuiLetters)
  PROVE  /\ Backs(len) \o text \in Seq(GuiChars) /\ Len(Backs(len) \o text) = len + Len(text)
         /\ \A i \in 1..len + Len(text) :
              (Backs(len) \o text)[i] = IF i <= len THEN Back ELSE text[i - len]
<1>1. Backs(len) \in Seq(GuiChars) /\ Len(Backs(len)) = len /\ \A i \in 1..len : Backs(len)[i] = Back
  BY GuiCharsHave DEF Backs
<1>2. text \in Seq(GuiChars)
  <2>1. GuiLetters \subseteq GuiChars
    BY DEF GuiChars
  <2>. QED
    BY <2>1
<1>. DEFINE b == Backs(len)
<1>. HIDE DEF b
<1>3. b \in Seq(GuiChars) /\ Len(b) = len /\ \A i \in 1..len : b[i] = Back
  BY <1>1 DEF b
<1>4. /\ b \o text \in Seq(GuiChars) /\ Len(b \o text) = Len(b) + Len(text)
      /\ \A i \in 1..Len(b) + Len(text) :
           (b \o text)[i] = IF i <= Len(b) THEN b[i] ELSE text[i - Len(b)]
  BY <1>2, <1>3, ConcatProperties
<1>5. \A i \in 1..len + Len(text) : i <= len => i \in 1..len
  OBVIOUS
<1>6. \A i \in 1..len + Len(text) : (b \o text)[i] = IF i <= len THEN Back ELSE text[i - len]
  BY <1>3, <1>4, <1>5
<1>. QED
  BY <1>3, <1>4, <1>6 DEF b

LEMMA RetypedOK ==
  ASSUME NEW w, OkWin(w), NEW len \in Nat, NEW text \in Seq(GuiLetters)
  PROVE  OkWin(Retyped(w, len, text))
<1>1. Backs(len) \o text \in Seq(GuiChars)
  BY BacksThen
<1>. QED
  BY <1>1, PutsOK, Zenon DEF Retyped, Backs

\* The text is in row r from column m, with the cursor behind it.
TextAt(x, r, m, text) ==
  x.row = r /\ x.col = m + Len(text) /\ \A i \in 1..Len(text) : x.buf[r][m + i - 1] = text[i]

LEMMA RetypedShows ==
  ASSUME NEW w, OkWin(w), NEW r, NEW m \in Nat, NEW len \in Nat, NEW text \in Seq(GuiLetters),
         w.row = r, w.col = m + len, m + Len(text) <= BufCols
  PROVE  TextAt(Retyped(w, len, text), r, m, text)
<1>1. PICK all, n : all = Backs(len) \o text /\ n = len + Len(text)
  OBVIOUS
<1>2. /\ n \in Nat /\ Len(text) \in Nat /\ DOMAIN all = 1..n
      /\ \A i \in 1..n : all[i] = IF i <= len THEN Back ELSE text[i - len]
  <2>1. Backs(len) \o text \in Seq(GuiChars) /\ Len(Backs(len) \o text) = len + Len(text)
    BY BacksThen
  <2>2. all \in Seq(GuiChars) /\ Len(all) = n /\ Len(text) \in Nat
    BY <1>1, <2>1
  <2>3. n \in Nat /\ DOMAIN all = 1..n
    BY <1>1, <2>2
  <2>4. \A i \in 1..n : all[i] = IF i <= len THEN Back ELSE text[i - len]
    BY <1>1, BacksThen, Zenon
  <2>. QED
    BY <2>2, <2>3, <2>4, Zenon
<1>3. PICK g : WmPutcharRun(g, w, all, n) /\ FoldLeft(WmPutchar, w, all) = g[n]
  <2>1. n \in Nat /\ DOMAIN all = 1..n
    BY <1>2, Zenon
  <2>. QED
    BY <2>1, WmPutcharFold, Zenon
<1>. DEFINE S == {j \in Nat : j <= n => Retyping(g[j], r, m, len, text, j)}
<1>4. S = Nat
  <2>1. 0 \in S
    <3>1. g[0] = w /\ (0 <= len) /\ m + len - 0 = m + len /\ \A i \in 1..Len(text) : ~(i <= 0 - len)
      BY <1>3 DEF WmPutcharRun
    <3>2. Retyping(g[0], r, m, len, text, 0)
      BY <3>1 DEF Retyping
    <3>. QED
      BY <3>2
  <2>2. ASSUME NEW j \in S  PROVE j + 1 \in S
    <3>. SUFFICES ASSUME j + 1 <= n  PROVE Retyping(g[j + 1], r, m, len, text, j + 1)
      OBVIOUS
    <3>1. j + 1 \in 1..n /\ (j + 1) - 1 = j /\ j <= n /\ j \in Nat
      BY <1>2
    <3>2. g[j + 1] = WmPutchar(g[j], all[j + 1]) /\ Retyping(g[j], r, m, len, text, j)
      BY <1>2, <1>3, <3>1 DEF WmPutcharRun
    <3>3. CASE j + 1 <= len
      <4>1. all[j + 1] = Back
        BY <1>2, <3>1, <3>3
      <4>. QED
        BY <3>1, <3>2, <3>3, <4>1, ErasedOne
    <3>4. CASE ~(j + 1 <= len)
      <4>1. all[j + 1] = text[(j + 1) - len] /\ len <= j /\ j < len + Len(text)
        BY <1>1, <1>2, <3>1, <3>4
      <4>. QED
        BY <3>1, <3>2, <4>1, TypedOne
    <3>. QED
      BY <3>3, <3>4
  <2>. QED
    BY <2>1, <2>2, SetInduction
<1>5. Retyping(g[n], r, m, len, text, n)
  BY <1>2, <1>4
<1>6. Retyped(w, len, text) = g[n]
  BY <1>1, <1>3, Zenon DEF Retyped, WmPuts, Backs
<1>7. n - len = Len(text) /\ (IF n <= len THEN m + len - n ELSE m + (n - len)) = m + Len(text)
  BY <1>1, <1>2
<1>8. \A i \in 1..Len(text) : i <= n - len
  BY <1>7
<1>. QED
  BY <1>5, <1>6, <1>7, <1>8 DEF Retyping, TextAt

-----------------------------------------------------------------------------
(***************************************************************************)
(* The shell window: the line editor and its history.                      *)
(***************************************************************************)

\* The input and the kept line: C strings of at most GuiLineMax characters.
GuiBufs == [1..GuiLineMax + 2 -> GuiLetters \cup {End}]
BufOK(buf) == buf \in GuiBufs /\ buf[GuiLineMax + 1] = End /\ buf[GuiLineMax + 2] = End
GuiTexts == {text \in Seq(GuiLetters) : Len(text) <= GuiLineMax}
Entries == {text \in GuiTexts : text # <<>>}

LEMMA EndNoLetter == End \notin GuiLetters
  BY GuiAssumption

LEMMA CStringOK ==
  ASSUME NEW buf, BufOK(buf)
  PROVE  /\ CString(buf) \in GuiTexts
         /\ \A n \in 0..GuiLineMax : (\A i \in 1..n : buf[i] \in GuiLetters)
              => n <= Len(CString(buf)) /\ \A i \in 1..n : CString(buf)[i] = buf[i]
<1>. DEFINE I == {i \in 1..Len(buf) : buf[i] = End}
            k == Min(I)
<1>1. Len(buf) = GuiLineMax + 2 /\ GuiLineMax \in Nat
  BY GuiConsts DEF BufOK, GuiBufs
<1>2. I \in SUBSET Nat /\ GuiLineMax + 1 \in I
  BY <1>1 DEF BufOK
<1>3. SelectInSubSeq(buf, 1, Len(buf), LAMBDA c : c = End) = k
  BY <1>2 DEF SelectInSubSeq
<1>4. k \in I /\ \A n \in I : k <= n
  BY <1>2, LeastIs
<1>5. CString(buf) = SubSeq(buf, 1, k - 1)
  BY <1>3, Zenon DEF CString
<1>6. k \in 1..GuiLineMax + 1 /\ buf[k] = End /\ \A i \in 1..k - 1 : buf[i] # End
  BY <1>1, <1>2, <1>4
<1>. HIDE DEF k, I
<1>7. \A i \in 1..k - 1 : buf[i] \in GuiLetters
  BY <1>1, <1>6 DEF BufOK, GuiBufs
<1>8. /\ SubSeq(buf, 1, k - 1) \in Seq(GuiLetters) /\ Len(SubSeq(buf, 1, k - 1)) = k - 1
      /\ \A i \in 1..k - 1 : SubSeq(buf, 1, k - 1)[i] = buf[i]
  <2>1. 1 \in Int /\ k - 1 \in Int /\ (k - 1) - 1 + 1 = k - 1 /\ (~(1 <= k - 1) => k - 1 = 0)
        /\ \A i \in 1..k - 1 : 1 + i - 1 = i
    BY <1>1, <1>6
  <2>. QED
    BY <1>7, <2>1, SubSeqProperties
<1>9. ASSUME NEW n \in 0..GuiLineMax, \A i \in 1..n : buf[i] \in GuiLetters
      PROVE  n <= k - 1 /\ \A i \in 1..n : i \in 1..k - 1
  <2>1. ~(k <= n)
    BY <1>1, <1>6, <1>9, EndNoLetter
  <2>. QED
    BY <1>1, <1>6, <2>1
<1>10. k - 1 <= GuiLineMax
  BY <1>1, <1>6
<1>. QED
  BY <1>5, <1>8, <1>9, <1>10 DEF GuiTexts

LEMMA StoredOK ==
  ASSUME NEW buf, BufOK(buf), NEW text \in GuiTexts
  PROVE  BufOK(Stored(buf, text)) /\ \A i \in 1..Len(text) : Stored(buf, text)[i] = text[i]
<1>1. /\ GuiLineMax \in Nat /\ Len(text) \in Nat /\ Len(text) <= GuiLineMax
      /\ \A i \in 1..Len(text) : text[i] \in GuiLetters
      /\ DOMAIN buf = 1..GuiLineMax + 2 /\ buf \in GuiBufs
  BY GuiConsts DEF BufOK, GuiBufs, GuiTexts
<1>2. PICK b : b = Stored(buf, text)
  OBVIOUS
<1>3. /\ b = [i \in 1..GuiLineMax + 2 |-> IF i <= Len(text) THEN text[i]
                        ELSE IF i = Len(text) + 1 THEN End ELSE buf[i]]
  BY <1>1, <1>2 DEF Stored
<1>4. \A i \in 1..GuiLineMax + 2 : b[i] \in GuiLetters \cup {End}
  BY <1>1, <1>3 DEF GuiBufs
<1>5. \A i \in 1..Len(text) : b[i] = text[i]
  BY <1>1, <1>3
<1>6. b[GuiLineMax + 1] = End /\ b[GuiLineMax + 2] = End
  BY <1>1, <1>3 DEF BufOK
<1>. QED
  BY <1>2, <1>3, <1>4, <1>5, <1>6 DEF BufOK, GuiBufs

\* The line as it is edited: the characters before ilen are letters.
Eds == [input : GuiBufs, len : 0..GuiLineMax, histI : Int, draft : GuiBufs]
EdOK(e, h) ==
  /\ e \in Eds /\ BufOK(e.input) /\ BufOK(e.draft)
  /\ \A i \in 1..e.len : e.input[i] \in GuiLetters
  /\ e.histI \in -1..Len(h) - 1

Latest(lines) ==
  SubSeq(lines, IF Len(lines) > GuiHistMax THEN Len(lines) - GuiHistMax + 1 ELSE 1, Len(lines))
HistOK(h, en) ==
  /\ h \in Seq(Entries) /\ en \in [lines : Seq(Entries), kept : Seq(GuiLetters \cup {End})]
  /\ h = Latest(en.lines)

\* The kept line is what draft starts with.
KeptOK(en, e) ==
  en.kept # NoLine => /\ en.kept \in GuiTexts
                      /\ \A i \in 1..Len(en.kept) : e.draft[i] = en.kept[i]

MarkOK(m) == m \in [row : Nat, col : Nat, good : BOOLEAN]
Shown(w, e, m) ==
  m.good => /\ w.row = m.row /\ w.col = m.col + e.len
            /\ \A i \in 1..e.len : w.buf[m.row][m.col + i - 1] = e.input[i]

GuiInv ==
  /\ OkWin(win) /\ EdOK(ed, hist) /\ HistOK(hist, entered) /\ KeptOK(entered, ed)
  /\ MarkOK(mark) /\ Shown(win, ed, mark)
  /\ winTorn \in BOOLEAN /\ (winTorn => ~mark.good)
  /\ running \in BOOLEAN /\ prompting \in BOOLEAN

\* A torn window is left as it is, and its line is not shown.
TornOK == winTorn' \in BOOLEAN /\ (winTorn' => ~mark'.good)
LEMMA ShowsOK ==
  ASSUME GuiInv, NEW w, OkWin(w), Shows(w)
  PROVE  OkWin(win') /\ winTorn' = winTorn /\ (winTorn \/ win' = w)
  BY DEF GuiInv, Shows

LEMMA TypingOK ==
  ASSUME NEW e, NEW h, EdOK(e, h), NEW n \in 0..e.len
  PROVE  /\ SubSeq(e.input, 1, n) \in GuiTexts /\ Len(SubSeq(e.input, 1, n)) = n
         /\ \A i \in 1..n : SubSeq(e.input, 1, n)[i] = e.input[i]
<1>1. e.len \in 0..GuiLineMax /\ GuiLineMax \in Nat /\ n \in Nat /\ n <= GuiLineMax
      /\ \A i \in 1..n : i \in 1..e.len
  BY GuiConsts DEF EdOK, Eds
<1>2. \A i \in 1..n : e.input[i] \in GuiLetters
  BY <1>1 DEF EdOK
<1>3. n - 1 + 1 = n /\ (~(1 <= n) => n = 0) /\ (\A i \in 1..n : 1 + i - 1 = i) /\ 1 \in Int /\ n \in Int
  BY <1>1
<1>4. /\ SubSeq(e.input, 1, n) \in Seq(GuiLetters)
      /\ Len(SubSeq(e.input, 1, n)) = IF 1 <= n THEN n - 1 + 1 ELSE 0
      /\ \A i \in 1..n - 1 + 1 : SubSeq(e.input, 1, n)[i] = e.input[1 + i - 1]
  BY <1>2, <1>3, SubSeqProperties
<1>. QED
  BY <1>1, <1>3, <1>4 DEF GuiTexts

\* Another text takes the line's place, in the input and in the window.
LEMMA ShowingOK ==
  ASSUME GuiInv, NEW text \in GuiTexts, NEW e, e.len = Len(text),
         \A i \in 1..Len(text) : e.input[i] = text[i],
         Showing(Retyped(win, ed.len, text), e)
  PROVE  OkWin(win') /\ MarkOK(mark') /\ Shown(win', e, mark') /\ ed' = e /\ TornOK
<1>1. text \in Seq(GuiLetters) /\ Len(text) \in Nat
  BY DEF GuiTexts
<1>2. PICK x : x = Retyped(win, ed.len, text)
  OBVIOUS
<1>3. Shows(x) /\ ed' = e /\ mark' = [mark EXCEPT !.good = @ /\ mark.col + e.len <= BufCols]
  BY <1>2 DEF Showing
<1>4. OkWin(win) /\ ed.len \in Nat
  BY GuiConsts DEF GuiInv, EdOK, Eds
<1>5. OkWin(x)
  BY <1>1, <1>2, <1>4, RetypedOK
<1>6. mark \in [row : Nat, col : Nat, good : BOOLEAN]
  BY DEF GuiInv, MarkOK
<1>7. PICK b : b = (mark.good /\ mark.col + e.len <= BufCols)
  OBVIOUS
<1>8. b \in BOOLEAN /\ mark' = [mark EXCEPT !.good = b]
  BY <1>3, <1>7
<1>9. MarkOK(mark') /\ mark'.row = mark.row /\ mark'.col = mark.col /\ mark'.good = b
  BY <1>6, <1>8 DEF MarkOK
<1>10. ASSUME b  PROVE win' = x /\ Shown(x, e, mark')
  <2>0. mark.good /\ ~winTorn /\ win' = x
    BY <1>3, <1>5, <1>7, <1>10, ShowsOK DEF GuiInv
  <2>1. mark.good /\ mark.col + Len(text) <= BufCols /\ mark.col \in Nat
    BY <1>6, <1>7, <1>10
  <2>2. win.row = mark.row /\ win.col = mark.col + ed.len
    BY <2>1 DEF GuiInv, Shown
  <2>3. PICK r, m, len : r = mark.row /\ m = mark.col /\ len = ed.len
    OBVIOUS
  <2>4. m \in Nat /\ len \in Nat /\ win.row = r /\ win.col = m + len /\ m + Len(text) <= BufCols
    BY <1>4, <2>1, <2>2, <2>3
  <2>5. x = Retyped(win, len, text)
    BY <1>2, <2>3
  <2>6. TextAt(x, r, m, text)
    BY <1>1, <1>4, <2>4, <2>5, RetypedShows, Zenon
  <2>. QED
    BY <1>9, <2>0, <2>3, <2>6 DEF Shown, TextAt
<1>11. Shown(win', e, mark')
  BY <1>9, <1>10 DEF Shown
<1>12. OkWin(win') /\ winTorn' = winTorn
  BY <1>3, <1>5, ShowsOK
<1>13. TornOK
  BY <1>7, <1>9, <1>12 DEF TornOK, GuiInv
<1>. QED
  BY <1>3, <1>9, <1>11, <1>12, <1>13

LEMMA LatestProps ==
  ASSUME NEW lines \in Seq(Entries)
  PROVE  /\ Latest(lines) \in Seq(Entries) /\ Len(lines) \in Nat
         /\ Len(Latest(lines)) = IF Len(lines) > GuiHistMax THEN GuiHistMax ELSE Len(lines)
         /\ \A i \in 1..Len(Latest(lines)) :
              Latest(lines)[i] = lines[IF Len(lines) > GuiHistMax THEN Len(lines) - GuiHistMax + i ELSE i]
<1>1. PICK n, m : n = Len(lines) /\ m = IF n > GuiHistMax THEN n - GuiHistMax + 1 ELSE 1
  OBVIOUS
<1>2. /\ n \in Nat /\ GuiHistMax \in Nat \ {0} /\ m \in Int /\ n \in Int /\ \A i \in m..n : i \in 1..n
      /\ (IF m <= n THEN n - m + 1 ELSE 0) = (IF n > GuiHistMax THEN GuiHistMax ELSE n)
      /\ n - m + 1 = (IF n > GuiHistMax THEN GuiHistMax ELSE n)
  <2>1. n \in Nat /\ GuiHistMax \in Nat \ {0}
    BY <1>1, GuiConsts
  <2>2. CASE n > GuiHistMax
    <3>1. m = n - GuiHistMax + 1
      BY <1>1, <2>2
    <3>. QED
      BY <2>1, <2>2, <3>1
  <2>3. CASE ~(n > GuiHistMax)
    <3>1. m = 1
      BY <1>1, <2>3
    <3>. QED
      BY <2>1, <2>3, <3>1
  <2>. QED
    BY <2>2, <2>3
<1>3. \A i \in m..n : lines[i] \in Entries
  BY <1>1, <1>2
<1>4. /\ SubSeq(lines, m, n) \in Seq(Entries)
      /\ Len(SubSeq(lines, m, n)) = IF m <= n THEN n - m + 1 ELSE 0
      /\ \A i \in 1..n - m + 1 : SubSeq(lines, m, n)[i] = lines[m + i - 1]
  BY <1>2, <1>3, SubSeqProperties
<1>5. Latest(lines) = SubSeq(lines, m, n)
  BY <1>1 DEF Latest
<1>6. \A i \in 1..n - m + 1 : m + i - 1 = IF n > GuiHistMax THEN n - GuiHistMax + i ELSE i
  BY <1>1, <1>2
<1>7. Len(Latest(lines)) = n - m + 1
  BY <1>2, <1>4, <1>5
<1>8. ASSUME NEW i \in 1..Len(Latest(lines))
      PROVE  Latest(lines)[i] = lines[IF n > GuiHistMax THEN n - GuiHistMax + i ELSE i]
  BY <1>4, <1>5, <1>6, <1>7, <1>8, Zenon
<1>9. Len(Latest(lines)) = IF n > GuiHistMax THEN GuiHistMax ELSE n
  BY <1>2, <1>7
<1>. QED
  BY <1>1, <1>2, <1>4, <1>5, <1>8, <1>9, Zenon

LEMMA LatestAppend ==
  ASSUME NEW lines \in Seq(Entries), NEW cmd \in Entries
  PROVE  HistSave(Latest(lines), cmd) = Latest(Append(lines, cmd))
<1>1. PICK h, n, k, longer, g : h = Latest(lines) /\ k = n + 1 /\ n = Len(lines) /\ longer = Append(lines, cmd)
                             /\ g = HistSave(h, cmd)
  OBVIOUS
<1>2. n \in Nat /\ k = n + 1 /\ GuiHistMax \in Nat \ {0} /\ cmd # <<>>
  BY <1>1, GuiConsts DEF Entries
<1>3. /\ h \in Seq(Entries) /\ Len(h) = IF n > GuiHistMax THEN GuiHistMax ELSE n
      /\ \A i \in 1..Len(h) : h[i] = lines[IF n > GuiHistMax THEN n - GuiHistMax + i ELSE i]
  BY <1>1, LatestProps, Zenon
<1>4. /\ longer \in Seq(Entries) /\ Len(longer) = n + 1 /\ longer[n + 1] = cmd
      /\ \A i \in 1..n : longer[i] = lines[i]
  BY <1>1, AppendProperties
<1>5. PICK f : f = Latest(longer)
  OBVIOUS
<1>6. /\ f \in Seq(Entries) /\ Len(f) = IF k > GuiHistMax THEN GuiHistMax ELSE k
      /\ \A i \in 1..Len(f) : f[i] = longer[IF k > GuiHistMax THEN k - GuiHistMax + i ELSE i]
  <2>1. Len(longer) = k
    BY <1>2, <1>4
  <2>. QED
    BY <1>4, <1>5, <2>1, LatestProps, Zenon
<1>7. CASE n < GuiHistMax
  <2>1. Len(h) = n /\ \A i \in 1..n : h[i] = lines[i]
    BY <1>2, <1>3, <1>7
  <2>2. g = Append(h, cmd)
    BY <1>1, <1>2, <1>7, <2>1 DEF HistSave
  <2>3. /\ g \in Seq(Entries) /\ Len(g) = n + 1 /\ g[n + 1] = cmd
        /\ \A i \in 1..n : g[i] = h[i]
    BY <1>3, <2>1, <2>2, AppendProperties
  <2>4. Len(f) = n + 1 /\ \A i \in 1..n + 1 : f[i] = longer[i]
    BY <1>2, <1>6, <1>7
  <2>5. ASSUME NEW i \in 1..n + 1  PROVE g[i] = f[i]
    <3>1. CASE i = n + 1
      BY <1>4, <2>3, <2>4, <3>1
    <3>2. CASE i # n + 1
      <4>1. i \in 1..n
        BY <1>2, <3>2
      <4>. QED
        BY <1>4, <2>1, <2>3, <2>4, <4>1
    <3>. QED
      BY <3>1, <3>2
  <2>6. g = f
    BY <1>6, <2>3, <2>4, <2>5, SeqEqual
  <2>. QED
    BY <1>1, <1>5, <2>6
<1>8. CASE ~(n < GuiHistMax)
  <2>1. /\ Len(h) = GuiHistMax /\ h # <<>> /\ ~(Len(h) < GuiHistMax)
        /\ \A i \in 1..Len(h) : h[i] = lines[n - GuiHistMax + i]
    <3>1. Len(h) = GuiHistMax /\ ~(Len(h) < GuiHistMax)
      BY <1>2, <1>3, <1>8
    <3>2. h # <<>>
      BY <1>2, <3>1, EmptySeq
    <3>3. \A i \in 1..Len(h) : (IF n > GuiHistMax THEN n - GuiHistMax + i ELSE i) = n - GuiHistMax + i
      BY <1>2, <1>8
    <3>. QED
      BY <1>3, <3>1, <3>2, <3>3
  <2>2. PICK t : t = Tail(h)
    OBVIOUS
  <2>3. /\ t \in Seq(Entries) /\ Len(t) = GuiHistMax - 1
        /\ \A i \in 1..Len(t) : t[i] = h[i + 1]
    BY <1>3, <2>1, <2>2, HeadTailProperties
  <2>4. g = Append(t, cmd)
    BY <1>1, <1>2, <2>1, <2>2 DEF HistSave
  <2>5. /\ g \in Seq(Entries) /\ Len(g) = GuiHistMax /\ g[GuiHistMax] = cmd
        /\ \A i \in 1..GuiHistMax - 1 : g[i] = t[i]
    <3>1. /\ g \in Seq(Entries) /\ Len(g) = Len(t) + 1 /\ g[Len(t) + 1] = cmd
          /\ \A i \in 1..Len(t) : g[i] = t[i]
      BY <2>3, <2>4, AppendProperties
    <3>2. Len(t) + 1 = GuiHistMax
      BY <1>2, <2>3
    <3>. QED
      BY <2>3, <3>1, <3>2
  <2>6. Len(f) = GuiHistMax /\ \A i \in 1..GuiHistMax : f[i] = longer[n + 1 - GuiHistMax + i]
    BY <1>2, <1>6, <1>8
  <2>7. ASSUME NEW i \in 1..GuiHistMax  PROVE g[i] = f[i]
    <3>1. CASE i = GuiHistMax
      <4>1. n + 1 - GuiHistMax + i = n + 1
        BY <1>2, <3>1
      <4>. QED
        BY <1>4, <2>5, <2>6, <3>1, <4>1
    <3>2. CASE i # GuiHistMax
      <4>1. /\ i \in 1..GuiHistMax - 1 /\ i + 1 \in 1..GuiHistMax
            /\ n + 1 - GuiHistMax + i \in 1..n /\ n - GuiHistMax + (i + 1) = n + 1 - GuiHistMax + i
        BY <1>2, <1>8, <3>2
      <4>2. g[i] = h[i + 1]
        BY <2>3, <2>5, <4>1
      <4>3. h[i + 1] = lines[n + 1 - GuiHistMax + i]
        BY <2>1, <4>1
      <4>. QED
        BY <1>4, <2>6, <4>1, <4>2, <4>3
    <3>. QED
      BY <3>1, <3>2
  <2>8. g = f
    BY <1>6, <2>5, <2>6, <2>7, SeqEqual
  <2>. QED
    BY <1>1, <1>5, <2>8
<1>. QED
  BY <1>7, <1>8

-----------------------------------------------------------------------------
(***************************************************************************)
(* The shell window: the keys.                                             *)
(***************************************************************************)

LEMMA ScrollKeyOK ==
  ASSUME GuiInv, ScrollKey  PROVE GuiInv'
<1>1. /\ UNCHANGED <<ed, hist, entered, prompting, running, mark>>
      /\ \E t : /\ Shows([win EXCEPT !.top = t])
                /\ \/ t = IF win.top < ViewStep THEN 0 ELSE win.top - ViewStep
                   \/ t = IF win.top >= Bottom(win) THEN win.top
                          ELSE IF win.top + ViewStep > Bottom(win) THEN Bottom(win)
                          ELSE win.top + ViewStep
  BY DEF ScrollKey, NoKeyboard
<1>2. PICK t : /\ Shows([win EXCEPT !.top = t])
               /\ \/ t = IF win.top < ViewStep THEN 0 ELSE win.top - ViewStep
                  \/ t = IF win.top >= Bottom(win) THEN win.top
                         ELSE IF win.top + ViewStep > Bottom(win) THEN Bottom(win)
                         ELSE win.top + ViewStep
  BY <1>1
<1>3. OkWin(win) /\ win \in Wins(BufRows - 1) /\ win.top \in Nat /\ win.row \in Nat
  BY GuiConsts DEF GuiInv, OkWin, Wins
<1>4. Bottom(win) = Bot(win.row) /\ Bot(win.row) \in Nat /\ win.top <= Bot(win.row)
  BY <1>3, BotGrows DEF OkWin, Bottom, Bot
<1>5. t \in Nat /\ t <= Bot(win.row)
  BY <1>2, <1>3, <1>4, GuiConsts
<1>6. PICK x : x = [win EXCEPT !.top = t]
  OBVIOUS
<1>7. x \in Wins(BufRows - 1) /\ x.top = t /\ x.row = win.row /\ x.col = win.col /\ x.buf = win.buf
  BY <1>3, <1>5, <1>6 DEF Wins
<1>8. OkWin(x)
  BY <1>3, <1>5, <1>7 DEF OkWin
<1>9. Shown(x, ed, mark)
  BY <1>7 DEF GuiInv, Shown
<1>10. OkWin(win') /\ winTorn' = winTorn /\ (win' = win \/ win' = x)
  BY <1>2, <1>6, <1>8, ShowsOK DEF Shows
<1>11. Shown(win', ed, mark)
  BY <1>9, <1>10 DEF GuiInv
<1>. QED
  BY <1>1, <1>10, <1>11 DEF GuiInv

LEMMA EdIs ==
  ASSUME NEW e, NEW h, EdOK(e, h)
  PROVE  /\ e \in Eds /\ e.input \in GuiBufs /\ e.draft \in GuiBufs /\ e.len \in 0..GuiLineMax
         /\ e.len \in Nat /\ e.histI \in Int /\ DOMAIN e.input = 1..GuiLineMax + 2
         /\ DOMAIN e.draft = 1..GuiLineMax + 2
  BY GuiConsts DEF EdOK, Eds, BufOK, GuiBufs

TypedEd(e, f, h, c) ==
  /\ EdOK(f, h) /\ f.len = e.len + 1 /\ f.draft = e.draft
  /\ f.input[f.len] = c /\ \A i \in 1..e.len : f.input[i] = e.input[i]

LEMMA TypedEdOK ==
  ASSUME NEW e, NEW h, EdOK(e, h), e.len < GuiLineMax, NEW c \in GuiLetters,
         NEW f, f = [e EXCEPT !.input = [@ EXCEPT ![e.len + 1] = c], !.len = @ + 1]
  PROVE  TypedEd(e, f, h, c)
<1>1. PICK buf, n : buf = [e.input EXCEPT ![e.len + 1] = c] /\ n = e.len + 1
  OBVIOUS
<1>2. /\ e \in Eds /\ e.input \in GuiBufs /\ e.len \in Nat /\ GuiLineMax \in Nat
      /\ DOMAIN e.input = 1..GuiLineMax + 2
  BY EdIs, GuiConsts
<1>3. n \in 1..GuiLineMax /\ n \in 0..GuiLineMax /\ n \in 1..GuiLineMax + 2
  BY <1>1, <1>2
<1>4. /\ buf \in GuiBufs /\ buf[n] = c
      /\ \A i \in 1..GuiLineMax + 2 : i # n => buf[i] = e.input[i]
  BY <1>1, <1>2, <1>3 DEF GuiBufs
<1>5. f = [e EXCEPT !.input = buf, !.len = n]
  BY <1>1
<1>6. f \in Eds /\ f.input = buf /\ f.len = n /\ f.histI = e.histI /\ f.draft = e.draft
  BY <1>2, <1>3, <1>4, <1>5 DEF Eds
<1>7. BufOK(buf)
  <2>1. GuiLineMax + 1 # n /\ GuiLineMax + 2 # n /\ GuiLineMax + 1 \in 1..GuiLineMax + 2
        /\ GuiLineMax + 2 \in 1..GuiLineMax + 2
    BY <1>2, <1>3
  <2>. QED
    BY <1>4, <2>1 DEF EdOK, BufOK
<1>8. \A i \in 1..e.len : i \in 1..GuiLineMax + 2 /\ i # n
  BY <1>1, <1>2, <1>3
<1>9. \A i \in 1..e.len : buf[i] = e.input[i]
  BY <1>4, <1>8
<1>10. \A i \in 1..n : buf[i] \in GuiLetters
  <2> TAKE i \in 1..n
  <2>1. i = n \/ i \in 1..e.len
    BY <1>1, <1>2
  <2>. QED
    BY <1>4, <1>9, <2>1 DEF EdOK
<1>11. EdOK(f, h)
  BY <1>6, <1>7, <1>10 DEF EdOK
<1>. QED
  BY <1>1, <1>4, <1>6, <1>9, <1>11 DEF TypedEd

\* A key that edits the line.
LEMMA EditedOK ==
  ASSUME GuiInv, OkWin(win'), MarkOK(mark'), Shown(win', ed', mark'), TornOK, EdOK(ed', hist),
         KeptOK(entered', ed'), hist' = hist, UNCHANGED <<running, prompting>>,
         entered' \in [lines : Seq(Entries), kept : Seq(GuiLetters \cup {End})],
         entered'.lines = entered.lines
  PROVE  GuiInv'
  BY DEF GuiInv, HistOK, TornOK

LEMMA TypeKeyOK ==
  ASSUME GuiInv, TypeKey  PROVE GuiInv'
<1>1. PICK c \in GuiLetters :
        Showing(WmPutchar(win, c), [ed EXCEPT !.input = [@ EXCEPT ![ed.len + 1] = c], !.len = @ + 1])
  BY Zenon DEF TypeKey
<1>2. ~Spilled(win) /\ ed.len < GuiLineMax /\ UNCHANGED <<hist, entered, prompting, running>>
  BY DEF TypeKey, GuiKey, GuiStep
<1>3. PICK f, x : /\ f = [ed EXCEPT !.input = [@ EXCEPT ![ed.len + 1] = c], !.len = @ + 1]
                  /\ x = WmPutchar(win, c)
  OBVIOUS
<1>4. EdOK(ed, hist) /\ OkWin(win) /\ ed.len \in Nat /\ mark \in [row : Nat, col : Nat, good : BOOLEAN]
  BY EdIs DEF GuiInv, MarkOK
<1>5. /\ EdOK(f, hist) /\ f.len = ed.len + 1 /\ f.draft = ed.draft
      /\ f.input[f.len] = c /\ \A i \in 1..ed.len : f.input[i] = ed.input[i]
  <2>1. EdOK(ed, hist)
    BY <1>4
  <2>2. ed.len < GuiLineMax
    BY <1>2
  <2>3. f = [ed EXCEPT !.input = [@ EXCEPT ![ed.len + 1] = c], !.len = @ + 1]
    BY <1>3
  <2>4. TypedEd(ed, f, hist, c)
    BY <2>1, <2>2, <2>3, TypedEdOK, Zenon
  <2>. QED
    BY <2>4 DEF TypedEd
<1>6. PICK b : b = (mark.good /\ mark.col + f.len <= BufCols)
  OBVIOUS
<1>7. Shows(x) /\ ed' = f /\ mark' = [mark EXCEPT !.good = b]
  BY <1>1, <1>3, <1>6 DEF Showing
<1>8. b \in BOOLEAN /\ MarkOK(mark') /\ mark'.row = mark.row /\ mark'.col = mark.col /\ mark'.good = b
  BY <1>4, <1>6, <1>7 DEF MarkOK
<1>9. c \in GuiChars /\ c \in GuiChars \ {Back, NewLine}
  BY LettersPrint
<1>10. OkWin(x)
  BY <1>3, <1>4, <1>9, PutcharOK
<1>11. ASSUME b  PROVE Shown(x, f, mark')
  <2>1. /\ mark.col \in Nat /\ mark.col + ed.len + 1 <= BufCols /\ win.row = mark.row
        /\ win.col = mark.col + ed.len /\ win.col < BufCols
        /\ \A i \in 1..ed.len : win.buf[mark.row][mark.col + i - 1] = ed.input[i]
    <3>1. mark.good /\ mark.col + f.len <= BufCols /\ mark.col \in Nat
      BY <1>4, <1>6, <1>11
    <3>2. /\ win.row = mark.row /\ win.col = mark.col + ed.len
          /\ \A i \in 1..ed.len : win.buf[mark.row][mark.col + i - 1] = ed.input[i]
      BY <3>1 DEF GuiInv, Shown
    <3>3. mark.col + ed.len + 1 <= BufCols /\ mark.col + ed.len < BufCols
      BY <1>4, <1>5, <3>1, GuiConsts
    <3>. QED
      BY <3>1, <3>2, <3>3
  <2>2. x.row = win.row /\ x.col = win.col + 1 /\ x.buf = SetCharAt(win.buf, win.row, win.col, c)
    BY <1>3, <1>4, <1>9, <2>1, PrintOK
  <2>3. PICK buf, r, k : buf = win.buf /\ r = win.row /\ k = win.col
    OBVIOUS
  <2>4. buf \in WinBuf /\ r \in 0..BufRows - 1 /\ k \in Int
    BY <1>4, <2>3, GuiConsts DEF OkWin, Wins
  <2>5. \A q \in 0..BufRows - 1, i \in 0..BufCols - 1 :
          x.buf[q][i] = IF q = r /\ i = k THEN c ELSE buf[q][i]
    <3>1. x.buf = SetCharAt(buf, r, k, c)
      BY <2>2, <2>3
    <3>. QED
      BY <1>9, <2>4, <3>1, SetCharAtIs
  <2>6. ASSUME NEW i \in 1..f.len  PROVE x.buf[mark.row][mark.col + i - 1] = f.input[i]
    <3>1. mark.row = r /\ mark.col + i - 1 \in 0..BufCols - 1
      BY <1>4, <1>5, <2>1, <2>3, GuiConsts
    <3>2. CASE i = f.len
      <4>1. mark.col + i - 1 = k
        BY <1>4, <1>5, <2>1, <2>3, <3>2
      <4>. QED
        BY <1>5, <2>4, <2>5, <3>1, <3>2, <4>1
    <3>3. CASE i # f.len
      <4>1. i \in 1..ed.len /\ mark.col + i - 1 # k
        BY <1>4, <1>5, <2>1, <2>3, <3>3
      <4>2. x.buf[r][mark.col + i - 1] = buf[r][mark.col + i - 1]
        BY <2>4, <2>5, <3>1, <4>1
      <4>. QED
        BY <1>5, <2>1, <2>3, <3>1, <4>1, <4>2
    <3>. QED
      BY <3>2, <3>3
  <2>7. x.row = mark'.row /\ x.col = mark'.col + f.len
    BY <1>4, <1>5, <1>8, <2>1, <2>2
  <2>. QED
    BY <1>8, <2>6, <2>7 DEF Shown
<1>12. OkWin(win') /\ winTorn' = winTorn /\ (b => win' = x)
  BY <1>6, <1>7, <1>10, ShowsOK DEF GuiInv
<1>13. Shown(win', f, mark') /\ TornOK
  BY <1>6, <1>8, <1>11, <1>12 DEF Shown, TornOK, GuiInv
<1>14. KeptOK(entered', ed')
  BY <1>2, <1>5, <1>7 DEF GuiInv, KeptOK
<1>. QED
  BY <1>2, <1>5, <1>7, <1>8, <1>12, <1>13, <1>14, EditedOK DEF GuiInv, HistOK

LEMMA BackspaceKeyOK ==
  ASSUME GuiInv, BackspaceKey  PROVE GuiInv'
<1>1. PICK e : e = [ed EXCEPT !.len = @ - 1]
  OBVIOUS
<1>2. /\ ed.len > 0 /\ Showing(Retyped(win, ed.len, Typing(e)), e)
      /\ UNCHANGED <<hist, entered, prompting, running>>
  BY <1>1 DEF BackspaceKey
<1>3. EdOK(ed, hist) /\ ed \in Eds /\ ed.len \in 0..GuiLineMax /\ GuiLineMax \in Nat
  BY EdIs, GuiConsts DEF GuiInv
<1>4. PICK n : n = ed.len - 1
  OBVIOUS
<1>5. n \in 0..GuiLineMax /\ n \in 0..ed.len /\ \A i \in 1..n : i \in 1..ed.len
  BY <1>2, <1>3, <1>4
<1>6. e = [ed EXCEPT !.len = n]
  BY <1>1, <1>4
<1>7. e \in Eds /\ e.len = n /\ e.input = ed.input /\ e.draft = ed.draft /\ e.histI = ed.histI
  BY <1>3, <1>5, <1>6 DEF Eds
<1>8. EdOK(e, hist)
  BY <1>3, <1>5, <1>7 DEF EdOK
<1>9. PICK text : text = Typing(e)
  OBVIOUS
<1>10. text \in GuiTexts /\ Len(text) = n /\ \A i \in 1..n : text[i] = e.input[i]
  <2>1. text = SubSeq(ed.input, 1, n)
    BY <1>7, <1>9 DEF Typing
  <2>. QED
    BY <1>3, <1>5, <1>7, <2>1, TypingOK
<1>11. OkWin(win') /\ MarkOK(mark') /\ Shown(win', e, mark') /\ ed' = e /\ TornOK
  <2>1. Showing(Retyped(win, ed.len, text), e)
    BY <1>2, <1>9
  <2>2. e.len = Len(text) /\ \A i \in 1..Len(text) : e.input[i] = text[i]
    BY <1>7, <1>10
  <2>. QED
    BY <1>10, <2>1, <2>2, ShowingOK
<1>12. KeptOK(entered', ed')
  BY <1>2, <1>7, <1>11 DEF GuiInv, KeptOK
<1>. QED
  BY <1>2, <1>8, <1>11, <1>12, EditedOK DEF GuiInv, HistOK

RecalledEd(e, f, h, text) ==
  /\ EdOK(f, h) /\ f.len = Len(text) /\ f.draft = e.draft
  /\ \A i \in 1..Len(text) : f.input[i] = text[i]

LEMMA RecalledOK ==
  ASSUME NEW e, NEW h, EdOK(e, h), NEW text \in GuiTexts, NEW f, f = Recalled(e, text)
  PROVE  RecalledEd(e, f, h, text)
<1>1. PICK buf, n : buf = Stored(e.input, text) /\ n = Len(text)
  OBVIOUS
<1>2. BufOK(buf) /\ \A i \in 1..n : buf[i] = text[i]
  BY <1>1, StoredOK DEF EdOK
<1>3. n \in 0..GuiLineMax /\ e \in Eds /\ \A i \in 1..n : text[i] \in GuiLetters
  BY <1>1, GuiConsts DEF GuiTexts, EdOK
<1>4. f = [e EXCEPT !.input = buf, !.len = n]
  BY <1>1 DEF Recalled
<1>5. f \in Eds /\ f.input = buf /\ f.len = n /\ f.histI = e.histI /\ f.draft = e.draft
  BY <1>2, <1>3, <1>4 DEF Eds, BufOK
<1>6. EdOK(f, h)
  BY <1>2, <1>3, <1>5 DEF EdOK
<1>. QED
  BY <1>1, <1>2, <1>5, <1>6 DEF RecalledEd

LEMMA KeptEdOK ==
  ASSUME NEW e, NEW h, EdOK(e, h), h \in Seq(Entries), h # <<>>, NEW f, f = Kept(e)
  PROVE  EdOK(f, h) /\ f.histI = 0 /\ \A i \in 1..e.len : f.draft[i] = e.input[i]
<1>1. PICK buf : buf = [i \in DOMAIN e.draft |-> IF i <= e.len + 1 THEN e.input[i] ELSE e.draft[i]]
  OBVIOUS
<1>2. /\ e \in Eds /\ e.input \in GuiBufs /\ e.draft \in GuiBufs /\ e.len \in 0..GuiLineMax
      /\ GuiLineMax \in Nat /\ DOMAIN e.draft = 1..GuiLineMax + 2
  BY EdIs, GuiConsts
<1>3. \A i \in 1..e.len : i \in 1..GuiLineMax + 2 /\ i <= e.len + 1
  BY <1>2
<1>4. buf \in GuiBufs /\ \A i \in 1..e.len : buf[i] = e.input[i]
  BY <1>1, <1>2, <1>3 DEF GuiBufs
<1>5. BufOK(buf)
  BY <1>1, <1>2, <1>4 DEF BufOK, EdOK
<1>6. PICK z \in Int : z = 0
  OBVIOUS
<1>7. /\ f \in Eds /\ f.input = e.input /\ f.len = e.len /\ f.histI = 0 /\ f.draft = buf
  <2>1. f = [e EXCEPT !.histI = z, !.draft = buf]
    BY <1>1, <1>6, Zenon DEF Kept
  <2>2. f \in Eds /\ f.input = e.input /\ f.len = e.len /\ f.histI = z /\ f.draft = buf
    BY <1>2, <1>4, <2>1 DEF Eds
  <2>. QED
    BY <1>6, <2>2
<1>8. 0 \in -1..Len(h) - 1
  <2>1. Len(h) \in Nat \ {0}
    BY EmptySeq
  <2>. QED
    BY <2>1
<1>9. EdOK(f, h)
  BY <1>5, <1>7, <1>8 DEF EdOK
<1>. QED
  BY <1>4, <1>7, <1>9

LEMMA EntryOK ==
  ASSUME GuiInv, NEW i \in 0..Len(hist) - 1  PROVE Entry(i) \in GuiTexts
<1>1. hist \in Seq(Entries)
  BY DEF GuiInv, HistOK
<1>2. Len(hist) - i \in 1..Len(hist)
  BY <1>1
<1>. QED
  BY <1>1, <1>2, ElementOfSeq DEF Entry, Entries

\* The line another one takes the place of.
LEMMA RecallOK ==
  ASSUME GuiInv, NEW e, EdOK(e, hist), NEW text \in GuiTexts,
         Showing(Retyped(win, ed.len, text), Recalled(e, text)),
         entered' \in [lines : Seq(Entries), kept : Seq(GuiLetters \cup {End})],
         entered'.lines = entered.lines, KeptOK(entered', e),
         UNCHANGED <<hist, prompting, running>>
  PROVE  GuiInv'
<1>1. PICK f : f = Recalled(e, text)
  OBVIOUS
<1>2. /\ EdOK(f, hist) /\ f.len = Len(text) /\ f.draft = e.draft
      /\ \A i \in 1..Len(text) : f.input[i] = text[i]
  <2>1. RecalledEd(e, f, hist, text)
    BY <1>1, RecalledOK, Zenon
  <2>. QED
    BY <2>1 DEF RecalledEd
<1>3. Showing(Retyped(win, ed.len, text), f)
  BY <1>1
<1>4. OkWin(win') /\ MarkOK(mark') /\ Shown(win', f, mark') /\ ed' = f /\ TornOK
  BY <1>2, <1>3, ShowingOK
<1>5. KeptOK(entered', f)
  BY <1>2 DEF KeptOK
<1>. QED
  BY <1>2, <1>4, <1>5, EditedOK

LEMMA LeftKeyOK ==
  ASSUME GuiInv, LeftKey  PROVE GuiInv'
<1>1. PICK e : e = IF ed.histI = -1 THEN Kept(ed)
                   ELSE IF ed.histI < Len(hist) - 1 THEN [ed EXCEPT !.histI = @ + 1] ELSE ed
  OBVIOUS
<1>2. /\ hist # <<>> /\ Showing(Retyped(win, ed.len, Entry(e.histI)), Recalled(e, Entry(e.histI)))
      /\ entered' = IF ed.histI = -1 THEN [entered EXCEPT !.kept = Typing(ed)] ELSE entered
      /\ UNCHANGED <<hist, prompting, running>>
  BY <1>1, Zenon DEF LeftKey
<1>3. /\ EdOK(ed, hist) /\ ed \in Eds /\ hist \in Seq(Entries) /\ ed.histI \in -1..Len(hist) - 1
      /\ entered \in [lines : Seq(Entries), kept : Seq(GuiLetters \cup {End})]
      /\ KeptOK(entered, ed) /\ Len(hist) \in Nat
  BY DEF GuiInv, HistOK, EdOK
<1>4. SUFFICES ASSUME TRUE
               PROVE  /\ EdOK(e, hist) /\ e.histI \in 0..Len(hist) - 1 /\ KeptOK(entered', e)
                      /\ entered' \in [lines : Seq(Entries), kept : Seq(GuiLetters \cup {End})]
                      /\ entered'.lines = entered.lines
  <2>1. Entry(e.histI) \in GuiTexts
    BY <1>4, EntryOK
  <2>. QED
    BY <1>2, <1>4, <2>1, RecallOK
<1>5. CASE ed.histI = -1
  <2>1. e = Kept(ed)
    BY <1>1, <1>5
  <2>2. EdOK(e, hist) /\ e.histI = 0 /\ \A i \in 1..ed.len : e.draft[i] = ed.input[i]
    BY <1>2, <1>3, <2>1, KeptEdOK
  <2>3. PICK text : text = Typing(ed)
    OBVIOUS
  <2>4. text \in GuiTexts /\ Len(text) = ed.len /\ \A i \in 1..ed.len : text[i] = ed.input[i]
    <3>1. ed.len \in 0..ed.len
      BY <1>3, EdIs
    <3>. QED
      BY <1>3, <2>3, <3>1, TypingOK DEF Typing
  <2>5. entered' = [entered EXCEPT !.kept = text]
    BY <1>2, <1>5, <2>3
  <2>6. text \in Seq(GuiLetters \cup {End})
    BY <2>4 DEF GuiTexts
  <2>7. /\ entered' \in [lines : Seq(Entries), kept : Seq(GuiLetters \cup {End})]
        /\ entered'.lines = entered.lines /\ entered'.kept = text
    BY <1>3, <2>5, <2>6
  <2>8. KeptOK(entered', e)
    BY <2>2, <2>4, <2>7 DEF KeptOK
  <2>9. 0 \in 0..Len(hist) - 1
    <3>1. Len(hist) # 0
      BY <1>2, <1>3, EmptySeq
    <3>. QED
      BY <1>3, <3>1
  <2>. QED
    BY <2>2, <2>7, <2>8, <2>9
<1>6. CASE ed.histI # -1 /\ ed.histI < Len(hist) - 1
  <2>1. PICK n : n = ed.histI + 1
    OBVIOUS
  <2>2. n \in Int /\ n \in 0..Len(hist) - 1 /\ n \in -1..Len(hist) - 1
    BY <1>3, <1>6, <2>1
  <2>3. e = [ed EXCEPT !.histI = n]
    BY <1>1, <1>6, <2>1
  <2>4. e \in Eds /\ e.len = ed.len /\ e.input = ed.input /\ e.draft = ed.draft /\ e.histI = n
    BY <1>3, <2>2, <2>3 DEF Eds
  <2>5. EdOK(e, hist)
    BY <1>3, <2>2, <2>4 DEF EdOK
  <2>6. entered' = entered
    BY <1>2, <1>6
  <2>7. KeptOK(entered', e)
    BY <1>3, <2>4, <2>6 DEF KeptOK
  <2>. QED
    BY <1>3, <2>2, <2>4, <2>5, <2>6, <2>7
<1>7. CASE ed.histI # -1 /\ ~(ed.histI < Len(hist) - 1)
  <2>1. e = ed /\ entered' = entered
    BY <1>1, <1>2, <1>7
  <2>2. ed.histI \in 0..Len(hist) - 1
    BY <1>3, <1>7
  <2>. QED
    BY <1>3, <2>1, <2>2
<1>. QED
  BY <1>5, <1>6, <1>7

LEMMA RightKeyOK ==
  ASSUME GuiInv, RightKey  PROVE GuiInv'
<1>1. PICK text, e : /\ text = IF ed.histI = 0 THEN CString(ed.draft) ELSE Entry(ed.histI - 1)
                     /\ e = [ed EXCEPT !.histI = @ - 1]
  OBVIOUS
<1>2. /\ ed.histI >= 0 /\ Showing(Retyped(win, ed.len, text), Recalled(e, text))
      /\ entered' = IF ed.histI = 0 THEN [entered EXCEPT !.kept = NoLine] ELSE entered
      /\ UNCHANGED <<hist, prompting, running>>
  BY <1>1, Zenon DEF RightKey
<1>3. /\ EdOK(ed, hist) /\ ed \in Eds /\ hist \in Seq(Entries) /\ ed.histI \in -1..Len(hist) - 1
      /\ entered \in [lines : Seq(Entries), kept : Seq(GuiLetters \cup {End})]
      /\ KeptOK(entered, ed) /\ Len(hist) \in Nat
  BY DEF GuiInv, HistOK, EdOK
<1>4. PICK n : n = ed.histI - 1
  OBVIOUS
<1>5. n \in Int /\ n \in -1..Len(hist) - 1 /\ (ed.histI # 0 => n \in 0..Len(hist) - 1)
  BY <1>2, <1>3, <1>4
<1>6. e = [ed EXCEPT !.histI = n]
  BY <1>1, <1>4
<1>7. e \in Eds /\ e.len = ed.len /\ e.input = ed.input /\ e.draft = ed.draft /\ e.histI = n
  BY <1>3, <1>5, <1>6 DEF Eds
<1>8. EdOK(e, hist)
  BY <1>3, <1>5, <1>7 DEF EdOK
<1>9. text \in GuiTexts
  <2>1. CASE ed.histI = 0
    BY <1>1, <1>3, <2>1, CStringOK DEF EdOK
  <2>2. CASE ed.histI # 0
    <3>1. text = Entry(n)
      BY <1>1, <1>4, <2>2
    <3>. QED
      BY <1>5, <2>2, <3>1, EntryOK
  <2>. QED
    BY <2>1, <2>2
<1>10. /\ entered' \in [lines : Seq(Entries), kept : Seq(GuiLetters \cup {End})]
       /\ entered'.lines = entered.lines /\ KeptOK(entered', e)
  <2>1. CASE ed.histI = 0
    <3>1. entered' = [entered EXCEPT !.kept = NoLine] /\ NoLine \in Seq(GuiLetters \cup {End})
      BY <1>2, <2>1 DEF NoLine
    <3>. QED
      BY <1>3, <3>1 DEF KeptOK
  <2>2. CASE ed.histI # 0
    <3>1. entered' = entered
      BY <1>2, <2>2
    <3>. QED
      BY <1>3, <1>7, <3>1 DEF KeptOK
  <2>. QED
    BY <2>1, <2>2
<1>. QED
  BY <1>2, <1>8, <1>9, <1>10, RecallOK

-----------------------------------------------------------------------------
(***************************************************************************)
(* The shell window: commands and prompts.                                 *)
(***************************************************************************)

LEMMA GuiTextsPrint ==
  ASSUME NEW text \in GuiOutputs \cup {GuiPrompt}  PROVE text \in Seq(GuiChars)
<1>1. text \in Seq(ToSet(text))
  BY GuiAssumption
<1>2. ToSet(text) \subseteq GuiChars
  BY DEF GuiChars
<1>. QED
  BY <1>1, <1>2

LEMMA PromptPrints == <<NewLine>> \o GuiPrompt \in Seq(GuiChars) /\ Refused \in Seq(GuiChars)
<1>1. GuiPrompt \in Seq(GuiChars)
  BY GuiTextsPrint
<1>2. NewLine \in GuiChars /\ "!" \in GuiChars
  BY DEF GuiChars
<1>3. <<NewLine>> \in Seq(GuiChars) /\ Refused \in Seq(GuiChars)
  BY <1>2 DEF Refused
<1>. QED
  BY <1>1, <1>3, ConcatProperties

LEMMA ClearedOK ==
  ASSUME NEW w, OkWin(w)  PROVE OkWin(Cleared(w))
<1>1. PICK buf, z : buf = BlankBuf /\ z = 0
  OBVIOUS
<1>2. buf \in WinBuf /\ \A r \in 0..BufRows - 1, c \in 0..BufCols - 1 : buf[r][c] = Blank
  BY <1>1, BlankLines
<1>3. z \in 0..BufRows - 1 /\ z \in 0..Far /\ z \in Nat /\ z <= Bot(z)
  <2>1. 0 <= Bot(0)
    BY GuiConsts DEF Bot
  <2>. QED
    BY <1>1, <2>1, GuiConsts
<1>4. PICK x : x = Cleared(w)
  OBVIOUS
<1>5. x = [w EXCEPT !.buf = buf, !.row = z, !.col = z, !.top = z]
  BY <1>1, <1>4 DEF Cleared
<1>6. x \in Wins(BufRows - 1) /\ x.buf = buf /\ x.row = z /\ x.col = z /\ x.top = z
  BY <1>2, <1>3, <1>5 DEF OkWin, Wins
<1>7. OkWin(x)
  BY <1>2, <1>3, <1>6 DEF OkWin, BlankFrom
<1>. QED
  BY <1>4, <1>7

\* A step that only prints: the line is not shown behind a prompt any more.
LEMMA PrintedOK ==
  ASSUME GuiInv, OkWin(win'), MarkOK(mark'), Shown(win', ed, mark'), TornOK,
         UNCHANGED <<ed, hist, entered>>, running' \in BOOLEAN, prompting' \in BOOLEAN
  PROVE  GuiInv'
  BY DEF GuiInv, TornOK

LEMMA PromptedOK ==
  ASSUME GuiInv, Prompted(win), ed' = ed
  PROVE  OkWin(win') /\ MarkOK(mark') /\ Shown(win', ed, mark') /\ TornOK
<1>1. PICK p : p = WmPuts(win, <<NewLine>> \o GuiPrompt)
  OBVIOUS
<1>2. OkWin(p)
  BY <1>1, PromptPrints, PutsOK DEF GuiInv
<1>3. PICK b : b = (ed.len = 0 /\ ~winTorn)
  OBVIOUS
<1>4. Shows(p) /\ mark' = [row |-> p.row, col |-> p.col, good |-> b]
  BY <1>1, <1>3 DEF Prompted
<1>5. p.row \in Nat /\ p.col \in Nat /\ b \in BOOLEAN
  BY <1>2, <1>3, GuiConsts DEF OkWin, Wins
<1>6. MarkOK(mark') /\ mark'.row = p.row /\ mark'.col = p.col /\ mark'.good = b
  BY <1>4, <1>5 DEF MarkOK
<1>7. ASSUME b  PROVE win' = p /\ Shown(p, ed, mark')
  <2>0. win' = p
    BY <1>2, <1>3, <1>4, <1>7, ShowsOK
  <2>1. ed.len = 0
    BY <1>3, <1>7, Zenon
  <2>2. p.col = p.col + ed.len /\ 1..ed.len = {}
    BY <1>5, <2>1
  <2>. QED
    BY <1>6, <2>0, <2>1, <2>2 DEF Shown
<1>8. Shown(win', ed, mark')
  BY <1>6, <1>7 DEF Shown
<1>9. OkWin(win') /\ winTorn' = winTorn
  BY <1>2, <1>4, ShowsOK
<1>10. TornOK
  BY <1>3, <1>6, <1>9 DEF TornOK, GuiInv
<1>. QED
  BY <1>6, <1>8, <1>9, <1>10

LEMMA AfterEnterOK ==
  ASSUME GuiInv, AfterEnter  PROVE GuiInv'
<1>1. UNCHANGED <<ed, hist, entered>> /\ running' \in BOOLEAN /\ prompting' \in BOOLEAN
  BY DEF AfterEnter, GuiInv
<1>2. OkWin(win') /\ MarkOK(mark') /\ Shown(win', ed, mark') /\ TornOK
  <2>1. CASE running \/ Spilled(win)
    BY <2>1 DEF AfterEnter, GuiInv, TornOK
  <2>2. CASE ~(running \/ Spilled(win))
    <3>1. Prompted(win)
      BY <2>2 DEF AfterEnter
    <3>. QED
      BY <1>1, <3>1, PromptedOK
  <2>. QED
    BY <2>1, <2>2
<1>. QED
  BY <1>1, <1>2, PrintedOK

LEMMA CommandEndsOK ==
  ASSUME GuiInv, CommandEnds  PROVE GuiInv'
<1>1. UNCHANGED <<ed, hist, entered>> /\ running' \in BOOLEAN /\ prompting' \in BOOLEAN
  BY DEF CommandEnds, NoKeyboard, GuiInv
<1>2. OkWin(win') /\ MarkOK(mark') /\ Shown(win', ed, mark') /\ TornOK
  <2>1. CASE Spilled(win)
    BY <2>1 DEF CommandEnds, GuiInv, TornOK
  <2>2. CASE ~Spilled(win)
    <3>1. Prompted(win)
      BY <2>2 DEF CommandEnds
    <3>. QED
      BY <1>1, <3>1, PromptedOK
  <2>. QED
    BY <2>1, <2>2
<1>. QED
  BY <1>1, <1>2, PrintedOK

\* The line's place is not marked good any more.
LEMMA MarkBadOK ==
  ASSUME MarkOK(mark), mark' = [mark EXCEPT !.good = FALSE], NEW w, NEW e
  PROVE  MarkOK(mark') /\ Shown(w, e, mark') /\ ~mark'.good
  BY DEF MarkOK, Shown

LEMMA CommandPrintsOK ==
  ASSUME GuiInv, CommandPrints  PROVE GuiInv'
<1>1. UNCHANGED <<ed, hist, entered>> /\ running' \in BOOLEAN /\ prompting' \in BOOLEAN
  BY DEF CommandPrints, NoKeyboard, GuiInv
<1>2. PICK text \in GuiOutputs : Shows(WmPuts(win, text))
  BY DEF CommandPrints
<1>3. OkWin(WmPuts(win, text))
  BY GuiTextsPrint, PutsOK DEF GuiInv
<1>4. OkWin(win') /\ winTorn' = winTorn
  BY <1>2, <1>3, ShowsOK
<1>5. MarkOK(mark') /\ Shown(win', ed, mark') /\ TornOK
  BY <1>4, MarkBadOK DEF CommandPrints, GuiInv, TornOK
<1>. QED
  BY <1>1, <1>4, <1>5, PrintedOK

LEMMA PrintsOverlapOK ==
  ASSUME GuiInv, PrintsOverlap  PROVE GuiInv'
<1>1. UNCHANGED <<ed, hist, entered>> /\ running' \in BOOLEAN /\ prompting' \in BOOLEAN
  BY DEF PrintsOverlap, NoKeyboard, GuiInv
<1>2. OkWin(win') /\ MarkOK(mark') /\ Shown(win', ed, mark') /\ TornOK
  BY MarkBadOK DEF PrintsOverlap, GuiInv, TornOK
<1>. QED
  BY <1>1, <1>2, PrintedOK

\* The line is ended where it is, and forgotten.
EndedEd(e, f, g) == EdOK(f, g) /\ f.draft = e.draft

LEMMA EndedEdOK ==
  ASSUME NEW e, NEW h, NEW g, EdOK(e, h), NEW i \in -1..Len(g) - 1,
         NEW f, f = [e EXCEPT !.input = [@ EXCEPT ![e.len + 1] = End], !.len = 0, !.histI = i]
  PROVE  EndedEd(e, f, g)
<1>1. PICK buf, z, n : /\ buf = [e.input EXCEPT ![n] = End] /\ z = 0 /\ n = e.len + 1
  OBVIOUS
<1>2. /\ e \in Eds /\ e.input \in GuiBufs /\ e.len \in 0..GuiLineMax /\ GuiLineMax \in Nat
      /\ DOMAIN e.input = 1..GuiLineMax + 2
  BY EdIs, GuiConsts
<1>3. n \in 1..GuiLineMax + 2 /\ z \in 0..GuiLineMax /\ i \in Int /\ 1..z = {}
  BY <1>1, <1>2
<1>4. /\ buf \in GuiBufs
      /\ \A j \in 1..GuiLineMax + 2 : buf[j] = IF j = n THEN End ELSE e.input[j]
  BY <1>1, <1>2, <1>3 DEF GuiBufs
<1>5. BufOK(buf)
  <2>1. GuiLineMax + 1 \in 1..GuiLineMax + 2 /\ GuiLineMax + 2 \in 1..GuiLineMax + 2
    BY <1>2
  <2>. QED
    BY <1>4, <2>1 DEF BufOK, EdOK
<1>6. f = [e EXCEPT !.input = buf, !.len = z, !.histI = i]
  BY <1>1
<1>7. f \in Eds /\ f.input = buf /\ f.len = z /\ f.histI = i /\ f.draft = e.draft
  BY <1>2, <1>3, <1>4, <1>6 DEF Eds
<1>. QED
  BY <1>3, <1>5, <1>7 DEF EdOK, EndedEd

LEMMA HistSaveOK ==
  ASSUME NEW cmd \in GuiTexts, HistOK(hist, entered), hist' = HistSave(hist, cmd),
         entered' = IF cmd = <<>> THEN entered
                    ELSE [lines |-> Append(entered.lines, cmd), kept |-> NoLine]
  PROVE  /\ HistOK(hist', entered')
         /\ cmd = <<>> => hist' = hist /\ entered' = entered
         /\ cmd # <<>> => entered'.kept = NoLine
<1>1. CASE cmd = <<>>
  BY <1>1 DEF HistSave
<1>2. CASE cmd # <<>>
  <2>1. cmd \in Entries /\ entered.lines \in Seq(Entries) /\ hist = Latest(entered.lines)
    BY <1>2 DEF Entries, HistOK
  <2>2. PICK lines : lines = Append(entered.lines, cmd)
    OBVIOUS
  <2>3. lines \in Seq(Entries) /\ hist' = Latest(lines)
    <3>1. HistSave(hist, cmd) = Latest(Append(entered.lines, cmd))
      BY <2>1, LatestAppend
    <3>2. Append(entered.lines, cmd) \in Seq(Entries)
      BY <2>1, AppendProperties
    <3>. QED
      BY <2>2, <3>1, <3>2
  <2>4. NoLine \in Seq(GuiLetters \cup {End})
    BY DEF NoLine
  <2>5. /\ entered' \in [lines : Seq(Entries), kept : Seq(GuiLetters \cup {End})]
        /\ entered'.lines = lines /\ entered'.kept = NoLine
    BY <1>2, <2>2, <2>3, <2>4
  <2>6. hist' \in Seq(Entries)
    BY <2>3, LatestProps
  <2>. QED
    BY <1>2, <2>3, <2>5, <2>6 DEF HistOK
<1>. QED
  BY <1>1, <1>2

LEMMA EnterKeyOK ==
  ASSUME GuiInv, EnterKey  PROVE GuiInv'
<1>1. PICK cmd, w : cmd = Typing(ed) /\ w = WmPutchar(win, NewLine)
  OBVIOUS
<1>2. /\ hist' = HistSave(hist, cmd)
      /\ entered' = IF cmd = <<>> THEN entered
                    ELSE [lines |-> Append(entered.lines, cmd), kept |-> NoLine]
      /\ ed' = [ed EXCEPT !.input = [@ EXCEPT ![ed.len + 1] = End], !.len = 0,
                          !.histI = IF cmd = <<>> THEN @ ELSE -1]
      /\ \/ Shows(w) \/ Shows(Cleared(w)) \/ Shows(WmPuts(w, Refused))
         \/ \E text \in GuiOutputs : Shows(WmPuts(w, text))
      /\ running' \in BOOLEAN
      /\ mark' = [mark EXCEPT !.good = FALSE] /\ prompting' = TRUE
  BY <1>1, Zenon DEF EnterKey, GuiInv
<1>3. OkWin(win') /\ winTorn' = winTorn
  <2>1. OkWin(w)
    BY <1>1, PutcharOK, GuiCharsHave DEF GuiInv
  <2>2. OkWin(Cleared(w)) /\ OkWin(WmPuts(w, Refused)) /\ \A text \in GuiOutputs : OkWin(WmPuts(w, text))
    BY <2>1, ClearedOK, PutsOK, PromptPrints, GuiTextsPrint
  <2>. QED
    BY <1>2, <2>1, <2>2, ShowsOK
<1>4. MarkOK(mark') /\ Shown(win', ed', mark') /\ TornOK
  BY <1>2, <1>3, MarkBadOK DEF GuiInv, TornOK
<1>5. EdOK(ed, hist) /\ ed.len \in 0..ed.len
  BY EdIs DEF GuiInv
<1>6. cmd \in GuiTexts
  BY <1>1, <1>5, TypingOK DEF Typing
<1>7. /\ HistOK(hist', entered')
      /\ cmd = <<>> => hist' = hist /\ entered' = entered
      /\ cmd # <<>> => entered'.kept = NoLine
  BY <1>2, <1>6, HistSaveOK DEF GuiInv
<1>8. PICK i : i = IF cmd = <<>> THEN ed.histI ELSE -1
  OBVIOUS
<1>9. i \in -1..Len(hist') - 1
  <2>1. Len(hist') \in Nat
    BY <1>7 DEF HistOK
  <2>. QED
    BY <1>5, <1>7, <1>8, <2>1 DEF EdOK
<1>10. ed' = [ed EXCEPT !.input = [@ EXCEPT ![ed.len + 1] = End], !.len = 0, !.histI = i]
  BY <1>2, <1>8, Zenon
<1>11. EdOK(ed', hist') /\ ed'.draft = ed.draft
  <2>1. EdOK(ed, hist)
    BY <1>5
  <2>2. EndedEd(ed, ed', hist')
    BY <1>9, <1>10, <2>1, EndedEdOK, Zenon
  <2>. QED
    BY <2>2 DEF EndedEd
<1>12. KeptOK(entered', ed')
  BY <1>7, <1>11 DEF KeptOK, GuiInv
<1>. QED
  BY <1>2, <1>3, <1>4, <1>7, <1>11, <1>12 DEF GuiInv, TornOK

-----------------------------------------------------------------------------
(***************************************************************************)
(* The shell window: what holds of it.                                     *)
(***************************************************************************)

LEMMA GuiInitOK ==
  ASSUME GuiInit  PROVE GuiInv
<1>1. PICK buf, z : buf = BlankBuf /\ z = 0
  OBVIOUS
<1>2. PICK w : w = [buf |-> buf, row |-> z, col |-> z, top |-> z]
  OBVIOUS
<1>3. OkWin(w)
  <2>1. buf \in WinBuf /\ \A r \in 0..BufRows - 1, c \in 0..BufCols - 1 : buf[r][c] = Blank
    BY <1>1, BlankLines
  <2>2. z \in 0..BufRows - 1 /\ z \in 0..Far /\ z \in Nat /\ z <= Bot(z)
    <3>1. 0 <= Bot(0)
      BY GuiConsts DEF Bot
    <3>. QED
      BY <1>1, <3>1, GuiConsts
  <2>3. w \in Wins(BufRows - 1) /\ w.buf = buf /\ w.row = z /\ w.col = z /\ w.top = z
    BY <1>2, <2>1, <2>2 DEF Wins
  <2>. QED
    BY <2>1, <2>2, <2>3 DEF OkWin, BlankFrom
<1>4. /\ win = WmPuts(w, GuiPrompt)
      /\ ed = [input |-> NoBuffer, len |-> 0, histI |-> -1, draft |-> NoBuffer]
      /\ hist = <<>> /\ running = FALSE /\ prompting = FALSE
      /\ entered = [lines |-> <<>>, kept |-> NoLine]
      /\ mark = [row |-> win.row, col |-> win.col, good |-> TRUE] /\ winTorn = FALSE
  BY <1>1, <1>2, Zenon DEF GuiInit
<1>5. OkWin(win) /\ win.row \in Nat /\ win.col \in Nat
  <2>1. OkWin(win)
    BY <1>3, <1>4, GuiTextsPrint, PutsOK
  <2>. QED
    BY <2>1, GuiConsts DEF OkWin, Wins
<1>6. BufOK(NoBuffer)
  BY GuiConsts DEF NoBuffer, BufOK, GuiBufs
<1>7. EdOK(ed, hist) /\ ed.len = 0
  <2>1. NoBuffer \in GuiBufs /\ 0 \in 0..GuiLineMax /\ -1 \in Int
    BY <1>6, GuiConsts DEF BufOK
  <2>2. ed \in Eds /\ ed.input = NoBuffer /\ ed.draft = NoBuffer /\ ed.len = 0 /\ ed.histI = -1
    BY <1>4, <2>1 DEF Eds
  <2>3. -1 \in -1..Len(hist) - 1 /\ 1..0 = {}
    BY <1>4
  <2>. QED
    BY <1>6, <2>2, <2>3 DEF EdOK
<1>8. HistOK(hist, entered)
  <2>1. <<>> \in Seq(Entries) /\ NoLine \in Seq(GuiLetters \cup {End}) /\ Len(<<>>) = 0
    BY DEF NoLine
  <2>2. entered \in [lines : Seq(Entries), kept : Seq(GuiLetters \cup {End})] /\ entered.lines = <<>>
    BY <1>4, <2>1
  <2>3. Latest(<<>>) \in Seq(Entries) /\ Len(Latest(<<>>)) = 0
    <3>1. ~(0 > GuiHistMax)
      BY GuiConsts
    <3>. QED
      BY <2>1, <3>1, LatestProps
  <2>4. Latest(<<>>) = <<>>
    BY <2>3, EmptySeq
  <2>. QED
    BY <1>4, <2>1, <2>2, <2>4 DEF HistOK
<1>9. KeptOK(entered, ed)
  BY <1>4 DEF KeptOK
<1>10. MarkOK(mark) /\ Shown(win, ed, mark)
  <2>1. MarkOK(mark) /\ mark.row = win.row /\ mark.col = win.col
    BY <1>4, <1>5 DEF MarkOK
  <2>2. win.col = win.col + ed.len /\ 1..ed.len = {}
    BY <1>5, <1>7
  <2>. QED
    BY <2>1, <2>2 DEF Shown
<1>. QED
  BY <1>4, <1>5, <1>7, <1>8, <1>9, <1>10 DEF GuiInv

LEMMA GuiStepOK ==
  ASSUME GuiInv, [GuiNext]_guiVars  PROVE GuiInv'
<1>1. CASE UNCHANGED guiVars
  BY <1>1 DEF guiVars, GuiInv
<1>2. CASE GuiNext
  BY <1>2, ScrollKeyOK, TypeKeyOK, BackspaceKeyOK, LeftKeyOK, RightKeyOK, EnterKeyOK,
     AfterEnterOK, CommandPrintsOK, PrintsOverlapOK, CommandEndsOK DEF GuiNext
<1>. QED
  BY <1>1, <1>2

LEMMA GuiInvIsTrue ==
  ASSUME GuiInv  PROVE GuiTrue
<1>1. /\ OkWin(win) /\ EdOK(ed, hist) /\ HistOK(hist, entered) /\ KeptOK(entered, ed)
      /\ MarkOK(mark) /\ Shown(win, ed, mark)
      /\ running \in BOOLEAN /\ prompting \in BOOLEAN
  BY DEF GuiInv
<1>2. /\ win.row \in 0..BufRows - 1 /\ win.col \in 0..Far /\ win.top \in Nat
      /\ win.top <= Bot(win.row) /\ BlankFrom(win.buf, win.row, win.col)
  BY <1>1 DEF OkWin, Wins
<1>3. GuiTypeOK
  BY <1>1, <1>2, EdIs DEF GuiTypeOK, EdOK
<1>4. ViewSound
  <2>1. Bottom(win) = Bot(win.row) /\ win.row \in Nat
    BY <1>2, GuiConsts DEF Bottom, Bot
  <2>2. Bot(win.row) \in Nat
    BY <2>1, BotGrows
  <2>. QED
    BY <1>2, <2>1, <2>2 DEF ViewSound
<1>5. WindowShowsLine
  BY <1>1, <1>2 DEF WindowShowsLine, Shown, BlankFrom
<1>6. WindowHistory
  BY <1>1 DEF WindowHistory, HistOK, Latest
<1>7. KeptLineBack
  <2>1. SUFFICES ASSUME entered.kept # NoLine  PROVE IsPrefix(entered.kept, CString(ed.draft))
    BY DEF KeptLineBack
  <2>2. PICK text, n : text = entered.kept /\ n = Len(text)
    OBVIOUS
  <2>3. text \in GuiTexts /\ \A i \in 1..n : ed.draft[i] = text[i]
    BY <1>1, <2>1, <2>2 DEF KeptOK
  <2>4. n \in 0..GuiLineMax /\ \A i \in 1..n : text[i] \in GuiLetters
    BY <2>2, <2>3, GuiConsts DEF GuiTexts
  <2>5. PICK s : s = CString(ed.draft)
    OBVIOUS
  <2>6. BufOK(ed.draft) /\ \A i \in 1..n : ed.draft[i] \in GuiLetters
    BY <1>1, <2>3, <2>4 DEF EdOK
  <2>7. s \in GuiTexts /\ n <= Len(s) /\ \A i \in 1..n : s[i] = ed.draft[i]
    BY <2>4, <2>5, <2>6, CStringOK
  <2>8. \A i \in 1..n : text[i] = s[i]
    BY <2>3, <2>7
  <2>. QED
    <3>1. Len(text) <= Len(s) /\ text \in Seq(GuiLetters) /\ s \in Seq(GuiLetters)
      BY <2>2, <2>3, <2>7 DEF GuiTexts
    <3>2. Len(SubSeq(s, 1, Len(text))) = Len(text)
          /\ \A i \in 1..Len(text) : SubSeq(s, 1, Len(text))[i] = s[i]
          /\ SubSeq(s, 1, Len(text)) \in Seq(GuiLetters)
      BY <3>1, <2>2, <2>4, GuiConsts
    <3>3. SubSeq(s, 1, Len(text)) = text
      BY <2>2, <2>8, <3>1, <3>2, SeqEqual
    <3>. QED
      BY <2>2, <2>5, <3>1, <3>3 DEF IsPrefix
<1>. QED
  BY <1>3, <1>4, <1>5, <1>6, <1>7 DEF GuiTrue

\* The shell window, for all its sizes, keys and outputs: its view and its line,
\* until two prints overlap, and its history, wherever they do (wm.c).
THEOREM GuiIsTrue == GuiSpec => []GuiTrue
<1>1. GuiInit => GuiInv
  BY GuiInitOK
<1>2. GuiInv /\ [GuiNext]_guiVars => GuiInv'
  BY GuiStepOK
<1>3. GuiInv => GuiTrue
  BY GuiInvIsTrue
<1>. QED
  BY <1>1, <1>2, <1>3, PTL DEF GuiSpec

=============================================================================
