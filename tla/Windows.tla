------------------------------ MODULE Windows ------------------------------
(***************************************************************************)
(* The desktop (wm.c): the window slots, the focus, the start menu, and    *)
(* the tasks the desktop starts: programs in windows of their own          *)
(* (wm_spawn_elf, elf_task_trampoline) and shell commands                  *)
(* (wm_shell_cmd_task).  The desktop's loop handles one click or key per   *)
(* step, but closes a window in two, with the tasks running in between; a  *)
(* task may run between any two of its own assignments.  Geometry and      *)
(* stacking are left out: a click may hit any open window, minimized ones  *)
(* included, as hit_window has it.                                         *)
(***************************************************************************)
EXTENDS Integers, FiniteSets, FiniteSetsExt

CONSTANTS
  NumSlots,     \* WM_MAX_WIN
  Panels,       \* the windows wm_run opens beside the shell's: info and demo
  TaskSlots,    \* the slots of the task table left for the desktop's tasks
  MaxMinimized, \* bound: windows minimized at a time
  MaxStrays     \* bound: windows that programs open or close themselves

ASSUME WindowsAssumption ==
  /\ NumSlots \in Nat \ {0} /\ Panels \in 0..NumSlots - 1
  /\ TaskSlots \subseteq Nat /\ MaxStrays \in Nat

Slots == 0..NumSlots - 1
None == -1
Unused == [pc |-> "unused", win |-> None, home |-> None, gfx |-> FALSE]
Dead == [pc |-> "dead", win |-> None, home |-> None, gfx |-> FALSE]

VARIABLES inGui,       \* wm_run is in its loop
          open,        \* the slots with alive set
          minimized,   \* the open slots with minimized set (wm_create clears it)
          focused,     \* wm_focused
          shellId,     \* wm_shell_id
          elfRunning,  \* elf_running
          elfOut,      \* wm_elf_out_win
          gfxActive,   \* wm_elf_gfx_active
          startOpen,   \* start_open
          cmdRunning,  \* wm_cmd_running
          tasks,       \* the desktop's tasks: where each is, its win_id, the window it
               \* was started with (the local win), was_gfx
          strays,      \* windows that programs opened or closed themselves
          closing,     \* the window whose tasks the loop has yet to kill
          outlived     \* history: flags set while their program's window was closed,
                       \* "out" and "gfx", and left behind when it was killed

winVars == <<open, minimized, focused, shellId>>
elfVars == <<elfRunning, elfOut, gfxActive>>
menuVars == <<startOpen, cmdRunning>>
closeVars == <<closing, outlived>>
windowVars == <<inGui, winVars, elfVars, menuVars, tasks, strays, closeVars>>

WindowsInit ==
  /\ inGui = FALSE /\ open = {} /\ minimized = {}
  /\ focused = None /\ shellId = None
  /\ elfRunning = FALSE /\ elfOut = None /\ gfxActive = FALSE
  /\ startOpen = FALSE /\ cmdRunning = FALSE
  /\ tasks = [t \in TaskSlots |-> Unused] /\ strays = 0
  /\ closing = None /\ outlived = {}

(* ---------------------------- entry and exit --------------------------- *)
\* wm_run opens the shell's window, then the panels; the menu, the
\* programs' flags and wm_cmd_running are as the last session left them.
EnterDesktop == /\ ~inGui /\ inGui' = TRUE
                /\ open' = 0..Panels /\ minimized' = {}
                /\ focused' = 0 /\ shellId' = 0
                /\ UNCHANGED <<elfVars, menuVars, tasks, strays, closeVars>>

\* wm_run's loop is between two clicks or keys.
InLoop == inGui /\ closing = None

Exit == /\ InLoop /\ inGui' = FALSE
        /\ open' = {} /\ minimized' = {} /\ focused' = None /\ shellId' = None
        /\ elfRunning' = FALSE /\ elfOut' = None /\ gfxActive' = FALSE
        /\ tasks' = [t \in TaskSlots |-> IF tasks[t].pc = "unused" THEN Unused ELSE Dead]
        /\ outlived' = {}
        /\ UNCHANGED <<cmdRunning, strays, closing>>

\* The loop takes keys while the focus and the shell's window agree, which they
\* also do when there is neither.
TakesKeys == InLoop /\ focused = shellId

\* "exit" typed in the shell; the menu's item, which the loop acts on at the
\* start of its next pass.
ExitCommand == TakesKeys /\ Exit /\ UNCHANGED startOpen
ExitItem == startOpen /\ Exit /\ startOpen' = FALSE

(* ------------------------------- windows ------------------------------- *)
FreeSlots == Slots \ open
NewSlot == Min(FreeSlots)                    \* wm_create takes the first
Home == IF shellId # None THEN shellId ELSE None
SameTasks == UNCHANGED <<inGui, elfVars, tasks, strays, cmdRunning, closeVars>>

\* A window's button in the taskbar focuses and restores it.
TaskbarClick(w) == /\ InLoop /\ w \in open
                   /\ minimized' = minimized \ {w} /\ focused' = w
                   /\ startOpen' = FALSE
                   /\ SameTasks /\ UNCHANGED <<open, shellId>>

\* A click on a window's title bar, or inside it; on its minimize button; on
\* the desktop.
WindowClick(w) == /\ InLoop /\ w \in open
                  /\ focused' = w
                  /\ startOpen' = FALSE
                  /\ SameTasks /\ UNCHANGED <<open, minimized, shellId>>
Minimize(w) == /\ InLoop /\ w \in open /\ Cardinality(minimized \cup {w}) <= MaxMinimized
               /\ minimized' = minimized \cup {w}
               /\ focused' = (IF w = shellId THEN None ELSE Home)
               /\ startOpen' = FALSE
               /\ SameTasks /\ UNCHANGED <<open, shellId>>
DesktopClick == /\ InLoop
                /\ focused' = None /\ startOpen' = FALSE
                /\ SameTasks /\ UNCHANGED <<open, minimized, shellId>>
\* Closing any other window than the shell's first takes the running program's
\* flags; then, with the scheduler locked, it kills the tasks bound to the window.
\* What such a task sets in between outlives it.
\* Mutant of Killed: the tasks of a window that is closed go on.
KilledNone(w) == tasks
Killed(w) == [t \in TaskSlots |-> IF tasks[t].win = w THEN Dead ELSE tasks[t]]
CloseShell(w) == /\ InLoop /\ w \in open /\ w = shellId
                 /\ open' = open \ {w} /\ minimized' = minimized \ {w}
                 /\ shellId' = None /\ focused' = None
                 /\ startOpen' = FALSE
                 /\ SameTasks 
CloseWindow(w) == /\ InLoop /\ w \in open /\ w # shellId
                  /\ open' = open \ {w} /\ minimized' = minimized \ {w}
                  /\ focused' = Home
                  /\ elfRunning' = FALSE /\ gfxActive' = FALSE /\ elfOut' = None
                  /\ startOpen' = FALSE
                  /\ closing' = w /\ outlived' = {}
                  /\ UNCHANGED <<inGui, shellId, cmdRunning, tasks, strays>>
Bound(w) == {t \in TaskSlots : tasks[t].win = w}
Uncleared == {t \in TaskSlots : tasks[t].pc \in {"run", "out"}}
InPixels == {t \in TaskSlots : tasks[t].pc \in {"run", "out", "gfx"}}
KillTasks ==
  LET out == \E t \in Bound(closing) \cap Uncleared : tasks[t].home = elfOut
      gfx == gfxActive /\ Bound(closing) \cap InPixels # {}
  IN /\ closing # None /\ closing' = None
     /\ tasks' = Killed(closing)
     /\ outlived' = outlived \cup (IF out THEN {"out"} ELSE {}) \cup (IF gfx THEN {"gfx"} ELSE {})
     /\ UNCHANGED <<inGui, winVars, elfVars, menuVars, strays>>

\* Alt+Tab is read by the desktop only while the shell has the focus: the next
\* open window after it that is not minimized.
After(w) == {n \in 1..NumSlots - 1 : (w + n) % NumSlots \in open \ minimized}
AltTab == /\ TakesKeys
          /\ LET from == IF focused = None THEN 0 ELSE focused
             IN focused' = IF After(from) = {} THEN focused
                           ELSE (from + Min(After(from))) % NumSlots
          /\ SameTasks /\ UNCHANGED <<startOpen, open, minimized, shellId>>

(* ----------------------------- start menu ------------------------------ *)
StartButton == /\ InLoop /\ startOpen' = ~startOpen
               /\ SameTasks /\ UNCHANGED winVars
\* A header, a separator, or a command that the loop carries out itself.
OtherItem == /\ InLoop /\ startOpen /\ startOpen' = FALSE
             /\ SameTasks /\ UNCHANGED winVars

\* "Open Shell" focuses the shell's window or opens one.
OpenShell == /\ InLoop /\ startOpen /\ startOpen' = FALSE
             /\ IF shellId # None /\ shellId \in open
                THEN /\ minimized' = minimized \ {shellId} /\ focused' = shellId
                     /\ UNCHANGED <<open, shellId>>
                ELSE IF FreeSlots = {} THEN UNCHANGED <<open, minimized, focused, shellId>>
                ELSE /\ open' = open \cup {NewSlot} /\ UNCHANGED minimized
                     /\ shellId' = NewSlot /\ focused' = NewSlot
             /\ SameTasks 

(* ------------------------------- programs ------------------------------ *)
\* task_spawn takes slots in order and never takes one a second time.
FreeTasks == {t \in TaskSlots : tasks[t].pc = "unused"}
NewTask == Min(FreeTasks)

\* wm_spawn_elf, typed in the shell or picked from the menu: the window, the
\* focus and elf_running first; they stay taken back only in part when no task
\* slot is left.
Spawn(typed) ==
  /\ InLoop /\ ~elfRunning /\ FreeSlots # {}
  /\ IF typed THEN TakesKeys /\ startOpen' = startOpen
     ELSE startOpen /\ startOpen' = FALSE
  /\ focused' = NewSlot
  /\ IF FreeTasks = {}
     THEN open' = open /\ elfRunning' = FALSE /\ UNCHANGED tasks
     ELSE /\ open' = open \cup {NewSlot} /\ elfRunning' = TRUE
          /\ tasks' = [tasks EXCEPT ![NewTask] = [pc |-> "start", win |-> NewSlot,
                                                    home |-> NewSlot, gfx |-> FALSE]]
  /\ UNCHANGED <<inGui, minimized, shellId, elfOut, gfxActive, cmdRunning, strays, closeVars>>

\* elf_task_trampoline: one assignment, or elf_exec, at a time.
Task(t, from, to) == tasks[t].pc = from /\ tasks' = [tasks EXCEPT ![t].pc = to]
SameDesktop == UNCHANGED <<inGui, winVars, menuVars, strays, closing>>
Owned(flag) == outlived' = outlived \ {flag}
Begin(t) == /\ Task(t, "start", "run") /\ elfOut' = tasks[t].home
            /\ Owned("out") /\ SameDesktop /\ UNCHANGED <<elfRunning, gfxActive>>
\* SYS_WIN_GFX_INIT
GfxInit(t) == /\ tasks[t].pc = "run" /\ tasks[t].win \in open /\ gfxActive' = TRUE
              /\ Owned("gfx") /\ SameDesktop /\ UNCHANGED <<elfRunning, elfOut, tasks>>
\* SYS_WIN_CREATE moves the program to a window of its own making, behind the
\* others; SYS_WIN_CLOSE closes the program's window, whichever it is.
SysWindow(t) == /\ tasks[t].pc = "run" /\ strays < MaxStrays /\ strays' = strays + 1
                /\ UNCHANGED <<inGui, focused, shellId, elfVars, menuVars, closeVars>>
WinCreate(t) == /\ FreeSlots # {} /\ SysWindow(t)
                /\ open' = open \cup {NewSlot} /\ UNCHANGED minimized
                /\ tasks' = [tasks EXCEPT ![t].win = NewSlot]
WinClose(t) == /\ tasks[t].win # None /\ SysWindow(t)
               /\ open' = open \ {tasks[t].win} /\ minimized' = minimized \ {tasks[t].win}
               /\ tasks' = [tasks EXCEPT ![t].win = None]
Returned(t) == /\ tasks[t].pc = "run"
               /\ tasks' = [tasks EXCEPT ![t].pc = "out", ![t].gfx = gfxActive]
               /\ elfRunning' = FALSE
               /\ SameDesktop /\ UNCHANGED <<elfOut, gfxActive, outlived>>
ClearOut(t) == /\ Task(t, "out", "gfx") /\ elfOut' = None
               /\ Owned("out") /\ SameDesktop /\ UNCHANGED <<elfRunning, gfxActive>>
ClearGfx(t) == /\ Task(t, "gfx", "close") /\ gfxActive' = FALSE
               /\ Owned("gfx") /\ SameDesktop /\ UNCHANGED <<elfRunning, elfOut>>
\* A pixel program's window closes, a text program's stays to be read.
Finish(t) ==
  LET w == tasks[t].home
      gone == IF w \in open /\ tasks[t].gfx THEN {w} ELSE {}
  IN /\ Task(t, "close", "exit")
     /\ open' = open \ gone /\ minimized' = minimized \ gone
     /\ focused' = IF focused = w /\ w \in open /\ (gone # {} \/ shellId # None)
                   THEN Home ELSE focused
     /\ UNCHANGED <<inGui, shellId, elfVars, menuVars, strays, closeVars>>
TaskExit(t) == /\ tasks[t].pc = "exit" /\ tasks' = [tasks EXCEPT ![t] = Dead]
               /\ SameDesktop /\ UNCHANGED <<elfVars, outlived>>

(* -------------------------- background commands ------------------------ *)
\* A command typed in the shell runs in a task of its own, or in the loop when
\* no slot is left; while one runs another is refused.
StartCommand == /\ TakesKeys
                /\ ~cmdRunning /\ FreeTasks # {}
                /\ cmdRunning' = TRUE
                /\ tasks' = [tasks EXCEPT ![NewTask].pc = "command"]
                /\ UNCHANGED startOpen /\ UNCHANGED <<inGui, winVars, elfVars, strays, closeVars>>
CommandDone(t) == /\ Task(t, "command", "exit") /\ cmdRunning' = FALSE
                  /\ UNCHANGED startOpen /\ UNCHANGED <<inGui, winVars, elfVars, strays, closeVars>>

WindowsNext ==
  \/ EnterDesktop \/ ExitCommand \/ ExitItem
  \/ \E w \in Slots : \/ TaskbarClick(w) \/ WindowClick(w) \/ Minimize(w)
                      \/ CloseShell(w) \/ CloseWindow(w)
  \/ KillTasks \/ DesktopClick \/ AltTab
  \/ StartButton \/ OtherItem \/ OpenShell
  \/ \E typed \in BOOLEAN : Spawn(typed)
  \/ \E t \in TaskSlots : \/ Begin(t) \/ GfxInit(t) \/ WinCreate(t) \/ WinClose(t) \/ Returned(t)
                          \/ ClearOut(t) \/ ClearGfx(t) \/ Finish(t) \/ TaskExit(t) \/ CommandDone(t)
  \/ StartCommand

WindowsSpec == WindowsInit /\ [][WindowsNext]_windowVars

(* ------------------------------ properties ----------------------------- *)
Programs == {t \in TaskSlots : tasks[t].pc \in {"start", "run"}}

WindowsTypeOK == /\ open \subseteq Slots /\ minimized \subseteq open
                 /\ {focused, shellId, elfOut, closing} \subseteq Slots \cup {None}
                 /\ \A t \in TaskSlots : tasks[t].win \in Slots \cup {None}

\* As long as programs keep to the window they were started with, one that runs
\* has its window, to itself, unless that is being closed: closing the window
\* ends every task bound to it, so the slot's next owner shares it with nobody.
OwnWindow == strays = 0 =>
             /\ \A t \in Programs : tasks[t].win \in open \cup ({closing} \ {None})
             /\ \A t, u \in Programs : tasks[t].win = tasks[u].win => t = u

\* The shell's window is open as long as output is sent to it, and no program
\* has it.
ShellOpen == strays = 0 /\ shellId # None =>
               shellId \in open /\ \A t \in Programs : tasks[t].win # shellId

\* elf_running ends with its program, however it ends, so it never blocks the
\* next one.  So do the output window and pixel mode, so that the shell's output
\* is not sent to a dead window, unless the program set them between the two
\* halves of the click that closed its window (wm.c:1003 and 1008).
FlagsEnd == /\ elfRunning => Programs # {}
            /\ elfOut # None /\ "out" \notin outlived => \E t \in Uncleared : tasks[t].home = elfOut
            /\ gfxActive /\ "gfx" \notin outlived => InPixels # {}

\* The desktop's slots, flags and tasks agree (wm.c).
DesktopSound == WindowsTypeOK /\ OwnWindow /\ ShellOpen /\ FlagsEnd

=============================================================================
