# IronKernel in TLA+

IronKernel is a 64-bit hobby kernel (`src/src/kernel`, `src/src/drivers`,
`src/src/boot`): a preemptive round-robin scheduler, ELF programs with `fork`,
`exec`, `waitpid` and pipes, a FAT32 disk, a window manager and a small network
stack.  This directory holds TLA+ modules translated from that code, TLC
configurations that check them on small instances, and TLAPS proofs of the most
important facts for instances of every size.  Paths below are relative to the
repository; `sched.c:204` means line 204 of that file.

Contents: [inventory](#inventory) · [modules](#modules) · [runs](#runs) ·
[fairness and deadlock](#fairness-and-deadlock) · [proofs](#proofs) ·
[where code and comments disagree](#where-code-and-comments-disagree) ·
[known limits](#known-limits-that-the-models-exclude) ·
[not modelled](#not-modelled) · [plan](#plan)

To repeat a run: `tlc -config tasks_killed.cfg MCTasks.tla`.  To repeat a
proof: `tlapm TasksProofs.tla`.

## Inventory

One CPU.  Interrupt gates clear IF, so the code of an `int 0x80` handler runs
alone until it says `sti`; the kernel proper (boot, window manager, shell
commands) runs with interrupts on and the PIT may switch tasks at any
instruction.  The kernel is compiled with `-O0`, so memory accesses happen in
the order of the source.  `sched_lock` makes `sched_tick` return at once.

| Component | State | Operations | Interacts with | What is hard | What makes it correct |
|---|---|---|---|---|---|
| Scheduler, task table (`sched.c`, `switch.asm`, `pit.c`) | `tasks[32]`, `task_count`, `current_task`, `sched_locked` | `task_spawn`, `task_exit`, `sched_fork`, `sched_tick`, `sched_lock/unlock` | called by everything; by the PIT at any time | preemption; slots that are recycled; a table at its limit; fork failing half way | one task runs; every schedulable slot has a saved context and two stacks of its own; nobody starves |
| Program life cycle (`elf.c`, `usermode.asm`, `syscall.c`, `idt.c`) | `cr3` per task, one `saved_kernel_rsp` for the machine | `elf_exec`, SYS_EXIT, FORK, WAITPID, EXEC, ring-3 faults | frames and page tables, scheduler, window manager | a single saved context; waitpid polls with interrupts on; kills at any point | a page table is owned by one program, freed once and not while used; exit returns to its own `elf_exec`; waitpid reaps an exited child of its own |
| Pipes and descriptors (`pipe.c`, `syscall.c`, `sched.c`) | `g_pipes[16]`, `fds[16]` per task | SYS_PIPE, DUP2, CLOSE, READ(_FD), WRITE(_FD); fork inherits, exit closes | task slots, scheduler | unlocked head and tail; counts through fork, dup2, close, exit; a reader that must learn of the end | FIFO, no byte lost or invented; counts are exact; end of file is neither early nor missing |
| Physical frames, page tables (`pmm.c`, `vmm.c`, `elf.c`) | bitmap and count of frames, page tables | alloc, free, create, map, clone and free a user space | program life cycle, heap | out of memory between any two pages; tables shared with the kernel; a free that trusts its caller | a frame has one owner; kernel mappings survive; what a program took comes back |
| FAT32 (`fat32.c`) | FAT in memory and twice on disk, `g_io_buf`, working directory | write, read, mkdir, delete, rename, readdir, chdir | shell commands (preemptible) and system calls | power cuts between sectors, failing transfers, a full disk, a shared buffer | a call has its whole effect or none; chains are disjoint and end; nothing reported written is lost |
| Window manager (`wm.c`) | window slots, focus, `elf_running`, `wm_elf_out_win`, `wm_elf_gfx_active`, `wm_cmd_running`, the shell window's buffer, line and history | clicks, keys, start menu, spawn and kill tasks, route output | scheduler, keyboard, mouse | kills a task wherever it is; flags set and cleared one by one by another task | a program that runs has its window to itself; flags end with their program; the window shows the line that Enter runs |
| Kernel heap (`heap.c`) | block headers, leak table | `kmalloc`, `kfree` | everything | callers with interrupts on; splitting and joining | blocks tile the heap; memory is handed out once; the leak table lists what is live |
| Keyboard, mouse (`keyboard.c`, `mouse.c`) | character ring, modifier and prefix flags; packet phase, pointer | IRQ callback, `keyboard_getchar`, `mouse_poll` | window manager, SYS_READ, shell | IRQ between any two accesses of a reader; prefix and key in two interrupts; packets cut by polls | characters are those typed, in order, up to a full ring; no modifier sticks; the pointer is where the packets put it |
| TCP client (`tcp.c`) | one connection, one segment to retransmit | connect, send, recv, pump, close, `http_get` | IP, PIT ticks | lost and repeated segments, segments of an older connection; stale retransmission state | bytes in order, once; the request is kept until the server has it; every call ends |
| ARP, IP, UDP, ICMP, DHCP, DNS (`arp.c`, `ip.c`, `dhcp.c`, `dns.c`) | caches, one UDP listener, one exchange at a time | resolve, send, receive | card, TCP | late and duplicated answers, timeouts | an answer is used for its own question only |
| Network card, PCI (`e1000.c`, `pci.c`) | 8 + 8 descriptors | send, receive | hardware | ring at its limit | no descriptor used by both sides |
| ATA (`ata.c`) | none | read and write a sector | FAT32 | errors, timeouts | a sector transferred or an error |
| Shell, browser (`shell.c`, `browser.c`) | line editor, pages | commands | FAT32, ELF, network | multi-step file commands | `cp`, `mv`, `mkdir -p` keep the files |
| Console (`vga.c`), text shell's editor (`shell.c`) | grid, scrollback ring, line, history | print, scroll, keys | shell, programs | limits of three rings; repainting from a saved position | the screen shows the line that Enter runs; scrollback and history keep what came last |
| Panic, log, sound, boot, FAT12 | devices | output, start-up | — | little concurrency | — |

How they interact: by direct calls, by shared tables (`tasks`, `g_pipes`, the
kernel's page tables, `g_io_buf`) and by interrupts.  There are no messages
inside the kernel.  `PROJECT.json` lists the components with their status, and
under `hazards` the places where they can go wrong, each with the properties
that look for it.

## Modules

| Module | Models | Lines |
|---|---|---|
| `Tasks` | task table, scheduler, fork/exec/exit/wait, saved context, window manager's spawns and kills | 564 |
| `TasksProofs` | proof of `TypeOK`, of the inductive invariant and the safety properties; without rare events, that nothing leaks and every waiter has a child | 1451 |
| `ByteChannel` | abstract: a FIFO with an end of file | 42 |
| `PipeRing` | one pipe, access by access | 211 |
| `PipeProofs` | proofs about both: the ring's invariant, end of file, refinement of `ByteChannel`; exact counts and the end of file they promise | 2180 |
| `PipeFds` | descriptors and reference counts of all tasks | 339 |
| `AddressSpace` | frames and page tables, page by page | 342 |
| `SpacesProofs` | proofs that memory is sound, forks copy all, and how much can be lost | 2153 |
| `Volume` | abstract: a tree of directories changed atomically | 62 |
| `Fat32` | the FAT32 driver, sector transfer by sector transfer | 708 |
| `Fat32Invs` | the driver's inductive invariants | 294 |
| `Fat32Proofs` | proofs of `ChainsSound` and `NothingLost`, of the refinement of `Volume`, and of what reads and listings return | 9315 |
| `Tcp` | the TCP client and `http_get`, a server and a lossy wire | 353 |
| `Net` | ARP cache, ping, UDP listener, DNS, DHCP, as the shell's commands run them | 381 |
| `Nic` | the network card's descriptor rings, store by store | 132 |
| `NetworkProofs` | proofs that TCP's bytes come in order, once, and the request is kept; that answers are used for their own questions, the cache is fresh, and the rings keep frames in order | 5043 |
| `Keyboard` | scancodes, the interrupt handler, the character ring and its readers | 237 |
| `Mouse` | packets, polls byte by byte, start and stop | 115 |
| `Input` | the two devices together, `InputTrue` | 15 |
| `Windows` | window slots, focus, start menu, programs and commands with their flags | 282 |
| `GuiShell` | the shell window's buffer, view, line editor, history | 259 |
| `DesktopProofs` | invariants of the windows, the keyboard, the mouse and the shell window, proofs of `DesktopSound`, `InputTrue` and `GuiTrue` | 4335 |
| `Console` | the text grid with scrollback, the text shell's line editor and history | 328 |
| `FileCmds` | `edit`, `write`, `touch`, `rm`, `cp`, `mv`, `mkdir`, `cd` over the tree of `Volume` | 232 |
| `ShellProofs` | invariants of `Console` and `FileCmds`, proofs of `ShellTrue` and `FilesKept` | 4729 |
| `Heap` | first fit, split, join, leak table | 161 |
| `HeapProofs` | proof of `HeapSound` | 1173 |
| `MCTasks`, `MCResources`, `MCAddressSpace`, `MCFat32`, `MCNetwork`, `MCMachine` | instances for TLC | |

Operators named `...` after "Mutant of" in a comment are deliberately wrong
variants of a definition.  Nothing uses them; substituting one for the original
must make a named property fail, which shows that the property depends on that
piece of the code.

### Tasks

`tasks[i]`'s fields are functions on `Slots`: `state`, `forked` (`is_forked`),
`parent`, `code` (`exit_code`), `cr3`, `stack`, `irq` (`irq_stack`).  The saved
`rsp` is abstracted to `pc`, what the thread does when it is resumed: in its
program (`user`), polling in waitpid (`wait`), about to reap (`reap`), inside
`elf_exec` before or after its program (`elf`, `tail`), a shell command
(`cmd`), task 0 (`shell`), gone (`exited`), or, for a slot whose stack was never
set up, `stale`.  `spaces` and `heap` are the allocated page tables and stack
blocks, `saved` is the task whose frame `saved_kernel_rsp` points into.

Code between `cli` and `sti`, inside an interrupt gate or between `sched_lock`
and `sched_unlock` is one action; between two actions interrupts are on and
`Tick` (`sched_tick`) may happen.  SYS_WAITPID is therefore three actions:
`Wait` finds the child, `WaitSees` reads its state, `Reap` tears it down with
interrupts off.  Two things the reader should know when comparing: `ElfExec`
stands for `sched_lock ... user_mode_enter` in one step, although the lock is given
back and interrupts are on for the prints before `user_mode_enter` (`elf.c:203-207`),
where the task holds all that `user` holds except the saved context, which nobody else
needs then; and execution is followed only up to the first step on freed
memory (`CanRun` in the guards), since what happens after that is not
defined by the source.

The window manager appears as the environment it is for this component:
`SpawnElf`, `SpawnCmd`, `CloseWindow`, `CloseOther`, `EnterGui` and `LeaveGui` are
actions of task 0.  Rare events are switched on by the constant `Events`, so
that a property can be checked with exactly the events under which the code
keeps it.

### ByteChannel, PipeRing, PipeFds

`PipeRing` has one action per access to `head`, `tail` and `buf` of
`pipe_write` and `pipe_read`, and one per test of the waiting loops of
SYS_WRITE_FD and SYS_READ_FD.  `sent` and `got` record what was written and
read.  `Implements` states that with one writer it refines `ByteChannel`,
with the ring's contents as the channel's queue.

`PipeFds` keeps only the number of bytes in each pipe and looks at who holds
which end: SYS_PIPE, DUP2 and CLOSE are one action each (interrupts off); a
waiting read or write is split where `sti` lets others in (`ReadFdBegin`,
`StdinBegin`, `WriteBegin`, then `Moving`).  Fork copies descriptors and adds
to the counts, a fork child's exit gives them back, a reaped slot is recycled.

### AddressSpace

`pmm.c`'s bitmap is the set `free`, its counter is kept apart as `free_count`
because the code keeps both.  `tables` is what each page-table frame maps,
`spaces` is each address space by its PML4.  An operation that walks pages
(`elf_exec`, SYS_EXEC, `vmm_clone_user_pt`) is a first action that takes the
three top frames, one `MapPage` per page and a last action; it can fail at each
of them (`OutOfFrames`, `NoFrame`, `NoTable`, `NoStack`) as the code's error
paths do.  No two operations overlap in the code (scheduler locked or
interrupts off), so `op` is one record.

The kernel's own table is that of `heap_init`: huge pages, two of which the
heap and its guard page have split into tables which every process shares.

### Volume and Fat32

`Volume` is what the callers of the driver rely on: a tree whose every change
is one step.  `Fat32` goes from one transfer to the next.  `fat` is
`g_fat_buf`, `disk_fat` the two copies on the disk, `sector` the data area,
`g_io_buf` the buffer all calls share, `cwd` the cluster, stack and path of the
working directory.  `op[c].pc` says which transfer caller `c` makes next:

| pc | Code |
|---|---|
| `find`, `entry` | `fat32_find_entry`, then the entry's sector again |
| `data` | the loop of `fat32_write_file` over clusters |
| `newdir`, `zero`, `dots`, `dotted` | `fat32_mkdir`'s own cluster |
| `flush` | `fat32_flush_fat`, each sector to copy 1 and to copy 2 |
| `slot`, `extend` | `fat32_find_free_slot` |
| `reread`, `commit` | the entry's sector is read, changed and written |
| `read`, `list`, `walk` | `fat32_read_file`, `fat32_readdir`, `fat32_chdir` |

`tree` is a history variable: the tree on the volume as of the last time a call
returned or the machine was restarted, computed by `TreeOf` from the sectors
alone.  It is the refinement mapping: `ImplementsVolume` says that `tree` moves
only by `Volume`'s steps, `ReturnsTruth` that it moves exactly when a call
returns 0, and then as asked (`AsAsked`).  It has one exception.  The search for
a free slot takes a sector it cannot read for a full one (`fat32.c:347`,
`fat32.c:392-416`; `Misread`) and extends the directory; if the sector held the
end mark, the chain now goes on behind it (`Holed`), and the entry is written
where no search comes: the call returns 0 and the file is not found.  When the
sector before it fills up, the lost entries come to light.  `ReturnsTruth` allows
this where there is such a hole, and only there; that what was there before stays
is claimed there too (`OthersStay`).

A sector of file data that would be used as a directory stops the model: the
guards `IsTable` fail and TLC reports a deadlock, so `fat32` also shows that
every cluster of a directory was cleared before it was used.

Abstractions: a cluster is one sector; a file is a sequence of blocks and its
size is counted in blocks; a transfer is atomic and one that fails has not
touched the sector (`ata.c` returns -1 before it transfers data; the error it
reports after the cache flush is not looked at by the driver); names are
already in 8.3 form; the 65536-step limits on chains, long-name and label
entries of volumes made elsewhere, and `max_entries` of readdir are left out;
`cd -` changes nothing in the code (it saves the current directory over the
previous one before it goes there) and is left out.  Cluster 0, which the code
accepts for the root, is the root.

### Tcp, Net, Nic

The network stack has no threads: a command asks, and polls the card until an
answer passes its tests or the time is over.  `Tcp` is `tcp.c` with `http_get`:
`tcb` holds `g_tcp`, the receive buffer and `g_retx`; one pass of a polling loop
(`pump`, `tcp_recv_frame`, `retx_check`) is one action (`ConnectPoll`,
`RecvPoll`), which takes at most one frame.  The segments a pass sends go to
`up`.  The server and the wire are the environment: segments to the server are
lost and repeated, SYN+ACKs are lost, the server resets, the task that runs the
command is killed, and what an earlier connection left in flight arrives later
(`Stray`, `Mine`).  A source port stands for a connection, and sequence numbers
are taken modulo `SeqSpace`, so that they wrap.  The server answers a request
once and in order, and the wire keeps it so: the client compares no sequence number of
data it receives (`tcp.c:175`), so data that is lost, repeated or overtaken breaks
`InOrder` at once.  What `InOrder` and `ReceivedInOrder` claim is limited to that.

`Net` follows one command at a time (`call`): resolve an address (`arp`), then
wait for an echo, a DNS answer, an offer or an ACK.  `asked` is what the other
hosts may answer, once, twice, late or never; `ring` is what the card holds,
read by whoever polls next, also by the next command.  `Move` lets a host change
its card.  Frames carry, for the properties only, the command that asked.

`Nic` splits `e1000_recv` and `e1000_send` at their stores to descriptors and
registers; the card receives and transmits in between.

### Keyboard, Mouse

`Press` and `Release` put a key's bytes on the wire; `Callback` is
`keyboard_callback` for one byte.  It may come between any two accesses of a
reader: `Test`, `Load` and `Advance` are `keyboard_getchar`'s three.  The readers
are the desktop's loop (`WmPass` and what follows it: drain the ring when the
focus changed or a program has ended, take the scroll flags, take one key) or a program in SYS_READ or
SYS_READ_RAW.  Ctrl with A and B gives the codes of Up and Down (`Control`), so
SYS_READ takes them for scroll keys, as the code does.  `want` is a history variable: the characters that were typed and
not yet taken, from the keys and what was held down when they were pressed.
Left out: right Ctrl and a second Shift key, see the known limits.

`Mouse` keeps the controller's bytes in `sent`.  `PollByte` is one round of
`mouse_poll`'s loop, between two of which the mouse may send more; `PollEnd` is its
end, also before the last byte, where the next one is the keyboard's: a packet may be
left half read.  `truth` is where whole packets moved the pointer.  `Disable` drops bytes but keeps the
phase; `aligned` says whether that cut a packet in two.

### Windows, GuiShell

`Windows` has the window slots, the focus and the flags of `wm.c`.  The loop of
`wm_run` handles one click or key per action, except the click that closes a window:
`CloseWindow` clears the flags (`wm.c:999-1005`, interrupts on), `KillTasks` locks the
scheduler and kills (`wm.c:1006-1018`), and the window's program may run in between.
The flags it sets there are in `outlived`.  `elf_task_trampoline` clears its
flags by one assignment after the other, and the loop may close a window or
start another program in between: `Begin`, `Returned`, `ClearOut`, `ClearGfx`,
`Finish` and `TaskExit` are its steps, `pc` of a task where it is.  `home` is the
trampoline's local `win`, `win` the task's `win_id`; they part when a program
calls SYS_WIN_CREATE or SYS_WIN_CLOSE.  A task slot is used once (`sched.c:49`),
so nothing has to be bounded: slots run out, and a start then fails in the way
of `wm_spawn_elf`'s error path.  Geometry and drawing are left out.

`GuiShell` is the shell's window: `win` its text buffer, cursor and view
(`wm_putchar` with wrapping and scrolling), `ed` the input line with the
position in the history and the kept draft.  A command, or a program whose window is gone,
prints between keys from a task of its own (`CommandPrints`).  A print that is cut by
another (`wm_putchar` takes no lock) is `PrintsOverlap`: what the two leave in the
window is not modelled, `winTorn` is set for good, and what is claimed of rows, cursor
and view ends there; the line, the history and the kept line go on.  `mark` remembers where the line was started and whether
anything else was printed since.  No key moves the cursor inside the line, so
`ipos`, `ilen` and `disp_len` are one number.

### Console, FileCmds, Heap

`Console` is `vga.c`'s grid and scrollback ring (`tape` is every row that ever
scrolled off), the pixels drawn from them, and `shell_run`'s keys: editing,
history, tab completion, scrolling.  Three ghosts say when what is seen can be
relied on: `clean`, that nothing scrolled and nobody else printed since a prompt with
nothing behind it; `stale`, which rows in view were written to while the view was
scrolled back, when nothing is drawn; `draft`, the line left for the history.
`PrintsMix` and `screenTorn` are for this screen what `PrintsOverlap` and `winTorn` are
for the window: `vga_putchar` takes no lock either.

`FileCmds` runs a command as what it asks of the driver, in the code's order:
`cp` reads, goes to the destination directory, writes and comes back; `mv` also
deletes, or renames when the destination is in the same directory; `mkdir -p`
makes and enters one component after another and stays there.  Each call of the
driver has its whole effect or none, as `fat32` shows, and every one may fail.
There are two exceptions: a write over a file (`WriteFails`) and a delete
(`DeleteFails`) that fail may have freed the entry's clusters first; the entry is
then `Lost`, and a volume with such an entry is not followed further.  `mv` does not
look at its delete's answer (`shell.c:1668`), so `MvAcross` reports success whatever
became of the source.

`Heap` splits `kmalloc` and `kfree` into the walk's steps, the split, the
marking and the join.  `hdr` is what stands at every address at which a header
may be.  `Masked` callers run with interrupts off.

### MCResources, MCNetwork, MCMachine

Parts that share no state are checked in one run: `part` is chosen at the start,
and a behaviour exercises that part only, so their states add up instead of
multiplying.  Where parts meet (a frame for TCP found by another command's loop,
a key while the focus moves, a window closed under a program) the interaction is
inside one of the modules.

## Runs

Twelve runs.  "States" are distinct states found by TLC.

| Run | Question | Properties | Size |
|---|---|---|---|
| `tasks_killed` | Programs fork, exec, wait and exit under every preemption while windows are closed and the GUI is left. Does every thread keep its stacks and page table? | `StacksOwned`, `SpacesOwned`, `ExitReturnsHome`, `ReapExited` | 4 slots, 3 page tables, 6 stack blocks |
| `tasks_orderly` | Nothing is killed. Does everything come back, and does every wait end? | `NoSpaceLeak`, `WaiterHasChild`, `NoStarvation`, `WaitReturns` | 4 slots, 3 page tables, 5 blocks |
| `tasks_any` | All rare events together. | `TypeOK`, `OneRunning` | 3 slots, 2 page tables, 4 blocks |
| `resources` | A pipe access by access: is it a FIFO? Every order of pipe, dup2, close, fork, exit and waitpid: are the counts exact, and does a reader learn of the end, no earlier? Programs load, exec, fork and end while frames run out anywhere: has every frame one owner? | `NoByteLost`, `Implements`, `EofReached`, `WriteReturns`; `CountsExact`, `EofSound`, `EofDelivered`; `MemorySound`, `ForkCopiesAll`, `LossBounded` | ring of 4, 2 byte values, writes of 1–3 bytes, 6 in all; 2 tasks, 3 descriptors, 1 pipe of 1 byte; 20 frames, regions of 2 pages, 3 programs; 219 879 states |
| `fat32` | Every call in every order. | `ChainsSound`, `NothingLost`, `CwdNamed`, `ImplementsVolume`, `ReturnsTruth`, `AnswersTruth` | 5 clusters, sectors of 2 entries, 2 names, files of 0–2 blocks; 300 817 states |
| `fat32_crash` | Power cuts, failing transfers and a full disk while files and directories are created; nothing fails between the two writes that link and clear a directory's new cluster. | `ChainsSound`, `ReturnsTruth` | 5 clusters, FAT of 2 sectors, sectors of 2 entries, files of 2 blocks; 211 053 states |
| `network` | HTTP over a network that loses and repeats; commands whose answers come late, twice or never; the card's rings store by store. Is every answer the right one, and does every call end? | `InOrder`, `RequestKept`; `AnswerOwn`, `CacheFresh`; `FramesInOrder`; `CallsReturn` (all three) | 2 connections, 2 attempts, answers of 3 pieces, numbers modulo 8; 4 kinds of command, 2 per behaviour, cache of 2; rings of 3, 7 frames each way; 658 707 states |
| `machine` | Input, desktop, line editors, file commands and heap. Is what is read what was typed, shown what will run, and kept what was stored? | `InputTrue`, `DesktopSound`, `GuiTrue`, `ShellTrue`, `HeapSound`, `FilesKept` | below; 1 280 492 states |
| `fork_oom`, `child_fault`, `fork_leak`, `shared_buffer` | Each shows one disagreement, [below](#where-code-and-comments-disagree). | `StacksOwned`, `SpacesOwned`, `Reclaimed`, `BufferSafe` | |

Why the bounds are enough to be interesting:

- **Four slots** hold task 0, a program, its child, and a background command or
  a grandchild; the table is full, a fork is refused and a reaped slot is
  recycled, all in the same run.  **Three page tables and five or six blocks**
  are fewer than four tasks need, so allocation fails too.  `tasks_orderly` has
  one block less so that its liveness check ends in time.  `tasks_any` is
  smaller because six kinds of event multiply.
- **A ring of four** holds three bytes; six bytes make both indices wrap and
  the ring become full and empty again; writes of three bytes and reads of three
  can be larger than the room there is.  Two byte values tell order apart.
- **Two tasks, one pipe, three descriptors** (`resources`): `SYS_PIPE` from descriptor 1 (3 in
  the code), so that 0 is standard input and one spare is left for dup2.  A
  third task would only add holders.  Capacity 1 makes writers wait at once.
- **Regions of two pages** let an image straddle a region or share it with
  the kernel's huge page, and the stack be in another; 20 frames of RAM hold two
  programs, not three, so every failure path is met.
- **Two entries per sector**: a new directory is full with its `.` and `..`, so
  every subdirectory grows with its first file; five clusters are soon scattered.
  Two blocks make a chain with a link; reads have room for one or two.
  In `fat32_crash` the FAT has two sectors, so a power cut can fall between
  them as well as between the copies, and the shorter list of calls keeps
  the number of crash points down.  Five clusters are enough for a directory that
  grows because it is full, for one that grows because a read failed, and for a
  lost entry that comes to light again.
- **Two connections** let a segment of the first arrive during the second;
  **sequence numbers modulo 8** wrap within one answer for one of the two
  initial numbers.  A receive buffer of two pieces is smaller than the answer of
  three.  Two attempts and one retransmission make both counts run out.
- **Two commands, an ARP cache of two, one frame in the card**: the second
  command finds the first one's late answers, and the third address evicts one.
  Timeouts are one or two seconds, so each loop passes its limit.
- **Rings of three descriptors, seven frames**: both wrap twice.  `Outstanding = 2`
  keeps the one slot free without which the card stops (known limits).
- **Keyboard**: a ring of three holds two characters; three presses of eight
  keys (a letter, Enter, Backspace, Shift, Ctrl, Caps Lock, Up and Home) fill it and mix a
  prefix with a modifier; lines of two.  **Mouse**: two packets of
  movements that together reach past the screen's edge, and two starts.
- **Windows**: three slots and two task slots: the shell, and two programs or
  commands one after the other or together; then starts fail.  `Panels = 0`: the
  two panels that `wm_run` opens behave like a window that a text program leaves
  behind, which the instance has.  A program opens or closes one window of its
  own, one window is minimized at a time.
- **Line editors**: lines of four, histories of two, screens of 3 by 3 with four
  rows of scrollback and a window buffer of 3 by 4 of which two rows are seen:
  lines wrap, screens scroll, both histories and the scrollback forget.  Three commands of
  one and two letters let Tab complete, list, or find nothing.  Five and six keys.
- **Files**: two dotted names and two plain ones, four commands, files that are
  longer than `edit` and `cp` can take, paths that go up, down and to the root.
- **Heap**: ten units, headers of one, three sizes, seven calls, a leak table of
  two: it fills, splits, refuses a split that is too small, joins, and the leak
  table overflows.

`Events`, `Calls` and `Paths` are constants; a cfg that leaves some out is
limited to the callers this table says, and the [known
limits](#known-limits-that-the-models-exclude) name what happens outside.

## Fairness and deadlock

`Tasks!FairSpec` has weak fairness on `Tick` (the PIT keeps interrupting) and,
for each task, strong fairness on the kernel code it is in when it is the
current one: between two ticks a task executes thousands of instructions, so a
task that is scheduled again and again gets through a loop's next step.  User
programs and the user at the keyboard owe nothing: a program may compute
for ever, and a window may never be closed.  `NoStarvation` follows for the
scheduler, and `PipeRing` and `PipeFds` use it: their `FairSpec`s make only the
kernel's side of a waiting call go on, weakly, when its loop can.

The network's loops poll (`Loops` in `MCNetwork`) and its clock ticks
(`Outside`): the PIT counts while a loop spins, and the card transmits what it
owns.  Nothing is assumed of other hosts: every frame may be late or lost.  `machine`
has safety properties only and no fairness.

`CHECK_DEADLOCK FALSE` is set for `tasks_killed` (task 0 can be alone and spin in
waitpid for a child that was killed), `tasks_any`, `fork_oom` and `child_fault`
(the model stops at the first step on freed memory), `resources` (all tasks dead,
or a writer spinning on a pipe without readers, which the kernel really does),
`network` and `machine` (a part ends when its bound on commands, keys or calls is
reached), and `shared_buffer` (the model stops when a table is overwritten by
something that is not one).  All other runs check for deadlock.

## Proofs

| Theorem | Module | States |
|---|---|---|
| `TypeCorrect` | `TasksProofs` | `Spec => []TypeOK`, all events, any size |
| `Invariance` | `TasksProofs` | `Spec => []IndInv` |
| `StacksSafe`, `SpacesSafe`, `ExitSafe`, `ReapSafe` | `TasksProofs` | `StacksOwned`, `SpacesOwned`, `ExitReturnsHome`, `ReapExited` |
| `OneRunningSafe` | `TasksProofs` | `OneRunning` |
| `NoLeak`, `WaiterSafe` | `TasksProofs` | `NoSpaceLeak`, `WaiterHasChild`, without rare events |
| `RingCorrect`, `EofCorrect` | `PipeProofs` | `RingInv`, `NoByteLost` |
| `RingImplementsChannel` | `PipeProofs` | `Spec => Channel!Spec` |
| `CountsAreExact` | `PipeProofs` | `FdsSpec => []CountsExact` |
| `EofIsSound` | `PipeProofs` | `FdsSpec => EofSound` |
| `SpacesInduction` | `SpacesProofs` | `SpacesSpec => []IndInv` |
| `MemoryIsSound` | `SpacesProofs` | `SpacesSpec => []MemorySound` |
| `ForksCopyAll`, `LossIsBounded` | `SpacesProofs` | `ForkCopiesAll`, `LossBounded` |
| `HeapIsSound` | `HeapProofs` | `HeapSpec => []HeapSound` |
| `ChainsAreSound` | `Fat32Proofs` | `Spec => []ChainsSound`, `Events = {}` |
| `NothingIsLost` | `Fat32Proofs` | `Spec => []NothingLost`, `Events = {}` |
| `CallsAreAtomic` | `Fat32Proofs` | `Spec => ImplementsVolume`, `Events = {}` |
| `CallsTellTheTruth` | `Fat32Proofs` | `Spec => ReturnsTruth`, `Events = {}` |
| `AnswersAreTrue` | `Fat32Proofs` | `Spec => AnswersTruth`, `Events = {}` |
| `TcpInduction` | `NetworkProofs` | `TcpSpec => []TcpInv` |
| `ReceivedInOrder`, `RequestIsKept` | `NetworkProofs` | `InOrder`, `RequestKept` |
| `NetInduction` | `NetworkProofs` | `NetSpec => []NetInv` |
| `AnswersAreOwn`, `CacheIsFresh` | `NetworkProofs` | `AnswerOwn`, `CacheFresh` |
| `RingsInOrder` | `NetworkProofs` | `NicSpec => []FramesInOrder` |
| `DesktopCorrect` | `DesktopProofs` | `WindowsSpec => []DesktopSound` |
| `InputIsTrue` | `DesktopProofs` | `InputSpec => []InputTrue` |
| `GuiIsTrue` | `DesktopProofs` | `GuiSpec => []GuiTrue` |
| `ConsoleIsTrue` | `ShellProofs` | `ConsoleSpec => []ShellTrue` |
| `FilesAreKept` | `ShellProofs` | `FilesSpec => FilesKept` |

Assumptions on constants, beyond their types (the `ASSUME`s of the modules): at
least two task slots, the null values are no table, block or number,
`PipeBuf >= 2`, messages are non-empty, `NumRx` and `NumTx` are at least two,
`Panels < NumSlots`, the heap's window lies in a region of its own above the first
and in RAM there is room for it, a heap is larger than a header.  `TcpAssumption`
and `NetAssumption` only give the bounds and the commands their kinds: the
network's theorems hold for any sequence space, any buffer and cache and any
number of connections, hosts and commands.  `GuiAssumption` and `ConsoleAssumption`
say that sizes are positive, that the keys that make text are no control characters
(nor, in `Console`, spaces, which Tab alone puts into a line), and that prompts and
outputs are texts of printable characters and newlines; `FilesAssumption` that a
destination without a last component ends with its slash.  `Geometry` says of the volume
that a sector holds two entries at least (a new directory has its `.` and `..`), that
there is a cluster besides the root's, that names are neither dots nor `/`, that
files are sequences of blocks, that buffers have a size in blocks, and that a caller's block is not taken for a sector of
entries.

Some theorems assume more, and each assumption is one of the
[known limits](#known-limits-that-the-models-exclude) turned round:

| Assumed | By | Because |
|---|---|---|
| `KillOnly` (`Events \subseteq {"kill"}`) | the safety theorems of `TasksProofs` | windows may be closed and the GUI left at any time, but memory does not run out inside a fork (`fork_oom`), children do not crash (`child_fault`), and programs wait only for their own children |
| `NoEvents` | `NoLeak`, `WaiterSafe` | nothing is killed |
| `OneWriter` | `PipeProofs` | two writers of one ring race on `tail` |
| `ClosedOnExit` | `CountsAreExact` | a program that ends or is killed without closing its descriptors, and `dup2(fd, fd)`, make the counts wrong |
| `OneReader` | `EofIsSound` | also: two readers of one standard input can take each other's last byte |
| `ImagesAvoidHeap` | `LossIsBounded` | a program linked into the heap's region would be mapped into the kernel's own table (`MemoryIsSound` and `ForksCopyAll` hold without it) |
| one reader in `Readers` | `InputIsTrue` | two readers (the desktop and a program) that call `keyboard_getchar` at once can take the same character |
| `Events = {}` | `ChainsAreSound`, `NothingIsLost` | no transfer fails, the power stays on, no call is preempted by another, and callers leave room: the order of the driver's writes keeps none of this otherwise |
| `Masked = Users` | `HeapIsSound` | a caller of `kmalloc` with interrupts on can lose its block to another |

**Tasks.**  `StacksOwned` and `SpacesOwned` are not inductive: they say who owns
what, and nothing about *why* a task that frees a page table is its only owner.
`IndInv` adds where each kind of thread can be.  `OneMainInv` is the key: outside
the text shell there is at most one program that is not a fork child, and while
it lives `elf_running` is set; so the window manager cannot start another,
`saved` is that program's, and the exit of a main program frees its own table.
`WaitInv` says that a waiter's child is its own fork child and is still a zombie
when the waiter, after any number of preemptions, reaps it; with `ZombieInv` (a
zombie's thread is `exited`, so nobody runs on its stacks) reaping
frees nothing in use.  `Task0Inv` separates the text shell from the GUI,
`LivePcInv`, `CurrentInv`, `ForkedPcInv` and `UnusedInv` say which `pc` goes
with which state.  The proof is one lemma per action.  `ReapExited` follows from
`WaitInv` and `ZombieInv`.

`NoSpaceLeak` and `WaiterHasChild` need more and hold only when nothing is
killed (`NoEvents`: `Events = {}`).  `OrderlyInv` adds to `IndInv` that a
fork child is not DEAD before it is reaped, and that a task outside of its
program (`KernelPcInv`: the shell, `elf_exec` before and after the program) has
the kernel's page table: so no task ends while it holds one, and the table that a
step frees is not needed by the task that goes on.

**PipeRing.**  `RingInv` says that the slots from `head` to `tail`, followed by
the byte that was stored but not yet published, are `sent` without `got`, and
what each thread's local copies (`next`, `byte`) are worth while the other
goes on: the writer's `next` stays right because only the writer moves `tail`,
the reader's `byte` because the writer never stores into a slot between `head`
and `tail`.  The refinement then maps a store of `tail` to the channel's `Put`,
a store of `head` to `Get`, and everything else to a stutter.  End of file is
sound because the reader tests for bytes *again* after it saw the last writer
close (`syscall.c:465`).

**PipeFds.**  `CountsExact` compares a counter with the number of descriptors
that hold an end.  `Exact` says it as a function of the three tables (`Count`:
the cardinality of `Held`), so that a step's effect is a fact about sets: storing
one descriptor moves `Held` by one pair (`Share`, `Others` split it by task), a
fork adds a task's share, an exit removes it.  `EofSound` is about a read that
waits while other tasks close ends and drain the pipe.  `ReadInv` adds that a
waiting reader holds the read end it waits on (`CallInv`), that two of them wait
on different pipes (`AloneInv`), and that one which has seen no writer and
goes on to drain finds bytes left or still no writer (`DoneInv`): once the count of
writers is zero and exact, nobody holds a descriptor from which to copy a new one.

**AddressSpace.**  `MemorySound` says nothing of what a space looks like while
it is being built.  `IndInv` does: in each region a space has either the
kernel's entry, supervisor-only, or a table of its own whose pages are the program's
or the identity (`EntryInv`); every table belongs to a space (`TableInv`); every
space to a task or to the operation in progress (`LiveInv`, `OneSpaceEach`).
`OpInv` gives the operation: the space it builds is nobody's yet, pages it has
still to map are not mapped, and a fork still has to map exactly the parent's
pages that the child lacks.  From that, `OwnedOnce`: an allocated frame was in
`free`, which no table mentions; a frame that is given back is the table's
only mention.  Nothing else depends on which of the allocations fails.

**Heap.**  The sequence of blocks is never written down by the code; `Tiled`
says that a block ends where the next header or the heap's end is.  A split puts
a header into a block, a join drops one, and neither changes any other block's end.
`Backed` and `Held` match the blocks in use with the granted memory, `Apart`
says grants are different blocks, `LeaksInv` that the table's entries are live and
different; `CallInv` carries what a call's locals refer to from one of its steps to
the next, which needs `Alone`: nobody else is in the allocator.

**Fat32.**  The invariants are in `Fat32Invs`, the proofs in `Fat32Proofs`.  `ChainsSound` and `NothingLost` speak of every state, also of those in the middle of a call,
so `FatInv` says for each transfer (`pc`) what of the volume is finished and which
clusters are nobody's yet.  `Vol` is what a finished volume is: a tree of
directories whose chains end, are disjoint, hold entries of the right kinds,
and files' chains as long as their sizes; every used cluster belongs to one.  In
between it is said of a volume that differs from the one on the disk in known places:
`Area` is the data area without the entry that is about to be rewritten
(`Dropped` deletes it too), since its chain is freed first; `Run` is the chain of
the clusters taken so far, which no entry points to; and a new directory is one as soon as
its cluster holds `.` and `..`.  Then each transfer is one lemma about `Vol` (`ClusterTaken`,
`EntryAdded`, `EntryRemoved`, `EntryRenamed`, `DirExtended`, ...) and one about the
call's own progress.  Chains and the tree are recursive functions over clusters and depth;
`SetInduction` (below) shows what they compute, and `TreeIs` that any set of
directories with parents and depths that fit is what `TreeOf` finds.

For the refinement, `TreeInv` adds what the volume shows in the middle of a call.
`tree`, the abstract volume, stands still until the call returns, while the sectors
already change; so `Built` says of a write or a mkdir that the volume without the
entry it is to write (`View`, `Rest`) shows `tree` less the name, and that the clusters
written so far hold the first blocks of what is to be written (`Written`);
`Erased` says of a delete that the volume without the entry shows what the call promises
already.  Each change of the volume then has a lemma about the tree beside the one
about chains (`TakenTree`, `WrittenTree`, `ExtendedTree`, `RemovedTree`, `AddedTree`,
`RenamedTree`): the first three leave it as it is, since only clusters that no
entry leads to are written, and the last three change one row of it (`Row`), as
`With`, `Without` and `Opened` of `Volume` do.  The step that writes the entry is
therefore the step of `Volume`, and all others stutter.

`AnswerInv` says of a call that only reads what it has so far: a read the blocks of the
first `m` clusters of the file's chain and the cluster of the next (`Reading`), a listing the
names of the first `n` sectors of the directory's (`Listing`).  When the chain
or the buffer ends, the first is the file `tree` has (`FileIs`), cut at the buffer's
size, and the second has each name once, since names are unique in a directory and
a sector that holds its end is the chain's last (`TableOK`).

**Tcp.**  `InOrder` holds although the client looks at no sequence number of
data, because of what is on the way.  `DownOK` says each segment of an answer knows
its place and that they travel in order; `Coming` and `Awaited` say that what
follows the bytes received is still all on the way, up to the last the server
sent, unless the buffer is full.  While the connection is being opened `Quiet` says
that no request of this port exists anywhere, not even in the segment kept for
retransmission, which a failed attempt leaves behind.  `RequestKept` needs the number
of the request's first byte, which no variable holds after the request was sent:
`RequestOK` says that there is one (`Based`: all SYNs sent precede it, everything
the server acknowledges before it has the request equals it), and that until then
the client's retransmission is armed (`Armed`), except where the request's end
wraps around.  That exception is `tcp.c:168`, a known limit.

**Net.**  Late answers are everywhere, so the invariant says which are harmless.
`RingOK` and `AskedOK`: a frame that this command caused answers what it asked
(`Own`), and none comes from a command still to begin; `CallOK` gives the parts of
a command at each place; `WaitOK`: what waits has emptied the one buffer and
opened its port first.  An answer of an earlier command is then either refused by
its port or its identifier, or counted as `late`, which `AnswerOwn` excuses.

**Windows.**  `DesktopSound` says who has which window while a program runs;
closing a window, though, also meets programs that are still starting or already
clearing up.  `WinInv` therefore follows each task through all of `Owning`, from
its start to the last assignment of the trampoline: its `win` is its `home`, is
open, is not the shell's and is nobody else's.  Closing a window kills every task
that has it, so the slot can be given out again.  `OutsideNone` (outside the
desktop no such task is left) makes the first program after `wm_run` begins find no
rival.  While a window is being closed its program counts as its owner still
(`closing`).  The rest is one lemma per handler and per step of a task.

**Keyboard.**  What was typed is known when a key is pressed, what is read many
interrupts later, so the invariant speaks of the bytes in between.  `Runs` says that
the handler's flags pass through a sequence of values, one per byte on the wire,
from what `mods` is to what agrees with the keys held down now (`Stands`), and
that each byte means, under the flags it will meet, what the user meant (`ByteOK`);
a prefix in particular is followed by its key.  A press appends to that
sequence, an interrupt removes its first value, and when the wire is empty the flags
are those of the keys, which is `ModifiersTrue`.  `RingInv` says that the slots
from `kb_head` on are `want`, and `ReaderInv` that a reader between its test and its
store of `kb_head` finds the ring not empty and holds its first character.

**Mouse.**  `StreamOK` says that the bytes in the controller are those of whole
packets except that the first may have lost its beginning (`Follows`), and `Half`
that `phase` and `pkt` are exactly that beginning.  The third byte then decodes
to the packet's movement: `FlagsAre` and `LowIs` show that nine bits, the ninth from the
flags, give back every movement of -256 to 255.

**Nic** (in `NetworkProofs`).  `RxInv` and `TxInv` describe each ring from one index: the unread
frames lie from the driver's head on, or the frames to send from TDH on, in
order; the next slot is the one in work; a descriptor's DD bit says on which side of
these limits it is.  So each store of the driver or the card moves one limit by one
slot.  `RxSlot` and `TxSlot` replace the remainder by a case distinction, which the
provers need (`ModFacts`).  Rings have any size from two on; the driver queues
up to `Outstanding` frames before it waits.

**Text that is printed** (`GuiShell`, `Console`, `FileCmds`).  All three fold an
operation over a sequence: a character into a window or a screen, a component into a
path.  What a fold computes is an induction over data, and the library's induction
theorems take an operator as a parameter.  `SetInduction` takes a set instead: the set of
numbers up to which a claim holds has 0 and each member's successor, so it is
`Nat`, because the numbers outside would have a least one.  With it each fold is shown to be a
*run* (`Enter1Run`, `PutCharRun`, ...: a function from the number of elements done
to the state after them; `...Iter` builds the function that `FoldLeft` chooses), and
then the claim about every state of the run.

**GuiShell.**  `GuiInv` adds to `GuiTrue` that all is blank behind the cursor, in
its row and in the rows below (`OkWin`), and that both input buffers end with a NUL
whatever they held before (`EdOK`).  A character wraps or scrolls only when its row is
full, and `good` ends there; so while it lasts, the backspaces and letters of
`wm_redraw_input` stay in the row of `mark`, and go back exactly to it.  The
history is the end of `entered.lines` (`Latest`), whichever way it grows.

**Console.**  `ConInv` has four parts.  `ScreenOK`: the ring's slots, counted back
from `head` (`RingAt`), are the end of `tape`, and the pixels are the rows in view
(`Viewed`), except those that are `stale` or already forgotten.  A scroll moves the
ring by one and either the view with it or not, so each row in view keeps its
number or its contents.  `ShOK`: both buffers of the line and every command of the
history are texts that fit.  `HistOn`, `DraftOn`: the history's ring is the
end of `history`, and the kept line begins with `draft`.  And while `clean`,
`OnScreen`: the line is on the screen from the place the prompt left, blank behind.
A key that edits the line is then one lemma, `DrawnOver`: when the new line and the
blanks behind it are put from that place and nothing scrolls, every cell before the
longer line's end is the new line's or a blank, and every cell behind it was blank
before.  `Before`
orders the cells as they are read, since a line may take any number of rows.

**FileCmds.**  `FilesInv` says that `tree` is one: the root is a directory, and so is
everything that leads to an entry (`DirIn`), and `cwd` is a directory of it.  Renaming
exchanges a prefix of every path below the old name (`Swap`), so the tree that is
left is one because the new name is free; deleting `from` cannot take away what
was copied to `to` because a copy's destination never lies below a file.  An entry
that a write or a delete gave up on is a file to the tree (`Lost`), so the tree is one
still.

Some definitions of the models changed because of the proofs.  In `Console` three
claims that TLC had found true were false for other constants.  `RowsKept` said that
the pixels of a view that is scrolled back are the rows in view: they are not when
a program prints into one of them, since `vga_putchar` then draws nothing
(`vga.c:236`); `stale` names them, and the instance's scrollback is now long enough to meet
them.  `LineShown` took it that there is nothing behind a new prompt: when a screen
has scrolled under a line and the line is then repainted from the place it no longer
has, the cursor may come to stand in front of rows that were written before, and the next
prompt is printed among them (`BlankBehind` in `clean`).  And Tab's word was cut at
the buffer's limit as if every word reached it.  `Mouse` took all the
bytes of a poll in one step, with a fold over them; now it takes them one by
one, as the code does, and the device may send between two of them.  In `Tcp` and `Fat32`
some `CASE`s had guards that overlap.  TLC takes the first that is true; TLA+
leaves the choice open, so nothing could be proved of the second.  They are now
`IF` chains in the code's order.  In `Fat32` a table of sectors is changed by `Updated`, since the provers
cannot expand `@@`; `Volume` does without it too.

Only model-checked:

- liveness (`NoStarvation`, `WaitReturns`, `EofReached`, `WriteReturns`,
  `EofDelivered`, `CallsReturn`): fairness and ENABLED are out of the prover's reach;
- everything about the volume under failing transfers and power cuts
  (`fat32_crash`);
- `CwdNamed`: the parent stack has eight places, and a ninth level is not pushed
  (known limits), so it holds for volumes that are not deeper, like the instance.

## Where code and comments disagree

- **A fork that runs out of memory** (`fork_oom`, `sched.c:204`).  The slot is
  READY, forked and linked to the clone's page table before its stacks are
  allocated.  When `kmalloc` fails the clone is freed and -1 returned, but the
  slot, if recycled, stays schedulable with a stale saved context.
- **A child that crashes** (`child_fault`, `idt.c:171`).  The fault path jumps
  to the one saved kernel context, which belongs to the program that was exec'd,
  not to its fork child; that program's page table is freed under it.
- **A fork loses frames** (`fork_leak`, `vmm.c:159`).  The clone copies every
  page with the USER flag in the page tables it finds, also those of the two
  tables it shares with the kernel, into those same tables; they are never freed.
- **The file system's buffer is not private** (`shared_buffer`, `fat32.c:865`).
  "IronKernel is single-threaded, so this is safe" holds no longer: a shell
  command can be preempted between reading and writing a directory sector, by a
  program whose system call reads another sector into the buffer.

Other comments say what the code does not do.  No run is spent on them; the models
follow the code, and the properties claim what the code keeps:

- `shell.c:2316` "restore saved line", and its like in `wm.c:1631`: what comes back
  may have erased characters or an older draft's end behind it.
- `shell.c:1436` "files of any size": `cp` and `mv` cut at 128 KB.
- `shell.c:1687`, touching "or leave existing unchanged": the file is emptied.
- `wm.c:96`, `wm.c:1589` and `keyboard.h:41`: see the limits below.

## Known limits that the models exclude

The passing runs assume what follows.  Each is a thing the code does not
guard against; the hazards list has the line.  Events that a model has but no
passing run of the deeper properties allows are in quotes.

- `waitpid` polls for ZOMBIE only: a child that was killed is DEAD and its
  parent polls for ever ("kill"; `tasks_orderly` has no kills).
- `waitpid` does not ask whose child it is ("foreignWait"): two waiters can
  reap one slot twice, the second after it was recycled.
- Closing another window clears `elf_running` although a program still runs
  ("secondElf"); a second program then overwrites the saved context.
- A fork child's `win_id` is never set; it can be killed with a window that was
  never its own ("killChild").
- Two writers of one pipe (after fork) race on `tail` and lose bytes
  (`PipeRing` with two `Writers`; `OneWriter` in the proofs).
- `dup2(fd, fd)` on the last descriptor of an end closes it before it counts it
  again and frees the pipe ("selfDup").  A program that is not a fork child
  exits without closing its descriptors ("leakyExit"), as does one that is
  killed ("kill" in `PipeFds`); readers of its pipes then wait for ever.  Two
  readers of one standard input can see an end of file that is not one
  ("sharedRead").
- A write to a pipe without readers spins for ever; `read_open` is not tested.
- FAT32: overwriting a file frees its old chain on disk before the entry is
  rewritten, so a crash or a full disk in between leaves an entry on free
  clusters; deleting has the same window.  A directory that grows is linked to
  its new cluster, and the FAT flushed (`fat32.c:416`), before that cluster is
  cleared (`fat32.c:423`): a power cut between the two leaves whatever the cluster
  held last as entries, and so does a write that fails there.  `fat32_crash` has
  neither (`Uncleared`); with "uncleared" in its `Events` TLC finds it at once.
  A read error while searching looks like a missing name: a write then makes a
  second entry of a name that exists (excluded, `fat32_crash` creates new names
  only), and a search for a free slot extends the directory behind its end mark
  (modelled, see `Holed` above).  `rm` frees a directory that is not empty.  A ninth
  directory level is not pushed on the parent stack of eight.  New clusters of
  a call that fails stay allocated.  `fat32` and `fat32_crash` have callers that
  avoid these (room left, empty directories, new names under crashes).

Network:

- The client takes any data segment of its connection, whatever its number
  (`tcp.c:175`): one that is repeated or overtakes another is stored again or in the
  wrong place.  It acknowledges what no longer fits its 8 KB.  An acknowledgement
  clears `g_retx` also when the request's end wraps around 2^32 (`tcp.c:168`).
- DNS questions and pings have the same identifiers every time: a late answer to
  an earlier one is taken (`dns.c:20`, `shell.c:1845`; `AnswerOwn` excuses `late`).
- There is one buffer for one datagram: a second offer replaces the first and
  the DHCP exchange fails.  `arp_resolve` drops frames that are not ARP.
- `e1000_send` waits without a limit; with all eight descriptors in use TDT meets
  TDH and it waits for ever (`Outstanding`).
- An answer that breaks off within its header is handed over with it.

Input and desktop:

- `keyboard_getchar` is not locked (`keyboard.c:271`): the desktop's loop and a
  program, or two programs in SYS_READ, which asks nobody for the focus, can take
  one character twice.  `Readers` of the instance has one at a time.
- Right Ctrl leaves the prefix flag set (`keyboard.c:143`); releasing one of two
  Shifts releases both; Caps Lock repeats.  `mouse_disable` keeps the phase of a
  packet that was cut (`mouse.c:102`).
- A character that wraps below the last row of a window's buffer is stored
  outside it before the buffer scrolls (`wm.c:414`); colour and cursor are
  overwritten.  `GuiShell` stops there (`Spilled`).
- Closing any window clears `elf_running` (`wm.c:1003`, against the comment at
  `wm.c:96`), so two programs can run; the first one's end then takes the second
  one's output window (`wm.c:1275`).  A program that uses SYS_WIN_CREATE or
  SYS_WIN_CLOSE leaves the trampoline with the slot of a window that may be another's
  (`wm.c:1278`).  `OwnWindow` and `ShellOpen` hold while none does.
- The desktop's task slots are never reused, so after 32 starts nothing starts; a
  command then runs in the loop with the scheduler locked.  A failed start leaves
  the focus on the slot it gave back (`wm.c:1377`).  `wm_cmd_running` stays set when
  the GUI is left while a command runs (`wm.c:1708`).
- `wm_putchar` and `vga_putchar` take no lock and are run by several tasks: the
  desktop's loop and a command, the text shell and a program that still runs.  A tick
  between two stores of a print and another print then leave, for example, `top_row`
  below the cursor (`wm.c:437`), a store below the window's buffer when
  `cur_row` was counted up but not yet scrolled (`wm.c:396`), or two rows in one slot of
  the scrollback ring (`vga.c:122-125`).  `GuiShell` and `Console` count such a
  window or screen as torn, and claim nothing of it from then on; the store
  outside the buffer is not followed.
- Between the two halves of closing a window its program may still start: it sets
  `wm_elf_out_win` or pixel mode (`wm.c:1256`), is killed, and the flag stays until the
  next program or window sets or clears it.  Output then goes to a slot that is
  closed or another's.  `FlagsEnd` excuses exactly these flags (`outlived`).
- Ctrl+A and Ctrl+B scroll in SYS_READ (`keyboard.c:215`, `keyboard.h:43`, against
  "never produced by normal typing").
- Keys are taken when there is neither a focus nor a shell window
  (`wm.c:1604`); Alt+Tab works only while the shell has the focus, although
  the comment at `wm.c:1589` says otherwise; a click can hit a minimized window
  (`wm.c:914`).
- Two prompts can be printed when a command ends between its start and the loop's
  own prompt (`wm.c:1732`); a line typed ahead is not shown after the prompt of a
  command that ends.  A kept draft has the tail of an older one behind it
  (`wm.c:1617`, `shell.c:2302`), also of characters that were erased from the line itself:
  `input[ilen]` is copied as its end, but no NUL is stored there when a character is
  erased.  `KeptLineBack` and `DraftKept` speak of its beginning only.
- The text shell repaints its line from where the prompt left it, also after the
  screen has scrolled or another program has printed (`shell.c:2195`); what is seen is
  then not the line, which `LineShown` says only while `clean`.  A character
  that is printed while the view is scrolled back is not drawn, even if its row is in
  view, until the view moves (`vga.c:236`).

Files and heap:

- `touch` empties a file that exists (`shell.c:1687` says "or leave existing
  unchanged").  `mv` says that it has moved a file whose last delete failed
  (`shell.c:1668`); `Arrived` allows what the delete left.  After a write or a delete
  that gave up half way, what commands do with the entry that points to free clusters
  is not modelled; nor are reads that fail while a path is followed, nor a call that answers
  0 without having done what it was asked because a search could not read a sector
  (`fat32.c:347`; `fat32_crash` has that).  `mkdir -p` does not come back.  `mv` of a file onto itself through a
  path deletes it; `mv` to a name that is taken makes two entries of it; `cp` and
  `mv` cut at 128 KB (`shell.c:1436` says "files of any size"), `edit` at 4095 bytes.  All of them change the one working
  directory while programs run.
- `kmalloc` is not locked (`heap.c:160`): a caller with interrupts on (`cp`, the
  ELF loader) can be preempted between finding a block and marking it, and
  `task_spawn`'s `kmalloc` gets the same block.  With `Users = {u1, u2}`,
  `Masked = {u2}` TLC finds it.  Blocks are joined with the next one only, so
  free neighbours can stay apart.
- `klog` turns interrupts on (`klog.c:76`) and is called before the IDT is set up
  (`kernel.c:75`).

## Not modelled

In `Tasks`: that `irq_stack` of a reaped child and the stacks of spawned tasks
that ended are never freed, and the two rare ways a program is run inside a
command task.  In `AddressSpace`: mappings above the first GB, which no program
has, and what happens after the first write to a frame that is no longer at its
identity address (`Reached`); RAM of the instance ends below the heap's window.
In `PipeFds`: bytes' values (that is `PipeRing`), and more than one call in
progress per task.  In `Tcp` and `Net`: packet layout, lengths and checksums, and
frames that are malformed.  In `Windows`: geometry, stacking, dragging, drawing,
pixel windows' contents, forked programs that share a window.  In `GuiShell` and
`Console`: colours, and what commands print beyond a few cells.  In `FileCmds`:
`ls`, `cat` and `pwd`, which only read, and a second task at work in the
same tree.

Components left out: FAT12 (dead code: nothing calls it), sound, panic and the
log (output, with busy waits), the ATA and PCI port protocols and boot code
(hardware, run once), the browser's page layout, the shell's commands that only
print, and user programs (they are the environment: any sequence of system
calls).

## Plan

Done, in this order: tasks, pipes and page tables, the file system, the network
stack, input and desktop, the shell's editors and file commands, the heap.

Proved: tasks, pipes, descriptors, address spaces, heap, TCP, the other
protocols, the card's rings, the desktop, keyboard and mouse, both line editors
with their screens, the file commands, and the file
system: its chains, that it is the volume its callers take it for, and what
reads and listings answer.

What is left, most valuable first:

1. Proofs: what is left of `FatInv` after a failing transfer and after a power cut.
2. `Heap` composed with `Tasks`: which callers run with interrupts off.
3. A server and a wire that repeat and reorder data in `Tcp`, with what the client then
   accepts as the property.
4. `AddressSpace` with RAM above the heap's window, where the identity map is
   no longer one.
