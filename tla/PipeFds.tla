------------------------------ MODULE PipeFds ------------------------------
(***************************************************************************)
(* File descriptors and the reference counts of pipes: SYS_PIPE, SYS_DUP2, *)
(* SYS_CLOSE, SYS_READ, SYS_READ_FD, SYS_WRITE and SYS_WRITE_FD            *)
(* (syscall.c), what fork, exit and waitpid do to a table of descriptors   *)
(* (sched.c, syscall.c), and the counting half of pipe.c.                  *)
(*                                                                         *)
(* A pipe holds a number of bytes here; that its ring really is a queue is *)
(* PipeRing.  The calls that open and close ends run with interrupts off   *)
(* and are one action each; the calls that wait are not.                   *)
(***************************************************************************)
EXTENDS Integers, FiniteSets, FiniteSetsExt

CONSTANTS
  MaxTasks,   \* MAX_TASKS
  MaxFds,     \* TASK_MAX_FDS
  FirstFd,    \* the first descriptor SYS_PIPE hands out (3)
  MaxPipes,   \* MAX_PIPES
  Capacity,   \* PIPE_BUF - 1
  Amounts,    \* lengths programs read and write
  Events      \* the events this instance lets happen (EventNames)

(***************************************************************************)
(* "leakyExit": a program that is not a fork child exits with pipe ends    *)
(* open.  "kill": the window manager kills a task with pipe ends open.      *)
(* "selfDup": a task calls dup2(fd, fd).  "sharedRead": two tasks read one *)
(* pipe as their standard input.                                           *)
(***************************************************************************)
EventNames == {"leakyExit", "kill", "selfDup", "sharedRead"}

ASSUME SizesAssumption ==
  /\ MaxTasks \in Nat \ {0} /\ MaxFds \in Nat \ {0} /\ MaxPipes \in Nat \ {0}
  /\ FirstFd \in 0 .. MaxFds - 1 /\ Capacity \in Nat \ {0}
ASSUME AmountsAssumption == Amounts \subseteq Nat \ {0}
ASSUME EventsAssumption == Events \subseteq EventNames

VARIABLES
  life,     \* whether a task runs, is a zombie, is dead, or never was
  forked,   \* tasks[t].is_forked
  fds,      \* tasks[t].fds
  pipes,    \* g_pipes
  pc,       \* where a live task is: its program, or a call that waits
  on, wanted  \* the pipe of that call and the bytes it still has to move

tasks == <<life, forked>>
call  == <<pc, on, wanted>>
fdsVars == <<tasks, fds, pipes, call>>

Slots == 0 .. MaxTasks - 1
FDs   == 0 .. MaxFds - 1
Pipes == 0 .. MaxPipes - 1

None        == [type |-> "none",  pipe |-> 0]
ReadEnd(p)  == [type |-> "read",  pipe |-> p]
WriteEnd(p) == [type |-> "write", pipe |-> p]

FdsInit ==
  /\ life = [t \in Slots |-> "unused"]
  /\ forked = [t \in Slots |-> FALSE]
  /\ fds = [t \in Slots |-> [f \in FDs |-> None]]
  /\ pipes = [p \in Pipes |-> [read_open |-> 0, write_open |-> 0,
                               used |-> FALSE, level |-> 0]]
  /\ pc = [t \in Slots |-> "user"]
  /\ on = [t \in Slots |-> 0]
  /\ wanted = [t \in Slots |-> 0]

User(t) == life[t] = "live" /\ pc[t] = "user"

\* The descriptors of t that refer to an end, and all of those of live tasks.
Refs(t, end)  == {f \in FDs : fds[t][f] = end}
Holders(end)  == {h \in Slots \X FDs : life[h[1]] = "live" /\ fds[h[1]][h[2]] = end}

-----------------------------------------------------------------------------
(***************************************************************************)
(* pipe.c: the counts.                                                     *)
(***************************************************************************)

\* A pipe after r read ends and w write ends of it were closed.
Closed(pp, r, w) ==
  LET ro == pp.read_open - r
      wo == pp.write_open - w
  IN [read_open |-> ro, write_open |-> wo, level |-> pp.level,
      used |-> pp.used /\ ~(r + w > 0 /\ ro <= 0 /\ wo <= 0)]

CloseEnd(ps, end) ==
  IF end.type = "none" THEN ps
  ELSE [ps EXCEPT ![end.pipe] = IF end.type = "read" THEN Closed(@, 1, 0)
                                                     ELSE Closed(@, 0, 1)]

\* Mutant of RefEnd: the copy of a write end is not counted.
RefReadOnly(ps, end) ==
  IF end.type = "read" THEN [ps EXCEPT ![end.pipe].read_open = @ + 1] ELSE ps

\* pipe_ref_read, pipe_ref_write.
RefEnd(ps, end) ==
  CASE end.type = "read"  -> [ps EXCEPT ![end.pipe].read_open  = @ + 1]
    [] end.type = "write" -> [ps EXCEPT ![end.pipe].write_open = @ + 1]
    [] OTHER -> ps

-----------------------------------------------------------------------------
(***************************************************************************)
(* Opening and closing.                                                    *)
(***************************************************************************)
FreeFds(t)  == {f \in FDs : f >= FirstFd /\ fds[t][f] = None}
FreePipes   == {p \in Pipes : ~pipes[p].used}

\* SYS_PIPE.  Without two free descriptors the new pipe is closed again.
Pipe(t) ==
  /\ User(t) /\ FreePipes # {}
  /\ LET p == Min(FreePipes)
         r == Min(FreeFds(t))
         w == Min(FreeFds(t) \ {r})
         new == [read_open |-> 1, write_open |-> 1, used |-> TRUE, level |-> 0]
     IN IF Cardinality(FreeFds(t)) >= 2
        THEN /\ pipes' = [pipes EXCEPT ![p] = new]
             /\ fds' = [fds EXCEPT ![t] = [@ EXCEPT ![r] = ReadEnd(p),
                                                    ![w] = WriteEnd(p)]]
        ELSE /\ pipes' = [pipes EXCEPT ![p] = Closed(new, 1, 1)]
             /\ UNCHANGED fds
  /\ UNCHANGED <<tasks, call>>

\* SYS_DUP2: the old meaning of newfd is closed before the new one is counted.
Dup2(t, oldfd, newfd) ==
  /\ User(t)
  /\ oldfd # newfd \/ fds[t][newfd] = None \/ "selfDup" \in Events
  /\ pipes' = RefEnd(CloseEnd(pipes, fds[t][newfd]), fds[t][oldfd])
  /\ fds' = [fds EXCEPT ![t][newfd] = fds[t][oldfd]]
  /\ UNCHANGED <<tasks, call>>

\* SYS_CLOSE.
Close(t, fd) ==
  /\ User(t)
  /\ pipes' = CloseEnd(pipes, fds[t][fd])
  /\ fds' = [fds EXCEPT ![t][fd] = None]
  /\ UNCHANGED <<tasks, call>>

-----------------------------------------------------------------------------
(***************************************************************************)
(* The life of a task, as far as its descriptors are concerned.            *)
(***************************************************************************)
Unused     == {t \in Slots : life[t] = "unused"}
Recyclable == {t \in Slots : life[t] = "dead" /\ ~forked[t]}

\* wm_spawn_elf and elf_exec: one program at a time besides the fork children.
StartMain(t) ==
  /\ Unused # {} /\ t = Min(Unused)
  /\ \A u \in Slots : life[u] = "live" => forked[u]
  /\ life' = [life EXCEPT ![t] = "live"]
  /\ UNCHANGED <<forked, fds, pipes, call>>

\* Mutant of Inherited: sched_fork copies the table and does not count.
NotCounted(t) == pipes

\* The counts after a child has inherited every descriptor of t.
Inherited(t) ==
  [p \in Pipes |-> [pipes[p] EXCEPT
     !.read_open  = @ + Cardinality(Refs(t, ReadEnd(p))),
     !.write_open = @ + Cardinality(Refs(t, WriteEnd(p)))]]

\* sched_fork: whatever the slot's descriptors were is overwritten.
Fork(t) ==
  /\ User(t)
  /\ Recyclable \cup Unused # {}
  /\ LET c == Min(IF Recyclable # {} THEN Recyclable ELSE Unused)
     IN /\ life' = [life EXCEPT ![c] = "live"]
        /\ forked' = [forked EXCEPT ![c] = TRUE]
        /\ fds' = [fds EXCEPT ![c] = fds[t]]
        /\ pc' = [pc EXCEPT ![c] = "user"]
  /\ pipes' = Inherited(t)
  /\ UNCHANGED <<on, wanted>>

\* SYS_EXIT of a fork child closes its descriptors.
ExitChild(t) ==
  /\ User(t) /\ forked[t]
  /\ life' = [life EXCEPT ![t] = "zombie"]
  /\ pipes' = [p \in Pipes |-> Closed(pipes[p], Cardinality(Refs(t, ReadEnd(p))),
                                                Cardinality(Refs(t, WriteEnd(p))))]
  /\ fds' = [fds EXCEPT ![t] = [f \in FDs |-> None]]
  /\ UNCHANGED <<forked, call>>

\* SYS_EXIT, or a fault, of any other program closes nothing.
ExitMain(t) ==
  /\ User(t) /\ ~forked[t]
  /\ fds[t] = [f \in FDs |-> None] \/ "leakyExit" \in Events
  /\ life' = [life EXCEPT ![t] = "dead"]
  /\ UNCHANGED <<forked, fds, pipes, call>>

\* SYS_WAITPID returns a zombie's slot.
Reap(c) ==
  /\ life[c] = "zombie"
  /\ \E t \in Slots : User(t)
  /\ life' = [life EXCEPT ![c] = "dead"]
  /\ forked' = [forked EXCEPT ![c] = FALSE]
  /\ UNCHANGED <<fds, pipes, call>>

\* The close button: neither the descriptors nor the call in progress matter.
Kill(t) ==
  /\ life[t] = "live"
  /\ fds[t] = [f \in FDs |-> None] \/ "kill" \in Events
  /\ life' = [life EXCEPT ![t] = "dead"]
  /\ UNCHANGED <<forked, fds, pipes, call>>

-----------------------------------------------------------------------------
(***************************************************************************)
(* The calls that wait.                                                    *)
(***************************************************************************)
Alone(t, p, pcs) ==
  \A u \in Slots \ {t} : life[u] = "live" /\ pc[u] \in pcs => on[u] # p

\* The call returns; its locals are gone.
Return(t) == /\ pc'   = [pc   EXCEPT ![t] = "user"]
             /\ on'   = [on   EXCEPT ![t] = 0]
             /\ wanted' = [wanted EXCEPT ![t] = 0]

Begin(t, fd, where) ==
  /\ User(t)
  /\ wanted' \in {[wanted EXCEPT ![t] = n] : n \in Amounts}
  /\ on' = [on EXCEPT ![t] = fds[t][fd].pipe]
  /\ pc' = [pc EXCEPT ![t] = where]
  /\ UNCHANGED <<tasks, fds, pipes>>

\* SYS_READ_FD.
ReadFdBegin(t, fd) ==
  /\ fds[t][fd].type = "read"
  /\ Alone(t, fds[t][fd].pipe, {"polling", "reading", "stdin", "draining"})
  /\ Begin(t, fd, "polling")

\* SYS_READ with a pipe as descriptor 0; `wanted' is what fits before the NUL.
StdinBegin(t) ==
  /\ fds[t][0].type = "read"
  /\ \/ Alone(t, fds[t][0].pipe, {"polling", "reading", "stdin", "draining"})
     \/ "sharedRead" \in Events
  /\ Begin(t, 0, "stdin")

\* Mutant of PollDone: the loop of SYS_READ_FD waits for data only.
PollData(t) ==
  /\ life[t] = "live" /\ pc[t] \in {"polling", "stdin"}
  /\ pipes[on[t]].level > 0
  /\ pc' = [pc EXCEPT ![t] = IF pc[t] = "stdin" THEN "draining" ELSE "reading"]
  /\ UNCHANGED <<tasks, fds, pipes, on, wanted>>

\* The polling loop ends: bytes have come, or no write end is open.
PollDone(t) ==
  /\ life[t] = "live" /\ pc[t] \in {"polling", "stdin"}
  /\ pipes[on[t]].level > 0 \/ pipes[on[t]].write_open = 0
  /\ pc' = [pc EXCEPT ![t] = IF pc[t] = "stdin" THEN "draining" ELSE "reading"]
  /\ UNCHANGED <<tasks, fds, pipes, on, wanted>>

\* SYS_READ_FD takes what is there and polls for the rest; nothing is the end.
ReadSome(t) ==
  /\ life[t] = "live" /\ pc[t] = "reading"
  /\ LET n == Min({pipes[on[t]].level, wanted[t]})
     IN /\ pipes' = [pipes EXCEPT ![on[t]].level = @ - n]
        /\ IF n = 0 \/ n = wanted[t]
           THEN Return(t)
           ELSE /\ wanted' = [wanted EXCEPT ![t] = @ - n]
                /\ pc' = [pc EXCEPT ![t] = "polling"]
                /\ UNCHANGED on
  /\ UNCHANGED <<tasks, fds>>

\* SYS_READ takes once, after cli, and returns however little that is.
Drain(t) ==
  /\ life[t] = "live" /\ pc[t] = "draining"
  /\ pipes' = [pipes EXCEPT ![on[t]].level = @ - Min({@, wanted[t]})]
  /\ Return(t)
  /\ UNCHANGED <<tasks, fds>>

\* SYS_WRITE_FD on any descriptor, SYS_WRITE on descriptor 1.
WriteBegin(t, fd) ==
  /\ fds[t][fd].type = "write"
  /\ Alone(t, fds[t][fd].pipe, {"writing"})
  /\ Begin(t, fd, "writing")

\* The loop writes what fits and spins on a full pipe, whoever may read it.
WriteSome(t) ==
  /\ life[t] = "live" /\ pc[t] = "writing"
  /\ pipes[on[t]].level < Capacity
  /\ LET n == Min({Capacity - pipes[on[t]].level, wanted[t]})
     IN /\ pipes' = [pipes EXCEPT ![on[t]].level = @ + n]
        /\ IF n = wanted[t]
           THEN Return(t)
           ELSE wanted' = [wanted EXCEPT ![t] = @ - n] /\ UNCHANGED <<pc, on>>
  /\ UNCHANGED <<tasks, fds>>

-----------------------------------------------------------------------------
Moving(t) == PollDone(t) \/ ReadSome(t) \/ Drain(t) \/ WriteSome(t)

FdsNext ==
  \E t \in Slots :
    \/ Pipe(t) \/ Fork(t) \/ StartMain(t) \/ ExitChild(t) \/ ExitMain(t)
    \/ Reap(t) \/ Kill(t) \/ StdinBegin(t) \/ Moving(t)
    \/ \E fd \in FDs : \/ Close(t, fd) \/ ReadFdBegin(t, fd) \/ WriteBegin(t, fd)
                       \/ \E old \in FDs : Dup2(t, old, fd)

FdsSpec == FdsInit /\ [][FdsNext]_fdsVars

\* The scheduler runs every task again and again (Tasks!NoStarvation), so a call
\* that waits goes on as soon as its loop finds that it can, and stays able to.
FdsFairSpec == FdsSpec /\ \A t \in Slots : WF_fdsVars(Moving(t))

-----------------------------------------------------------------------------
(***************************************************************************)
(* Properties.                                                             *)
(***************************************************************************)
FdsTypeOK ==
  /\ life \in [Slots -> {"unused", "live", "zombie", "dead"}]
  /\ forked \in [Slots -> BOOLEAN]
  /\ fds \in [Slots -> [FDs -> {None} \cup {ReadEnd(p) : p \in Pipes}
                                      \cup {WriteEnd(p) : p \in Pipes}]]
  /\ pipes \in [Pipes -> [read_open : Int, write_open : Int, used : BOOLEAN,
                          level : 0 .. Capacity]]
  /\ pc \in [Slots -> {"user", "polling", "reading", "stdin", "draining",
                       "writing"}]
  /\ on \in [Slots -> Pipes] /\ wanted \in [Slots -> Nat]

\* read_open and write_open are the numbers of descriptors of live tasks that
\* refer to the ends, through every order of pipe, dup2, close, fork and exit;
\* a pipe nobody refers to is free again, and none is freed that somebody does.
CountsExact == FdsTypeOK /\
  \A p \in Pipes :
    LET r == Cardinality(Holders(ReadEnd(p)))
        w == Cardinality(Holders(WriteEnd(p)))
    IN IF pipes[p].used
       THEN pipes[p].read_open = r /\ pipes[p].write_open = w /\ r + w > 0
       ELSE r + w = 0

\* A read comes back with nothing only when no live task can write to the pipe.
EofSound ==
  [][\A t \in Slots :
       /\ pc[t] \in {"reading", "draining"} /\ pc'[t] = "user"
       /\ pipes[on[t]].level = 0
       => Holders(WriteEnd(on[t])) = {}]_fdsVars

\* A reader is woken when the last write end goes, whoever held it and however.
EofDelivered ==
  \A t \in Slots :
    pc[t] \in {"polling", "stdin"} /\ Holders(WriteEnd(on[t])) = {}
      ~> pc[t] = "user"
=============================================================================
