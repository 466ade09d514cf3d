------------------------------ MODULE Keyboard -----------------------------
(***************************************************************************)
(* The PS/2 keyboard: the scancode bytes of the keys a user presses, the   *)
(* interrupt handler that turns them into characters in a ring             *)
(* (keyboard.c), and the callers of keyboard_getchar: a program in SYS_READ*)
(* or SYS_READ_RAW (syscall.c) and the desktop's loop (wm.c).  A byte is   *)
(* handled at once, between any two memory accesses of the readers.        *)
(* Left out: right Ctrl and the second Shift key (see the README).         *)
(***************************************************************************)
EXTENDS Integers, Sequences, FiniteSets, SequencesExt

CONSTANTS
  RingSize,     \* KB_BUFFER_SIZE
  LineLen,      \* the longest line SYS_READ returns
  KeyLetters,      \* the letter keys
  Readers,      \* the sets of readers a behaviour may have, of "wm" and "elf"
  Calls,        \* the calls the program makes, of "read" and "raw"
  Keys,         \* the keys of the keyboard
  MaxWire,      \* bound: bytes on their way when a key moves
  MaxPresses    \* bound: key presses of a behaviour

Arrows == {"up", "down", "left", "right"}
Extended == Arrows \cup {"home"}          \* the keys whose codes follow 0xE0
Modifiers == {"shift", "ctrl", "alt", "caps"}
AllKeys == KeyLetters \cup Extended \cup Modifiers \cup {"digit", "enter", "backspace", "f1"}
ASSUME KeyboardAssumption ==
  /\ RingSize \in Nat \ {0} /\ LineLen \in Nat \ {0} /\ Readers \subseteq SUBSET {"wm", "elf"}
  /\ Keys \subseteq AllKeys
  /\ KeyLetters \cap (Extended \cup Modifiers \cup {"digit", "enter", "backspace", "f1", "e0", "ext", "none"}) = {}
NoChar == <<"none">>
E0 == [key |-> "e0", down |-> TRUE, means |-> NoChar]

VARIABLES held,     \* the keys that are down
          capsOn,   \* ghost: CapsLock was pressed an odd number of times
          wire,     \* the bytes on their way, each with what its key press means
          mods,     \* shift_held, ctrl_pressed, alt_held, caps_lock, ext_mode
          ring,     \* kb_buffer, kb_head, kb_tail
          scroll,   \* kb_scroll_up or kb_scroll_dn
          want,     \* ghost: the characters of the ring, from what was pressed
          readers,  \* the readers of this behaviour
          focus,    \* wm_focused: "shell", or "elf" for another window
          prevFocus,\* prev_focused of wm_run, or "ended": prev_elf_running, and the
                    \* program has ended
          at, char, \* where each reader is, and the character it took
          call,     \* the program's call
          line,     \* what SYS_READ has so far
          presses
kbdVars == <<held, capsOn, wire, mods, ring, scroll, want, readers, focus, prevFocus,
             at, char, call, line, presses>>
readVars == <<readers, focus, prevFocus, at, char, call, line>>

(* ------------------------- keys and their codes ------------------------ *)
\* The two tables and the Caps and Ctrl rules; a character is a pair.
Table(key, shift) == IF key \in KeyLetters THEN <<key, IF shift THEN "upper" ELSE "lower">>
                     ELSE IF key = "digit" THEN <<key, IF shift THEN "symbol" ELSE "plain">>
                     ELSE IF key \in {"enter", "backspace"} THEN <<key, "plain">>
                     ELSE NoChar
\* Ctrl with A and B gives 1 and 2, which are KEY_UP and KEY_DOWN.
Control(letter) == IF letter = "a" THEN <<"up", "plain">>
                   ELSE IF letter = "b" THEN <<"down", "plain">>
                   ELSE <<letter, "control">>
Meaning(key, shift, caps, ctrl) ==
  LET c == Table(key, shift)
      cased == IF ~shift /\ caps /\ c[1] \in KeyLetters THEN <<c[1], "upper">> ELSE c
  IN IF ctrl /\ c[1] \in KeyLetters THEN Control(c[1]) ELSE cased

\* What a press means to the user: from the keys that are down.
Meant(key) == IF key \in Arrows THEN <<key, "plain">>
              ELSE IF key \in Extended \cup Modifiers THEN NoChar
              ELSE Meaning(key, "shift" \in held, capsOn, "ctrl" \in held)

Bytes(key, down) ==
  (IF key \in Extended THEN <<E0>> ELSE <<>>)
    \o <<[key |-> key, down |-> down, means |-> IF down THEN Meant(key) ELSE NoChar]>>

KbdInit == /\ held = {} /\ capsOn = FALSE /\ wire = <<>>
           /\ mods = [m \in Modifiers \cup {"ext"} |-> FALSE]
           /\ ring = [buf |-> [i \in 0..RingSize - 1 |-> NoChar], head |-> 0, tail |-> 0]
           /\ scroll = FALSE /\ want = <<>>
           /\ readers \in Readers
           /\ focus = "shell" /\ prevFocus = "shell"
           /\ at = [r \in {"wm", "elf"} |-> "out"]
           /\ char = [r \in {"wm", "elf"} |-> NoChar]
           /\ call = "none" /\ line = <<>> /\ presses = 0

(* ------------------------------- the user ------------------------------ *)
\* A key goes down, or repeats while it is down (Caps Lock is left to one press).
Press(key) == /\ key # "caps" \/ key \notin held
              /\ presses < MaxPresses /\ Len(wire) < MaxWire
              /\ presses' = presses + 1
              /\ held' = held \cup {key}
              /\ capsOn' = IF key = "caps" THEN ~capsOn ELSE capsOn
              /\ wire' = wire \o Bytes(key, TRUE)
              /\ UNCHANGED <<mods, ring, scroll, want, readVars>>

Release(key) == /\ key \in held /\ Len(wire) < MaxWire
                /\ held' = held \ {key}
                /\ wire' = wire \o Bytes(key, FALSE)
                /\ UNCHANGED <<capsOn, mods, ring, scroll, want, readVars, presses>>

(* --------------------------- keyboard_callback ------------------------- *)
NextTail == (ring.tail + 1) % RingSize
Full == NextTail = ring.head
PutKey(c) == ring' = IF c = NoChar \/ Full THEN ring
                  ELSE [ring EXCEPT !.buf[ring.tail] = c, !.tail = NextTail]
Quiet == UNCHANGED <<ring, scroll>>

\* Mutant of ExtendedByte: the release of an extended key leaves ext_mode set.
ExtendedByteSticky(b) == IF ~b.down THEN UNCHANGED mods /\ Quiet
                         ELSE /\ mods' = [mods EXCEPT !["ext"] = FALSE]
                              /\ IF ~Full /\ b.key \in Arrows
                                 THEN PutKey(<<b.key, "plain">>) /\ UNCHANGED scroll
                                 ELSE Quiet
\* The byte that follows 0xE0; a Ctrl code does not get here.
ExtendedByte(b) == /\ mods' = [mods EXCEPT !["ext"] = FALSE]
                   /\ IF b.down /\ ~Full /\ b.key \in Arrows
                      THEN /\ PutKey(<<b.key, "plain">>)
                           /\ scroll' = (scroll \/ b.key \in {"up", "down"})
                      ELSE Quiet

PlainByte(b) ==
  IF b.key \in {"shift", "alt"} THEN mods' = [mods EXCEPT ![b.key] = b.down] /\ Quiet
  ELSE IF b.key = "caps" THEN mods' = [mods EXCEPT ![b.key] = IF b.down THEN ~@ ELSE @] /\ Quiet
  ELSE /\ IF b.down THEN PutKey(Meaning(b.key, mods["shift"], mods["caps"], mods["ctrl"]))
          ELSE ring' = ring
       /\ UNCHANGED <<mods, scroll>>

Callback ==
  /\ wire # <<>>
  /\ LET b == Head(wire)
     IN /\ CASE b.key = "e0" -> mods' = [mods EXCEPT !["ext"] = TRUE] /\ Quiet
             [] b.key = "ctrl" -> mods' = [mods EXCEPT !["ctrl"] = b.down] /\ Quiet
             [] OTHER -> IF mods["ext"] THEN ExtendedByte(b) ELSE PlainByte(b)
        /\ want' = IF b.means = NoChar \/ Len(want) = RingSize - 1 THEN want
                   ELSE Append(want, b.means)
  /\ wire' = Tail(wire)
  /\ UNCHANGED <<held, capsOn, readVars, presses>>

(* --------------------------- keyboard_getchar -------------------------- *)
HasChar == ring.head # ring.tail
Step(r, from, to) == r \in readers /\ at[r] = from /\ at' = [at EXCEPT ![r] = to]
Hardware == <<held, capsOn, wire, mods, presses>>

\* Its three accesses: the test, the character, the head.
Test(r) == /\ Step(r, "get", IF HasChar THEN "load" ELSE "empty")
           /\ UNCHANGED <<Hardware, ring, scroll, want, readers, focus, prevFocus, char, call, line>>
Load(r) == /\ Step(r, "load", "advance")
           /\ char' = [char EXCEPT ![r] = ring.buf[ring.head]]
           /\ UNCHANGED <<Hardware, ring, scroll, want, readers, focus, prevFocus, call, line>>
Advance(r) == /\ Step(r, "advance", "got")
              /\ ring' = [ring EXCEPT !.head = (@ + 1) % RingSize]
              /\ want' = IF want = <<>> THEN want ELSE Tail(want)
              /\ UNCHANGED <<Hardware, scroll, readers, focus, prevFocus, char, call, line>>

(* ------------------------ a program that reads ------------------------- *)
ElfStep(from, to) == /\ Step("elf", from, to)
                     /\ UNCHANGED <<Hardware, ring, scroll, want, readers, focus, prevFocus>>
\* SYS_READ spins until a character is there; SYS_READ_RAW of a program with a
\* window also waits for the focus.
SysRead(c) == /\ ElfStep("out", "wait") /\ call' = c
              /\ UNCHANGED <<char, line>>
ReadReady == /\ ElfStep("wait", "get") /\ HasChar
             /\ (call = "raw" /\ "wm" \in readers) => focus = "elf"
             /\ UNCHANGED <<char, call, line>>

\* SYS_READ collects a line; Up and Down only scroll.  Either call returns what
\* keyboard_getchar gave it, even the 0 of a ring that is empty again.
Collected == LET c == char["elf"]
             IN IF c[1] \in {"up", "down", "enter"} \/ (c[1] = "backspace" /\ line = <<>>) THEN line
                ELSE IF c[1] = "backspace" THEN Front(line)
                ELSE Append(line, c)
LineDone == char["elf"][1] = "enter" \/ Len(Collected) >= LineLen
ReadDone == call = "raw" \/ LineDone
Received == /\ \E from \in {"got", "empty"} : ElfStep(from, IF ReadDone THEN "out" ELSE "wait")
            /\ line' = IF ReadDone THEN <<>> ELSE Collected
            /\ call' = IF ReadDone THEN "none" ELSE call
            /\ char' = [char EXCEPT !["elf"] = NoChar]

(* --------------------------- the desktop's loop ------------------------ *)
WmStep(from, to) == /\ Step("wm", from, to)
                    /\ UNCHANGED <<Hardware, ring, want, readers, call, line>>
Drains(before, now) == before = "ended" \/ (before = "shell") # (now = "shell")

\* A click moves the focus, and a program may have ended: a change to or from
\* the shell, or its end, drains the ring.
WmPass == /\ focus' \in {"shell", "elf"} /\ prevFocus' \in {prevFocus, "ended"}
          /\ WmStep("out", IF Drains(prevFocus', focus') THEN "get" ELSE "keys")
          /\ UNCHANGED <<scroll, char>>
\* while (keyboard_getchar()) {}
WmDrains == /\ Drains(prevFocus, focus)
            /\ WmStep("got", "get")
            /\ char' = [char EXCEPT !["wm"] = NoChar]
            /\ UNCHANGED <<scroll, focus, prevFocus>>
WmDrained == /\ Drains(prevFocus, focus)
             /\ WmStep("empty", "keys")
             /\ UNCHANGED <<scroll, focus, prevFocus, char>>
\* The scroll flags are taken; the shell's keys only while it has the focus.
WmKeys == /\ WmStep("keys", IF focus = "shell" THEN "get" ELSE "out")
          /\ scroll' = FALSE /\ prevFocus' = focus
          /\ UNCHANGED <<focus, char>>
WmKey == /\ ~Drains(prevFocus, focus)
         /\ \/ WmStep("got", "out")
            \/ WmStep("empty", "out")
         /\ char' = [char EXCEPT !["wm"] = NoChar]
         /\ UNCHANGED <<scroll, focus, prevFocus>>

KbdNext == \/ \E key \in Keys : Press(key) \/ Release(key)
           \/ Callback
           \/ \E r \in readers : Test(r) \/ Load(r) \/ Advance(r)
           \/ \E c \in Calls : SysRead(c)
           \/ ReadReady \/ Received
           \/ WmPass \/ WmDrains \/ WmDrained \/ WmKeys \/ WmKey

KbdSpec == KbdInit /\ [][KbdNext]_kbdVars

(* ------------------------------ properties ----------------------------- *)
KbdTypeOK == /\ ring.head \in 0..RingSize - 1 /\ ring.tail \in 0..RingSize - 1
             /\ Len(want) < RingSize /\ Len(line) < LineLen
             /\ held \subseteq Keys

Held == (ring.tail - ring.head) % RingSize
Buffered == [i \in 1..Held |-> ring.buf[(ring.head + i - 1) % RingSize]]

\* The ring holds what the keys meant when they were pressed, in their order,
\* less what came while it was full; a reader takes the oldest of them.
RingTrue == /\ Buffered = want
            /\ \A r \in readers : at[r] = "advance" => want # <<>> /\ char[r] = Head(want)

\* With no byte on its way the handler's flags are the keys that are down.
ModifiersTrue == wire = <<>> => /\ \A m \in {"shift", "ctrl", "alt"} : mods[m] <=> m \in held
                                /\ mods["caps"] = capsOn /\ ~mods["ext"]

\* What keyboard_callback leaves for its readers is what the user typed:
\* KbdTypeOK, RingTrue and ModifiersTrue (keyboard.c).
KeysTrue == KbdTypeOK /\ RingTrue /\ ModifiersTrue

=============================================================================
