------------------------------ MODULE Console ------------------------------
(***************************************************************************)
(* The text console and the shell's line editor: the character grid with   *)
(* its scrollback ring and the pixels drawn from them (vga.c), and the     *)
(* loop of shell_run with its command history and tab completion           *)
(* (shell.c).  One step is one key; another program may print between two  *)
(* keys.  vga_putchar takes no lock: when a tick falls inside a print and  *)
(* another program prints, the screen is torn, and is not followed any     *)
(* more.  Colours, glyphs and what a command does are left out.            *)
(***************************************************************************)
EXTENDS Integers, Sequences, SequencesExt

CONSTANTS
  Rows, Cols,   \* PT_ROWS and PT_COLS
  SbLines,      \* SB_LINES, the scrollback ring
  SbStep,       \* SB_STEP, the lines of one scroll key
  HistSize,     \* HIST_SIZE
  LineMax,      \* the longest input line (255)
  Prompt,       \* what shell_prompt prints
  Cmds,         \* sh_cmds, a sequence of words
  Clear,        \* the command that clears the screen
  Letters,      \* the printable keys
  Outputs,      \* what a command, or another program, may print
  MaxKeys       \* bound: keys and foreign prints of a behaviour

NL == "nl"
Space == " "
NUL == "nul"
NoDraft == <<NUL>>
Cells == Letters \cup {Space, ">", "^", "C"} \cup UNION {ToSet(text) : text \in Outputs}

ASSUME ConsoleAssumption ==
  /\ Rows \in Nat \ {0} /\ Cols \in Nat \ {0} /\ SbLines \in Nat \ {0} /\ SbStep \in Nat
  /\ HistSize \in Nat \ {0} /\ LineMax \in Nat \ {0}
  /\ Letters \cap {NL, Space, NUL} = {}
  /\ Prompt \in Seq(Cells \cup {NL}) /\ \A text \in Outputs : text \in Seq(Cells \cup {NL})
  /\ Cmds \in Seq(Seq(Letters))

VARIABLES screen,  \* the grid, the ring, the pixels; ghosts: tape, the rows scrolled
                   \* off; stale, the rows in view written to while scrolled back
          shell,   \* the line editor
          history, \* ghost: the commands entered, repeats collapsed
          clean,   \* ghost: nothing scrolled or was printed by others since a prompt
                   \* with nothing behind it
          draft,   \* ghost: the line left for the history, while browsing
          screenTorn, \* ghost: two tasks were inside vga_putchar at once
          keys     \* how many steps were taken

consoleVars == <<screen, shell, history, clean, draft, screenTorn, keys>>

(* ------------------------------ the screen ----------------------------- *)
BlankRow == [c \in 0..Cols - 1 |-> Space]
BlankGrid == [r \in 0..Rows - 1 |-> BlankRow]
RowsUp(grid) == [r \in 0..Rows - 1 |-> IF r < Rows - 1 THEN grid[r + 1] ELSE BlankRow]

VgaInit(s) == [s EXCEPT !.grid = BlankGrid, !.pix = BlankGrid, !.row = 0, !.col = 0,
                        !.head = 0, !.count = 0, !.off = 0, !.tape = <<>>, !.stale = {}]

\* The row of the ring that is n rows above the grid.
RingRow(s, n) == s.sb[(s.head - n) % SbLines]
ScreenRow(s, r) == IF r < s.off THEN RingRow(s, s.off - r) ELSE s.grid[r - s.off]
Render(s) == [s EXCEPT !.pix = [r \in 0..Rows - 1 |-> ScreenRow(s, r)], !.stale = {}]

\* The top row goes to the ring; a view that is scrolled back stays on its rows.
Scroll(s) ==
  LET stored == IF s.count < SbLines THEN s.count + 1 ELSE s.count
      off == IF s.off > 0 /\ s.off < stored THEN s.off + 1 ELSE s.off
  IN [s EXCEPT !.sb = [@ EXCEPT ![s.head] = s.grid[0]], !.head = (s.head + 1) % SbLines,
               !.count = stored, !.off = off,
               !.grid = RowsUp(s.grid), !.pix = IF off = 0 THEN RowsUp(s.pix) ELSE s.pix,
               !.row = Rows - 1, !.tape = Append(@, s.grid[0])]

LineFeed(s) == IF s.row + 1 >= Rows THEN Scroll([s EXCEPT !.col = 0])
              ELSE [s EXCEPT !.col = 0, !.row = @ + 1]
CellSet(grid, r, i, c) == [grid EXCEPT ![r] = [@ EXCEPT ![i] = c]]
\* While the view is scrolled back nothing is drawn.
SetCell(s, c) ==
  LET t == [s EXCEPT !.grid = CellSet(@, s.row, s.col, c)]
  IN IF s.off = 0 THEN [t EXCEPT !.pix = CellSet(@, s.row, s.col, c)]
     ELSE [t EXCEPT !.stale = @ \cup {s.off + s.row}]
PutChar(s, c) ==
  IF c = NL THEN LineFeed(s)
  ELSE LET t == SetCell(s, c)
       IN IF s.col + 1 >= Cols THEN LineFeed(t) ELSE [t EXCEPT !.col = @ + 1]
Puts(s, text) == FoldLeft(PutChar, s, text)

GotoCell(s, row, col) == [s EXCEPT !.row = IF row < Rows THEN row ELSE Rows - 1,
                               !.col = IF col < Cols THEN col ELSE Cols - 1]

ViewUp(s) == LET avail == s.count - s.off
             IN IF s.count = 0 \/ avail <= 0 THEN s
                ELSE Render([s EXCEPT !.off = @ + (IF avail < SbStep THEN avail ELSE SbStep)])
ViewDown(s) == IF s.off = 0 THEN s
               ELSE Render([s EXCEPT !.off = @ - (IF s.off < SbStep THEN s.off ELSE SbStep)])
ViewReset(s) == IF s.off = 0 THEN s ELSE Render([s EXCEPT !.off = 0])

(* ------------------------------ the history ---------------------------- *)
HistGet(sh, back) == sh.hist[(sh.tail - back) % HistSize]
HistPush(sh, cmd) ==
  IF cmd = <<>> \/ (sh.count > 0 /\ HistGet(sh, 1) = cmd) THEN sh
  ELSE [sh EXCEPT !.hist = [@ EXCEPT ![sh.tail] = cmd], !.tail = (@ + 1) % HistSize,
                  !.count = IF @ < HistSize THEN @ + 1 ELSE @]

(* ---------------------------- the line editor -------------------------- *)
\* The first place from which a buffer holds one of some characters, and a C
\* string: the characters before the first NUL.
FirstIn(buf, from, cs) == SelectInSubSeq(buf, from, Len(buf), LAMBDA c : c \in cs)
Str(buf) == SubSeq(buf, 1, FirstIn(buf, 1, {NUL}) - 1)
Line(sh) == SubSeq(sh.input, 1, sh.len)

\* buf with its first characters replaced by text and a NUL.
CopyIn(buf, text) ==
  [i \in 1..LineMax + 1 |-> IF i <= Len(text) THEN text[i]
                            ELSE IF i = Len(text) + 1 THEN NUL ELSE buf[i]]

\* Where the line's character at pos is, and the cursor before it.
PosRow(sh, pos) == sh.prRow + (sh.prCol + pos) \div Cols
PosCol(sh, pos) == (sh.prCol + pos) % Cols
GotoPos(s, sh, pos) == GotoCell(s, PosRow(sh, pos), PosCol(sh, pos))
Blanks(n) == [i \in 1..n |-> Space]
\* Mutant of RedrawLen: what an older, longer line left stays.
RedrawLenNew(newLen, oldLen) == newLen
RedrawLen(newLen, oldLen) == (IF newLen > oldLen THEN newLen ELSE oldLen) + 1
Redraw(s, sh, oldLen) ==
  GotoPos(Puts(GotoCell(s, sh.prRow, sh.prCol),
               Line(sh) \o Blanks(RedrawLen(sh.len, oldLen) - sh.len)), sh, sh.len)

ConsoleInit ==
  LET boot == [grid |-> BlankGrid, pix |-> BlankGrid, row |-> 0, col |-> 0,
               sb |-> [i \in 0..SbLines - 1 |-> BlankRow], head |-> 0, count |-> 0,
               off |-> 0, tape |-> <<>>, stale |-> {}]
      s == Puts(boot, Prompt)
  IN /\ screen = s
     /\ shell = [input |-> [i \in 1..LineMax + 1 |-> NUL], len |-> 0, histIdx |-> 0,
                 saved |-> [i \in 1..LineMax + 1 |-> NUL],
                 hist |-> [i \in 0..HistSize - 1 |-> <<>>], count |-> 0, tail |-> 0,
                 prRow |-> s.row, prCol |-> s.col]
     /\ history = <<>> /\ clean = TRUE /\ draft = NoDraft
     /\ screenTorn = FALSE /\ keys = 0

\* What every key but Up and Down starts with: the live view.
Key == keys < MaxKeys /\ keys' = keys + 1
Live == ViewReset(screen)

\* A print leaves s; what it leaves of a torn screen is not followed.
Leaves(s) == screen' = (IF screenTorn THEN screen ELSE s) /\ UNCHANGED screenTorn

\* Nothing is on the screen from the cursor on.  A line repainted from a place
\* that is not its own any more may leave the cursor in front of other rows.
BlankBehind(s) ==
  \A r \in 0..Rows - 1, c \in 0..Cols - 1 :
    r > s.row \/ (r = s.row /\ c >= s.col) => s.grid[r][c] = Space

\* shell_prompt after text was printed: the line starts at the cursor.
PromptAfter(s, sh) ==
  LET t == Puts(s, Prompt)
  IN /\ Leaves(t) /\ shell' = [sh EXCEPT !.prRow = t.row, !.prCol = t.col]
     /\ clean' = (~screenTorn /\ (clean \/ BlankBehind(t)))

\* The rest of a key that only edits the line: the screen after it.
Edited(s, sh) == /\ Leaves(s)
                 /\ shell' = sh
                 /\ clean' = (clean /\ Len(s.tape) = Len(screen.tape))

(* -------------------------------- the keys ----------------------------- *)
Scrolled == /\ Key
            /\ \E s \in {ViewUp(screen), ViewDown(screen)} : Leaves(s)
            /\ UNCHANGED <<shell, history, clean, draft>>

\* shell_dispatch skips spaces and cuts the line at the space after the
\* command's word.
FirstWord(buf) == FirstIn(buf, 1, Letters \cup {NUL})
CutWord(buf) == IF buf[FirstWord(buf)] = NUL THEN buf
                ELSE [buf EXCEPT ![FirstIn(buf, FirstWord(buf), {Space, NUL})] = NUL]
Word(buf) == Str(SubSeq(CutWord(buf), FirstWord(buf), Len(buf)))
Printed(s, word) == IF word = <<>> THEN {s}
                    ELSE IF word = Clear THEN {ViewReset(VgaInit(s))}
                    ELSE {Puts(s, text) : text \in Outputs}

EnterLine ==
  LET cmdline == [shell.input EXCEPT ![shell.len + 1] = NUL]
      word == IF shell.len = 0 THEN <<>> ELSE Word(cmdline)
      done == [HistPush(shell, Str(cmdline)) EXCEPT
                 !.input = IF shell.len = 0 THEN cmdline ELSE CutWord(cmdline), !.len = 0, !.histIdx = 0]
  IN /\ Key
     /\ \E s \in Printed(LineFeed(Live), word) : PromptAfter(s, done)
     /\ history' = IF shell.len = 0 \/ (history # <<>> /\ Last(history) = Line(shell))
                   THEN history ELSE Append(history, Line(shell))
     /\ draft' = NoDraft

Cancel == /\ Key
          /\ PromptAfter(Puts(Live, <<"^", "C", NL>>), [shell EXCEPT !.len = 0, !.histIdx = 0])
          /\ draft' = NoDraft /\ UNCHANGED history

Backspace ==
  LET sh == [shell EXCEPT !.len = @ - 1]
  IN /\ Key
     /\ IF shell.len = 0 THEN Edited(Live, shell) ELSE Edited(Redraw(Live, sh, shell.len), sh)
     /\ UNCHANGED <<history, draft>>

\* Left goes to an older command; the first time it keeps the line being
\* typed, up to and including input[len].
Save(sh) == [sh EXCEPT !.saved = [i \in 1..LineMax + 1 |->
                                    IF i <= sh.len + 1 THEN sh.input[i] ELSE sh.saved[i]]]
Older ==
  LET sh == IF shell.histIdx = 0 THEN Save(shell) ELSE shell
      entry == HistGet(sh, sh.histIdx + 1)
      older == [sh EXCEPT !.histIdx = @ + 1, !.input = CopyIn(@, entry), !.len = Len(entry)]
  IN /\ Key
     /\ IF sh.histIdx < sh.count
        THEN /\ Edited(Redraw(Live, older, shell.len), older)
             /\ draft' = IF sh.histIdx = 0 THEN Line(shell) ELSE draft
        ELSE Edited(Live, sh) /\ UNCHANGED draft
     /\ UNCHANGED history

\* Right goes to a newer command, or back to the line that was kept.
Newer ==
  LET idx == shell.histIdx - 1
      text == IF idx = 0 THEN Str(shell.saved) ELSE HistGet(shell, idx)
      newer == [shell EXCEPT !.histIdx = idx, !.input = CopyIn(@, text), !.len = Len(text)]
  IN /\ Key
     /\ IF shell.histIdx = 0 THEN Edited(Live, shell) /\ UNCHANGED draft
        ELSE /\ Edited(Redraw(Live, newer, shell.len), newer)
             /\ draft' = IF idx = 0 THEN NoDraft ELSE draft
     /\ UNCHANGED history

Matching(sh) == {i \in DOMAIN Cmds : IsPrefix(Line(sh), Cmds[i])}
Completed(word) ==
  SubSeq(word, 1, IF Len(word) < LineMax - 2 THEN Len(word) ELSE LineMax - 2) \o <<Space>>
Joined(text, word) == text \o word
Listed(found) ==
  FoldLeft(Joined, <<NL, Space, Space>>,
           [i \in DOMAIN Cmds |-> IF i \in found THEN Cmds[i] \o <<Space, Space>> ELSE <<>>])

\* One match is completed, with a space; several are listed under a new prompt.
Tab ==
  LET found == Matching(shell)
  IN /\ Key
     /\ \/ found = {} /\ Edited(Live, shell)
        \/ \E i \in found :
             LET word == Completed(Cmds[i])
                 completed == [shell EXCEPT !.input = CopyIn(@, word), !.len = Len(word)]
             IN found = {i} /\ Edited(Redraw(Live, completed, shell.len), completed)
        \/ LET listed == Puts(Puts(Live, Listed(found) \o <<NL>>), Prompt)
               typed == Puts(listed, Line(shell))
           IN /\ \E i, j \in found : i # j
              /\ Leaves(typed)
              /\ shell' = [shell EXCEPT !.prRow = listed.row, !.prCol = listed.col]
              /\ clean' = /\ ~screenTorn /\ (clean \/ BlankBehind(listed))
                          /\ Len(typed.tape) = Len(listed.tape)
     /\ UNCHANGED <<history, draft>>

Printable ==
  \E c \in Letters :
    LET typed == [shell EXCEPT !.input = [@ EXCEPT ![shell.len + 1] = c, ![shell.len + 2] = NUL],
                               !.len = @ + 1]
    IN /\ Key
       /\ IF shell.len < LineMax THEN Edited(PutChar(Live, c), typed) ELSE Edited(Live, shell)
       /\ UNCHANGED <<history, draft>>

\* A program that is still running prints (SYS_PRINT), whatever the view.
OtherPrints == /\ Key
               /\ \E text \in Outputs : Leaves(Puts(screen, text))
               /\ clean' = FALSE
               /\ UNCHANGED <<shell, history, draft>>
\* A tick falls inside a print, of the shell or of a program, and the task that
\* runs next prints too: both store to one cell, or to one row of the ring, or
\* shift the grid twice.
PrintsMix == /\ Key
             /\ screenTorn' = TRUE /\ clean' = FALSE
             /\ UNCHANGED <<screen, shell, history, draft>>

ConsoleNext == \/ Scrolled \/ EnterLine \/ Cancel \/ Backspace \/ Older \/ Newer
               \/ Tab \/ Printable \/ OtherPrints \/ PrintsMix

ConsoleSpec == ConsoleInit /\ [][ConsoleNext]_consoleVars

(* ------------------------------ properties ----------------------------- *)
ConsoleTypeOK ==
  /\ ~screenTorn =>
       /\ screen.row \in 0..Rows - 1 /\ screen.col \in 0..Cols - 1
       /\ screen.head \in 0..SbLines - 1 /\ screen.count \in 0..SbLines
       /\ screen.off \in 0..screen.count
       /\ \A r \in 0..Rows - 1, c \in 0..Cols - 1 : screen.grid[r][c] \in Cells
  /\ shell.len \in 0..LineMax /\ shell.histIdx \in 0..shell.count

\* The ring holds the rows that scrolled off last, newest first, and the
\* pixels are the live grid, or the rows of ring and grid the user scrolled
\* back to, whatever scrolls off meanwhile.  Only a view at the far end of the
\* ring loses its rows to newer ones, and a row written to is not drawn.  No
\* two prints overlapped: pt_scroll, cut between its copy and sb_head + 1 by
\* another scroll, would leave one row of the ring for two.
RowsKept ==
  LET tape == screen.tape
  IN ~screenTorn =>
     /\ screen.count = (IF Len(tape) < SbLines THEN Len(tape) ELSE SbLines)
     /\ \A n \in 1..screen.count : RingRow(screen, n) = tape[Len(tape) - n + 1]
     /\ screen.off = 0 => screen.pix = screen.grid
     /\ screen.off < SbLines =>
          \A r \in (0..Rows - 1) \ screen.stale : screen.pix[r] = ScreenRow(screen, r)

\* What the user sees after the prompt is the line that EnterLine would run, with
\* the cursor behind it and nothing left of an older, longer line, as long as
\* nothing scrolled and no other program printed since the prompt, or into it.
LineShown ==
  clean /\ ~screenTorn =>
    /\ \A i \in 1..shell.len :
         screen.grid[PosRow(shell, i - 1)][PosCol(shell, i - 1)] = shell.input[i]
    /\ screen.row = PosRow(shell, shell.len) /\ screen.col = PosCol(shell, shell.len)
    /\ BlankBehind(screen)

\* hist_get returns the commands entered last, newest first, repeats collapsed.
HistoryKept ==
  /\ shell.count = (IF Len(history) < HistSize THEN Len(history) ELSE HistSize)
  /\ \A back \in 1..shell.count : HistGet(shell, back) = history[Len(history) - back + 1]

\* What Right brings back in the end begins with the line that was being typed,
\* whatever is printed meanwhile.  It need not be that line: the copy takes
\* input[len] for its end, where an erased character may still be, so that
\* erased characters come back behind it.
DraftKept == draft # NoDraft => IsPrefix(draft, Str(shell.saved))

\* The line and the history are what was typed, and the screen is what was
\* printed as long as no two prints overlapped (vga.c, shell_run):
\* ConsoleTypeOK, RowsKept, LineShown, HistoryKept and DraftKept.
ShellTrue == ConsoleTypeOK /\ RowsKept /\ LineShown /\ HistoryKept /\ DraftKept

=============================================================================
