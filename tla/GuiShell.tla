------------------------------ MODULE GuiShell ------------------------------
(***************************************************************************)
(* The desktop's shell window (wm.c): the window's text buffer and its     *)
(* view (wm_putchar, the scroll keys), and the line editor of wm_run with  *)
(* its history.  One step is one key; a command runs in a task of its own  *)
(* and prints between keys.  wm_putchar takes no lock: when a tick falls   *)
(* inside a print and another task prints, the window is torn, and its     *)
(* contents are not followed any more.  Colours and drawing are left out.  *)
(*                                                                         *)
(* input[ipos..] is always empty in the code (no key moves ipos alone), so *)
(* ipos, disp_len and ilen are one number, len.                            *)
(***************************************************************************)
EXTENDS Integers, Sequences, SequencesExt

CONSTANTS
  BufRows, BufCols,  \* WM_BUF_ROWS and WM_BUF_COLS
  VisRows,           \* vis_rows
  ViewStep,          \* the rows of one scroll key (3)
  GuiHistMax,        \* HIST_MAX
  GuiLineMax,        \* the longest input line (254)
  GuiPrompt,         \* what print_prompt prints
  GuiClear,          \* the command that clears the window
  GuiLetters,        \* the printable keys
  GuiOutputs,        \* what commands print
  MaxGuiKeys         \* bound: keys and prints of a behaviour

NewLine == "nl"
Back == "bs"
Blank == " "
End == "nul"
Far == BufCols + 1   \* any column past the buffer
NoLine == <<End>>

ASSUME GuiAssumption ==
  /\ BufRows \in Nat \ {0} /\ BufCols \in Nat \ {0} /\ VisRows \in Nat \ {0} /\ ViewStep \in Nat
  /\ GuiHistMax \in Nat \ {0} /\ GuiLineMax \in Nat
  /\ GuiLetters \cap {NewLine, Back, End} = {}
  /\ \A text \in GuiOutputs \cup {GuiPrompt} : text \in Seq(ToSet(text))

VARIABLES
  win,      \* buf, cur_row, cur_col, top_row
  ed,       \* input, ilen, hist_i, hist_draft
  hist,     \* hist_buf, oldest first
  running,  \* wm_cmd_running
  prompting,\* the loop is between a command's dispatch and its prompt
  entered,  \* ghost: the lines entered; kept: the line left for the history
  mark,     \* ghost: where the line starts; good: it is shown from there
  winTorn,  \* ghost: two tasks were inside wm_putchar at once
  guiKeys

guiVars == <<win, ed, hist, running, prompting, entered, mark, winTorn, guiKeys>>

(* ------------------------------ the window ----------------------------- *)
BlankLine == [c \in 0..BufCols - 1 |-> Blank]
BlankBuf == [r \in 0..BufRows - 1 |-> BlankLine]
Cleared(w) == [w EXCEPT !.buf = BlankBuf, !.row = 0, !.col = 0, !.top = 0]

\* A character that does not fit the row goes to the next one.  Below the last
\* row there is none: the character is lost, and its colour, stored where col
\* ends, lands in cur_col.
Wrapped(w) == w.col >= BufCols
Row(w) == IF Wrapped(w) THEN w.row + 1 ELSE w.row
Col(w) == IF Wrapped(w) THEN 0 ELSE w.col
SetCharAt(buf, r, i, c) == [buf EXCEPT ![r] = [@ EXCEPT ![i] = c]]
PutCell(w, c) ==
  IF Row(w) < BufRows
  THEN [w EXCEPT !.buf = SetCharAt(@, Row(w), Col(w), c), !.row = Row(w), !.col = Col(w) + 1]
  ELSE [w EXCEPT !.row = Row(w), !.col = Far]

ScrolledUp(w) ==
  IF w.row < BufRows THEN w
  ELSE [w EXCEPT !.buf = [r \in 0..BufRows - 1 |->
                            IF r < BufRows - 1 THEN w.buf[r + 1] ELSE BlankLine],
                 !.row = BufRows - 1]
CursorSeen(w) == IF w.row >= w.top + VisRows THEN [w EXCEPT !.top = w.row - VisRows + 1] ELSE w

\* wm_putchar.  A backspace stops at the left edge and leaves the view alone.
WmPutchar(w, c) ==
  IF c = Back
  THEN IF w.col = 0 THEN w
       ELSE [w EXCEPT !.buf = SetCharAt(@, w.row, w.col - 1, Blank), !.col = @ - 1]
  ELSE CursorSeen(ScrolledUp(
         IF c = NewLine THEN [w EXCEPT !.row = @ + 1, !.col = 0] ELSE PutCell(w, c)))
WmPuts(w, text) == FoldLeft(WmPutchar, w, text)

\* A window whose cursor has left the buffer: what the next backspace
\* overwrites is not modelled.
Spilled(w) == w.col = Far

(* ---------------------------- the line editor -------------------------- *)
CString(buf) == SubSeq(buf, 1, SelectInSubSeq(buf, 1, Len(buf), LAMBDA c : c = End) - 1)
Typing(e) == SubSeq(e.input, 1, e.len)
NoBuffer == [i \in 1..GuiLineMax + 2 |-> End]
Stored(buf, text) ==
  [i \in DOMAIN buf |-> IF i <= Len(text) THEN text[i]
                        ELSE IF i = Len(text) + 1 THEN End ELSE buf[i]]

\* Mutant of Retyped: as many characters are erased as are typed.
RetypedOver(w, len, text) == WmPuts(w, [i \in 1..Len(text) |-> Back] \o text)
\* wm_redraw_input
Retyped(w, len, text) == WmPuts(w, [i \in 1..len |-> Back] \o text)

GuiInit ==
  LET boot == [buf |-> BlankBuf, row |-> 0, col |-> 0, top |-> 0]
  IN /\ win = WmPuts(boot, GuiPrompt)
     /\ ed = [input |-> NoBuffer, len |-> 0, histI |-> -1, draft |-> NoBuffer]
     /\ hist = <<>> /\ running = FALSE /\ prompting = FALSE
     /\ entered = [lines |-> <<>>, kept |-> NoLine]
     /\ mark = [row |-> win.row, col |-> win.col, good |-> TRUE]
     /\ winTorn = FALSE /\ guiKeys = 0

GuiStep == ~Spilled(win) /\ guiKeys < MaxGuiKeys /\ guiKeys' = guiKeys + 1
GuiKey == GuiStep /\ ~prompting

\* A print leaves w; what it leaves of a torn window is not followed.
Shows(w) == win' = (IF winTorn THEN win ELSE w) /\ UNCHANGED winTorn

\* The line e is on the window w, if it was before and fits the row.
Showing(w, e) ==
  /\ Shows(w) /\ ed' = e
  /\ mark' = [mark EXCEPT !.good = @ /\ mark.col + e.len <= BufCols]
\* A new prompt; a line half entered is not shown behind it.
Prompted(w) ==
  LET p == WmPuts(w, <<NewLine>> \o GuiPrompt)
  IN /\ Shows(p)
     /\ mark' = [row |-> p.row, col |-> p.col, good |-> ed'.len = 0 /\ ~winTorn]
NoKeyboard == UNCHANGED <<ed, hist, entered, prompting>>

(* -------------------------------- the keys ----------------------------- *)
Bottom(w) == IF w.row - VisRows + 1 < 0 THEN 0 ELSE w.row - VisRows + 1
ScrollKey ==
  /\ GuiKey
  /\ \/ Shows([win EXCEPT !.top = IF @ < ViewStep THEN 0 ELSE @ - ViewStep])
     \/ Shows([win EXCEPT !.top = IF @ >= Bottom(win) THEN @
                                  ELSE IF @ + ViewStep > Bottom(win) THEN Bottom(win)
                                  ELSE @ + ViewStep])
  /\ NoKeyboard /\ UNCHANGED <<running, mark>>

TypeKey ==
  /\ GuiKey /\ ed.len < GuiLineMax
  /\ \E c \in GuiLetters :
       Showing(WmPutchar(win, c), [ed EXCEPT !.input = [@ EXCEPT ![ed.len + 1] = c], !.len = @ + 1])
  /\ UNCHANGED <<hist, entered, prompting, running>>

BackspaceKey ==
  /\ GuiKey /\ ed.len > 0
  /\ LET e == [ed EXCEPT !.len = @ - 1]
     IN Showing(Retyped(win, ed.len, Typing(e)), e)
  /\ UNCHANGED <<hist, entered, prompting, running>>

\* Left: an older command; first the line is kept, up to and including
\* input[ilen].
Kept(e) == [e EXCEPT !.histI = 0,
                     !.draft = [i \in DOMAIN e.draft |->
                                  IF i <= e.len + 1 THEN e.input[i] ELSE e.draft[i]]]
Entry(i) == hist[Len(hist) - i]
Recalled(e, text) == [e EXCEPT !.input = Stored(@, text), !.len = Len(text)]
LeftKey ==
  /\ GuiKey /\ hist # <<>>
  /\ LET e == IF ed.histI = -1 THEN Kept(ed)
              ELSE IF ed.histI < Len(hist) - 1 THEN [ed EXCEPT !.histI = @ + 1] ELSE ed
     IN Showing(Retyped(win, ed.len, Entry(e.histI)), Recalled(e, Entry(e.histI)))
  /\ entered' = IF ed.histI = -1 THEN [entered EXCEPT !.kept = Typing(ed)] ELSE entered
  /\ UNCHANGED <<hist, prompting, running>>

\* Right: a newer command, or the line that was kept.
RightKey ==
  /\ GuiKey /\ ed.histI >= 0
  /\ LET text == IF ed.histI = 0 THEN CString(ed.draft) ELSE Entry(ed.histI - 1)
     IN Showing(Retyped(win, ed.len, text), Recalled([ed EXCEPT !.histI = @ - 1], text))
  /\ entered' = IF ed.histI = 0 THEN [entered EXCEPT !.kept = NoLine] ELSE entered
  /\ UNCHANGED <<hist, prompting, running>>

\* Enter: the line joins the history, and is carried out: by the loop itself,
\* or in a task that prints when it likes; while one runs another is refused.
HistSave(h, cmd) ==
  IF cmd = <<>> THEN h
  ELSE IF Len(h) < GuiHistMax THEN Append(h, cmd) ELSE Append(Tail(h), cmd)
Refused == <<"!", NewLine>>
EnterKey ==
  LET cmd == Typing(ed)
      w == WmPutchar(win, NewLine)
  IN /\ GuiKey
     /\ hist' = HistSave(hist, cmd)
     /\ entered' = IF cmd = <<>> THEN entered
                 ELSE [lines |-> Append(entered.lines, cmd), kept |-> NoLine]
     /\ ed' = [ed EXCEPT !.input = [@ EXCEPT ![ed.len + 1] = End], !.len = 0,
                         !.histI = IF cmd = <<>> THEN @ ELSE -1]
     /\ \/ cmd = <<>> /\ Shows(w) /\ UNCHANGED running
        \/ cmd = GuiClear /\ Shows(Cleared(w)) /\ UNCHANGED running
        \/ /\ cmd \notin {<<>>, GuiClear}
           /\ \/ (\E text \in GuiOutputs : Shows(WmPuts(w, text))) /\ UNCHANGED running
              \/ Shows(w) /\ ~running /\ running' = TRUE
              \/ Shows(WmPuts(w, Refused)) /\ running /\ UNCHANGED running
     /\ mark' = [mark EXCEPT !.good = FALSE]
     /\ prompting' = TRUE

\* The loop prints the prompt unless a command runs; one that ended in
\* between has printed its own.
AfterEnter == /\ prompting /\ prompting' = FALSE
              /\ UNCHANGED <<ed, hist, entered, running, guiKeys>>
              /\ IF running \/ Spilled(win) THEN UNCHANGED <<win, mark, winTorn>> ELSE Prompted(win)

(* ----------------------------- wm_shell_cmd_task ----------------------- *)
\* Another task prints between two keys: the command's, or a program's whose
\* own window is gone (wm_hook_print).
CommandPrints == /\ GuiStep
                 /\ \E text \in GuiOutputs : Shows(WmPuts(win, text))
                 /\ mark' = [mark EXCEPT !.good = FALSE]
                 /\ NoKeyboard /\ UNCHANGED running
\* A tick falls inside a print, of the loop or of another task, and the task
\* that runs next prints too.  The rows, the cursor and the view that the two
\* leave need not fit each other: one may store below the last row while the
\* other is about to scroll, or store its view over a cleared window.
PrintsOverlap == /\ GuiStep /\ winTorn' = TRUE
                 /\ mark' = [mark EXCEPT !.good = FALSE]
                 /\ NoKeyboard /\ UNCHANGED <<win, running>>
CommandEnds == /\ running /\ running' = FALSE
               /\ NoKeyboard /\ UNCHANGED guiKeys
               /\ IF Spilled(win) THEN UNCHANGED <<win, mark, winTorn>> ELSE Prompted(win)

GuiNext == \/ ScrollKey \/ TypeKey \/ BackspaceKey \/ LeftKey \/ RightKey
           \/ EnterKey \/ AfterEnter \/ CommandPrints \/ PrintsOverlap \/ CommandEnds

GuiSpec == GuiInit /\ [][GuiNext]_guiVars

(* ------------------------------ properties ----------------------------- *)
GuiTypeOK == /\ ~winTorn => win.row \in 0..BufRows - 1 /\ win.col \in 0..Far
             /\ ed.len \in 0..GuiLineMax /\ ed.histI \in -1..Len(hist) - 1
             /\ running \in BOOLEAN /\ prompting \in BOOLEAN

\* The view shows rows that exist, and never lies below the cursor, as long as
\* no two prints overlapped.
ViewSound == ~winTorn => win.top \in 0..Bottom(win)

\* While nothing else is printed and the line fits its row, the window shows
\* behind the prompt exactly the line that Enter would run.
WindowShowsLine ==
  mark.good /\ ~winTorn =>
    /\ win.row = mark.row /\ win.col = mark.col + ed.len
    /\ \A i \in 1..ed.len : win.buf[mark.row][mark.col + i - 1] = ed.input[i]
    /\ \A c \in 0..BufCols - 1 : c >= win.col => win.buf[win.row][c] = Blank

\* The history is the lines entered last, repeats included.
WindowHistory ==
  LET n == Len(entered.lines)
  IN hist = SubSeq(entered.lines, IF n > GuiHistMax THEN n - GuiHistMax + 1 ELSE 1, n)

\* What Right brings back in the end begins with the line that was being
\* entered, whatever is printed meanwhile.  It need not be that line: the copy
\* takes input[ilen] for its end, where an erased character may still be, so
\* that erased characters come back behind it.
KeptLineBack == entered.kept # NoLine => IsPrefix(entered.kept, CString(ed.draft))

\* The desktop's shell window recalls what was entered, and shows and scrolls
\* what was printed as long as no two prints overlapped (wm.c): GuiTypeOK,
\* ViewSound, WindowShowsLine, WindowHistory and KeptLineBack.
GuiTrue == GuiTypeOK /\ ViewSound /\ WindowShowsLine /\ WindowHistory /\ KeptLineBack
=============================================================================
