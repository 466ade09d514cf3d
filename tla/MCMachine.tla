----------------------------- MODULE MCMachine -----------------------------
(***************************************************************************)
(* The parts of the kernel that share no state in the models, checked in   *)
(* one run: a behaviour exercises one part, chosen at the start, and the   *)
(* others stay as they start.                                              *)
(***************************************************************************)
EXTENDS Input, Windows, GuiShell, Console, FileCmds, Heap

MCDeltas == {200, -250}
MCPrompt == <<NL, ">">>
MCCmds == << <<"a", "a">>, <<"a", "b">>, <<"b">> >>
MCClear == <<"b">>
MCOutputs == {<<>>, <<"b", NL>>}
MCGuiPrompt == <<">">>
MCGuiClear == <<"b">>
MCGuiOutputs == {<<"o">>, <<NewLine>>}
MCReaders == {{"wm"}, {"elf"}}

Token(abs, slash, dir, base) == [abs |-> abs, slash |-> slash, dir |-> dir, base |-> base]
MCTokens == {Token(FALSE, FALSE, <<>>, "D"), Token(FALSE, FALSE, <<>>, "g.t"),
             Token(TRUE, TRUE, <<>>, "f.t"), Token(FALSE, TRUE, <<"D">>, "g.t"),
             Token(FALSE, TRUE, <<"D", "..">>, "f.t"), Token(FALSE, TRUE, <<"..">>, NoName)}
MCCdPaths == {[abs |-> FALSE, dir |-> <<"D">>], [abs |-> FALSE, dir |-> <<"..">>],
              [abs |-> TRUE, dir |-> <<"D", "E">>]}

VARIABLE part
Parts == {"keyboard", "mouse", "windows", "gui", "console", "files", "heap"}

Init == /\ KbdInit /\ MouseInit /\ WindowsInit /\ GuiInit
        /\ ConsoleInit /\ FilesInit /\ HeapInit
        /\ part \in Parts
        /\ part # "keyboard" => readers = {"wm"}

Only(p) == /\ part = p /\ UNCHANGED part
           /\ p # "keyboard" => UNCHANGED kbdVars
           /\ p # "mouse" => UNCHANGED mouseVars
           /\ p # "windows" => UNCHANGED windowVars
           /\ p # "gui" => UNCHANGED guiVars
           /\ p # "console" => UNCHANGED consoleVars
           /\ p # "files" => UNCHANGED fileVars
           /\ p # "heap" => UNCHANGED heapVars

Next == \/ Only("keyboard") /\ KbdNext
        \/ Only("mouse") /\ MouseNext
        \/ Only("windows") /\ WindowsNext
        \/ Only("gui") /\ GuiNext
        \/ Only("console") /\ ConsoleNext
        \/ Only("files") /\ FilesNext
        \/ Only("heap") /\ HeapNext

Spec == Init /\ [][Next]_<<part, kbdVars, mouseVars, windowVars, guiVars,
                           consoleVars, fileVars, heapVars>>
=============================================================================
