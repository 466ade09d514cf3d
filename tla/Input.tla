------------------------------- MODULE Input -------------------------------
(***************************************************************************)
(* The input devices together.  The keyboard's interrupt and the mouse's   *)
(* polls share the 8042 but no variable of the kernel: a behaviour of both *)
(* is one of KbdSpec and one of MouseSpec.                                 *)
(***************************************************************************)
EXTENDS Keyboard, Mouse

InputSpec == KbdSpec /\ MouseSpec

\* What the keyboard's readers get is what was pressed, and the pointer is where
\* the packets moved it (keyboard.c, mouse.c): KeysTrue and PointerTrue.
InputTrue == KeysTrue /\ PointerTrue

=============================================================================
