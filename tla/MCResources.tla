---------------------------- MODULE MCResources ----------------------------
(***************************************************************************)
(* Three parts of the kernel that share no state in the models, checked in *)
(* one run: one pipe access by access, the descriptors of all pipes, and   *)
(* the address spaces.  A behaviour exercises one part, chosen at the      *)
(* start, and the others stay as they start.                               *)
(***************************************************************************)
EXTENDS PipeProofs, MCAddressSpace

CONSTANT MaxMsg

\* Messages of one to MaxMsg bytes.
MCMessages == UNION {[1 .. n -> Byte] : n \in 1 .. MaxMsg}

VARIABLE part
Parts == {"ring", "descriptors", "spaces"}

ResourcesInit == /\ Init /\ FdsInit /\ SpacesInit
                 /\ part \in Parts
                 /\ part # "ring" => /\ byte = CHOOSE b \in Byte : TRUE
                                     /\ buf = [i \in Index |-> byte]

Only(p) == /\ part = p /\ UNCHANGED part
           /\ p # "ring" => UNCHANGED vars
           /\ p # "descriptors" => UNCHANGED fdsVars
           /\ p # "spaces" => UNCHANGED spaceVars

ResourcesNext == \/ Only("ring") /\ Next
                 \/ Only("descriptors") /\ FdsNext
                 \/ Only("spaces") /\ SpacesNext

\* The system calls that wait are scheduled fairly (PipeRing, PipeFds).
ResourcesSpec ==
  /\ ResourcesInit /\ [][ResourcesNext]_<<part, vars, fdsVars, spaceVars>>
  /\ WF_vars(Only("ring") /\ Reading)
  /\ \A w \in Writers : WF_vars(Only("ring") /\ Writing(w))
  /\ \A t \in Slots : WF_fdsVars(Only("descriptors") /\ Moving(t))
=============================================================================
