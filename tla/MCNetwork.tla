----------------------------- MODULE MCNetwork -----------------------------
(***************************************************************************)
(* The network stack's three modules side by side.  They meet only in the  *)
(* frames that pass between them, and each has an environment that may     *)
(* produce any of those; a behaviour follows one of them, so that their    *)
(* states add up instead of multiplying.                                   *)
(***************************************************************************)
EXTENDS Tcp, Net, Nic

VARIABLE part   \* the module that takes the steps

vars == <<part, tcpVars, netVars, nicVars>>

MCAddrs == [n \in Names |-> IF n = "one" THEN <<"peer">> ELSE <<"far", "gw">>]
MCCommands == {<<"ping", "peer">>, <<"host", "many">>, <<"lookup", "one">>, <<"dhcp", "gw">>}

Init == /\ part \in {"tcp", "net", "nic"}
        /\ TcpInit /\ NetInit /\ NicInit

InTcp == part = "tcp" /\ UNCHANGED <<part, netVars, nicVars>>
InNet == part = "net" /\ UNCHANGED <<part, tcpVars, nicVars>>
InNic == part = "nic" /\ UNCHANGED <<part, tcpVars, netVars>>

Next == \/ TcpNext /\ InTcp
        \/ NetNext /\ InNet
        \/ NicNext /\ InNic

\* The fairness of the three specifications: a polling loop goes on; time
\* passes, and the card transmits what it owns.
Loops == \/ TcpClient /\ InTcp
         \/ (Command \/ Polling) /\ InNet
         \/ Sending /\ InNic
Outside == \/ Tick /\ InTcp
           \/ Second /\ InNet
           \/ CardSends /\ InNic
FairSpec == Init /\ [][Next]_vars /\ WF_vars(Loops) /\ WF_vars(Outside)

\* Whatever the network does, every call comes back: http_get, a command that
\* asks a question, and e1000_send with its frame on the wire (GetEnds,
\* CommandsEnd, SentInTheEnd).
Busy == pc # "idle" \/ call.at # "idle" \/ queued # sent
CallsReturn == Busy ~> ~Busy

=============================================================================
