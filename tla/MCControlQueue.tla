--------------------------- MODULE MCControlQueue ---------------------------
(***************************************************************************)
(* ControlQueue for TLC: at most MaxSent controls of the kinds Sets are     *)
(* sent, updates to the layers named by Names.                              *)
(***************************************************************************)
EXTENDS ControlQueue

CONSTANTS MaxSent, Sets, Names
VARIABLE sent

mcVars == <<vars, sent>>

MCInit == Init /\ sent = 0

Send(c) ==
    /\ sent < MaxSent
    /\ c.set \in Sets
    /\ c.set = "param" => c.target.names \in Names
    /\ TrySend(c)
    /\ sent' = sent + 1

Receive == TryReceive /\ UNCHANGED sent

MCNext == Receive \/ \E c \in Controls : Send(c)

MCSpec == MCInit /\ [][MCNext]_mcVars
=============================================================================
