------------------------------ MODULE Delivery ------------------------------
(***************************************************************************)
(* What the virtual network promises its users: a packet a device hands to *)
(* the network comes out of the devices it is meant for, once and          *)
(* unchanged, or not at all.  An echo request may be answered on behalf of *)
(* a device instead.                                                       *)
(***************************************************************************)
EXTENDS Naturals

CONSTANT Nodes

VARIABLES
    known,  \* packets that entered the network
    owed,   \* pairs of a node and a packet its device is still to get
    count   \* node -> packets its device got from others

vars == <<known, owed, count>>

Init ==
    /\ known = {} /\ owed = {}
    /\ count = [n \in Nodes |-> 0]

(* Only packets that are new can be owed to anyone.                        *)
NewOnly == \A e \in owed' \ owed : e[2] \in known' \ known

Offer ==
    /\ known \subseteq known' /\ owed \subseteq owed'
    /\ NewOnly
    /\ UNCHANGED count

(* A device gets what it is owed.                                          *)
Give(e) ==
    /\ owed' = owed \ {e}
    /\ count' = [count EXCEPT ![e[1]] = @ + 1]
    /\ UNCHANGED known

(* What it is owed is answered with one new packet.                        *)
Answer(e) ==
    /\ known \subseteq known'
    /\ owed \ {e} \subseteq owed' /\ e \notin owed'
    /\ NewOnly /\ \A d, f \in owed' \ owed : d = f
    /\ UNCHANGED count

Next == Offer \/ \E e \in owed : Give(e) \/ Answer(e)

Spec == Init /\ [][Next]_vars
=============================================================================
