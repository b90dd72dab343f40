---------------------------- MODULE MCTunDevice -----------------------------
EXTENDS TunDevice

Names == [t \in Regs |-> IF t \in Tuns THEN "tun_device" ELSE t]

Order == [t \in Regs |-> IF t \in Tuns THEN {"main_udp"} ELSE {}]
=============================================================================
