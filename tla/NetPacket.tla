----------------------------- MODULE NetPacket ------------------------------
(***************************************************************************)
(* The packets clients exchange (vnt/src/protocol/mod.rs): the head every  *)
(* handler looks at, and a body.  A body is a term: an IP packet, a        *)
(* compressed or sealed body, or the list of a broadcast.  Byte positions  *)
(* are in PacketFormats; here a length is kept where room matters.         *)
(***************************************************************************)
EXTENDS Naturals

HeadLen == 12
MaxTtl == 15

(* The flags of a head: what a reused buffer keeps from one packet to the  *)
(* next, since the setters change a bit each.                              *)
Flags == [gateway : BOOLEAN, encrypt : BOOLEAN, extension : BOOLEAN]
NoFlags == [gateway |-> FALSE, encrypt |-> FALSE, extension |-> FALSE]
FlagsOf(p) == [gateway |-> p.gateway, encrypt |-> p.encrypt, extension |-> p.extension]

(* A head written into a buffer with the given flags: everything else is   *)
(* set, the flags stay (set_default_version keeps the upper bits).         *)
NewPacket(flags, transport, ttl, src, dst, body, len) ==
    [gateway |-> flags.gateway, encrypt |-> flags.encrypt, extension |-> flags.extension,
     transport |-> transport, sourceTtl |-> ttl, ttl |-> ttl,
     src |-> src, dst |-> dst, body |-> body, len |-> len]

(* Mutant: the time to live stays.                                         *)
IncrTtl_Keeps(p) == p

(* incr_ttl, whose name notwithstanding takes one off.                     *)
IncrTtl(p) == [p EXCEPT !.ttl = @ - 1]

(* Mutant: the time to live that relays change is part of the tag.         *)
HeadTag_Ttl(p) == <<p.src, p.dst, p.transport, p.gateway, p.ttl>>

(* What a cipher binds a body to: the part of the head no relay changes.   *)
HeadTag(p) == <<p.src, p.dst, p.transport, p.gateway, p.sourceTtl>>
=============================================================================
