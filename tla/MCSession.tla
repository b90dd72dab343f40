----------------------------- MODULE MCSession ------------------------------
(* Small instances of Session.                                             *)
EXTENDS Session, TLC

Addresses == Permutations(Ips)

(* Once registrations with different addresses have overlapped there is    *)
(* nothing left to check of TunMatches.                                    *)
Unmixed == ~mixed
=============================================================================
