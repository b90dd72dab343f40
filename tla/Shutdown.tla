------------------------------ MODULE Shutdown ------------------------------
(***************************************************************************)
(* What the client's threads, its program and whoever waits for its end    *)
(* may rely on when it stops: a thread that joins is told to end before it *)
(* has ended, once; closing tells all threads there are, and after it none *)
(* joins; the program hears of the end, and a wait returns, only when the  *)
(* client is closed and every thread has ended.                            *)
(***************************************************************************)

CONSTANTS Regs, Waiters

VARIABLES
    joined,    \* threads that registered
    told,      \* those whose listener was called
    ended,     \* those that are through
    closed,    \* the client is stopped: nobody joins any more
    heard,     \* the program's stop callback ran
    returned   \* waits that reported the end

vars == <<joined, told, ended, closed, heard, returned>>

Init ==
    /\ joined = {} /\ told = {} /\ ended = {}
    /\ closed = FALSE /\ heard = FALSE
    /\ returned = {}

Join(t) ==
    /\ ~closed /\ t \notin joined
    /\ joined' = joined \cup {t}
    /\ UNCHANGED <<told, ended, closed, heard, returned>>

(* A thread that goes by itself is told by itself, and nobody else is.     *)
TellOne(t) ==
    /\ ~closed /\ t \in joined \ told
    /\ told' = told \cup {t}
    /\ UNCHANGED <<joined, ended, closed, heard, returned>>

Close ==
    /\ ~closed /\ closed' = TRUE
    /\ told' = joined
    /\ UNCHANGED <<joined, ended, heard, returned>>

End(t) ==
    /\ t \in told \ ended
    /\ ended' = ended \cup {t}
    /\ UNCHANGED <<joined, told, closed, heard, returned>>

AllEnded == closed /\ ended = joined

Hear ==
    /\ AllEnded /\ ~heard
    /\ heard' = TRUE
    /\ UNCHANGED <<joined, told, ended, closed, returned>>

Return(w) ==
    /\ AllEnded
    /\ returned' = returned \cup {w}
    /\ UNCHANGED <<joined, told, ended, closed, heard>>

Next ==
    \/ \E t \in Regs : Join(t) \/ TellOne(t) \/ End(t)
    \/ Close \/ Hear
    \/ \E w \in Waiters : Return(w)

Spec == Init /\ [][Next]_vars
=============================================================================
