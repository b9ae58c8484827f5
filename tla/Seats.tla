-------------------------------- MODULE Seats --------------------------------
(***************************************************************************)
(* What a host promises about the seats of its room (core/usecase,         *)
(* issuecredential.go, kickmember.go and persist.go).  A seat is an        *)
(* address lent to a key until a date.  An address is lent to one key at a *)
(* time and a key borrows one; whoever is kicked leaves theirs held, for   *)
(* nobody, until a date too.  Who was let in stays in while they keep the  *)
(* seat.  The host may write what is lent and held, and a room that is     *)
(* opened again starts from what was written last or from nothing.         *)
(***************************************************************************)
EXTENDS Integers

CONSTANTS
    Addr,       \* the addresses the room has to lend
    Key,        \* the keys of those who ask for one
    NoKey,      \* the key of an address lent to no one
    SeatTTL,    \* how long a seat lasts since it was lent or renewed
    HoldTTL     \* how long a kick holds the address

VARIABLES
    now,        \* the wall clock
    open,       \* there is a room
    lease,      \* who each address is lent to, and until when
    kept,       \* what is written of it
    admitted    \* the addresses let in

vars == <<now, open, lease, kept, admitted>>

Free == [key |-> NoKey, until |-> 0]
Empty == [a \in Addr |-> Free]

Lent(l) == {a \in Addr : l[a].key # NoKey}

\* What is left of it at a time: an address is free from the last date on.
Aged(l, t) == [a \in Addr |-> IF t < l[a].until THEN l[a] ELSE Free]

\* Who is let in, and keeps the seat, stays in.
StayIn ==
    \A a \in Addr : a \in admitted \ admitted' => lease[a].key = NoKey \/ lease'[a].key = NoKey

Write == kept' \in {kept, lease'}

Init ==
    /\ now = 0 /\ open = FALSE
    /\ lease = Empty /\ kept = Empty /\ admitted = {}

Admit == open /\ UNCHANGED <<now, open, lease, kept>> /\ StayIn

Renew(A) ==
    /\ open /\ UNCHANGED <<now, open>>
    /\ A # {} /\ A \subseteq Lent(lease)
    /\ lease' = [a \in Addr |-> IF a \in A THEN [lease[a] EXCEPT !.until = now + SeatTTL]
                                           ELSE lease[a]]
    /\ Write /\ StayIn

Without(k) == [a \in Addr |-> IF lease[a].key = k THEN Free ELSE lease[a]]

\* Whoever asks gets an address that is free, or their own, and keeps no other.
Lend(k, a) ==
    /\ open /\ UNCHANGED <<now, open>>
    /\ Without(k)[a] = Free
    /\ lease' = [Without(k) EXCEPT ![a] = [key |-> k, until |-> now + SeatTTL]]
    /\ Write /\ StayIn

\* The seat the engine no longer knows of is lost, and there is no other.
Lose(k) ==
    /\ open /\ UNCHANGED <<now, open, admitted, kept>>
    /\ lease' = Without(k)

Kick(a) ==
    /\ open /\ UNCHANGED <<now, open>>
    /\ a \notin admitted'
    /\ lease' = [lease EXCEPT ![a] = [key |-> NoKey, until |-> now + HoldTTL]]
    /\ Write /\ StayIn

\* A new room, or the one that was written.
Open ==
    /\ ~open /\ open'
    /\ UNCHANGED <<now, kept>>
    /\ lease' \in {Empty, kept}
    /\ admitted' = {}

\* The room is closed, or its process ends.
Close ==
    /\ ~open' /\ UNCHANGED now
    /\ lease' = Empty
    /\ admitted' = {}
    /\ kept' \in {kept, Empty}

Discard == UNCHANGED <<now, open, admitted, lease>> /\ kept' = Empty

PassTime ==
    /\ now' = now + 1
    /\ lease' = Aged(lease, now')
    /\ kept' = Aged(kept, now')
    /\ UNCHANGED <<open, admitted>>

Next ==
    \/ Admit
    \/ PassTime
    \/ Open \/ Close \/ Discard
    \/ \E a \in Addr : Kick(a)
    \/ \E k \in Key : Lose(k) \/ \E a \in Addr : Lend(k, a)
    \/ \E A \in SUBSET Addr : Renew(A)

Spec == Init /\ [][Next]_vars
=============================================================================
