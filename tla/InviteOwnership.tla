-------------------------- MODULE InviteOwnership --------------------------
(***************************************************************************)
(* What the registry promises about invite IDs (registry/store.go, Room    *)
(* and Store): an ID belongs to the key that was given it, for RoomTTL     *)
(* since that key last deposited a card, and to no one else meanwhile.  A  *)
(* restart may forget an owner, or the last deposits of one; it never      *)
(* hands an ID to somebody else.                                           *)
(***************************************************************************)
EXTENDS Integers

CONSTANTS
    Id,         \* the invite IDs
    Key,        \* the keys of the hosts
    NoKey,      \* the owner of an ID that belongs to no one
    RoomTTL     \* how long an ID outlives the silence of its host

VARIABLES
    now,        \* the clock of the registry
    owner,      \* the key each ID belongs to
    until,      \* the last moment it does, 0 without an owner
    restarts    \* how many times the registry has started again

vars == <<now, owner, until, restarts>>

Init ==
    /\ now = 0 /\ restarts = 0
    /\ owner = [i \in Id |-> NoKey]
    /\ until = [i \in Id |-> 0]

Claim(i, k) ==
    /\ owner[i] = NoKey
    /\ owner' = [owner EXCEPT ![i] = k]
    /\ until' = [until EXCEPT ![i] = now + RoomTTL]
    /\ UNCHANGED <<now, restarts>>

Extend(i) ==
    /\ owner[i] # NoKey
    /\ until' = [until EXCEPT ![i] = now + RoomTTL]
    /\ UNCHANGED <<now, owner, restarts>>

PassTime ==
    /\ now' = now + 1
    /\ owner' = [i \in Id |-> IF now' > until[i] THEN NoKey ELSE owner[i]]
    /\ until' = [i \in Id |-> IF now' > until[i] THEN 0 ELSE until[i]]
    /\ UNCHANGED restarts

Restart ==
    /\ restarts' = restarts + 1
    /\ \A i \in Id : \/ owner'[i] = NoKey /\ until'[i] = 0
                     \/ owner'[i] = owner[i] /\ until'[i] \in now..until[i]
    /\ UNCHANGED now

Next ==
    \/ \E i \in Id : Extend(i) \/ \E k \in Key : Claim(i, k)
    \/ PassTime
    \/ Restart

Spec == Init /\ [][Next]_vars
=============================================================================
