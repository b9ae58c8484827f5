--------------------------- MODULE RegistryStore ---------------------------
(***************************************************************************)
(* The store of the registry (registry/store.go) and its file              *)
(* (registry/persist.go): invite IDs given out, published, closed and      *)
(* swept by requests that run at the same time, and rooms.json.            *)
(*                                                                         *)
(* One process per HTTP request being served, plus the ticker of the       *)
(* sweep.  A step is what runs between two points where others may get in: *)
(* the store's lock is let go around the derivation of an ID's rendezvous  *)
(* network and around the disk, and the file has a mutex of its own.       *)
(*                                                                         *)
(* The map of rooms holds pointers, and the copy that is written shares    *)
(* them.  A room is an object of `heap`; rooms and view say which object,  *)
(* 0 for none.  The writer reads the objects without the store's lock, so  *)
(* of an entry that changes meanwhile each field is read before or after.  *)
(***************************************************************************)
EXTENDS Integers, FiniteSets

CONSTANTS
    Id,         \* the invite IDs
    Key,        \* the keys of the hosts
    NoKey,      \* the owner of no room
    Card,       \* the cards they deposit, each with its signature
    NoCard,     \* the card of a room that is closed
    Request,    \* the requests that may be served at the same time
    Sweeper,    \* the ticker of the sweep
    NoOne,      \* who holds a lock that is free
    RoomTTL,    \* how long a room outlives the silence of its host
    MaxTries,   \* how many IDs Issue tries (8)
    Fault,      \* the faults of this instance: "save", a write that fails
    MaxObject,  \* bound of the model: rooms of an ID someone still points to
    MaxTime,    \* bound of the model: the clock stops here
    MaxRestart  \* bound of the model: ends of the process

Proc == Request \cup {Sweeper}

ASSUME NoneAssumption ==
    /\ NoKey \notin Key /\ NoCard \notin Card
    /\ Sweeper \notin Request /\ NoOne \notin Proc
ASSUME NumberAssumption ==
    /\ RoomTTL \in Nat /\ MaxTries \in Nat /\ MaxObject \in Nat
    /\ MaxTime \in Nat /\ MaxRestart \in Nat
    /\ Fault \subseteq {"save"}

Object == 1..MaxObject

Entry == [owner : Key \cup {NoKey}, card : Card \cup {NoCard},
          sig : Card \cup {NoCard}, pin : Nat, closed : BOOLEAN]

\* No room, on disk or in an object nobody points to.
NoEntry == [owner |-> NoKey, card |-> NoCard, sig |-> NoCard, pin |-> 0, closed |-> FALSE]

VARIABLES
    now,        \* the clock
    rooms,      \* Store.rooms: the object of each ID, 0 without an entry
    heap,       \* the rooms themselves, by ID and object
    file,       \* rooms.json
    pc,         \* what each process is about to do
    job,        \* the request of each process: its ID, key, card and tries
    slot,       \* who is deriving: derivaciones, a channel of one
    view,       \* the copy of the map each process is going to save
    seen,       \* what it had read of it when it began to marshal
    saver,      \* who holds the keeper's mutex
    restarts    \* how many times the process has ended

memory == <<rooms, heap>>
saving == <<view, seen, saver>>
vars   == <<now, memory, file, pc, job, slot, saving, restarts>>

NoView == [i \in Id |-> 0]
NoRooms == [i \in Id |-> NoEntry]
NoJob == [id |-> 0, key |-> NoKey, card |-> NoCard, tries |-> 0]

\* A pin has expired from the instant after its last one.
Expired(e) == now > e.pin

Held(i) == rooms[i] # 0 /\ ~Expired(heap[i][rooms[i]])

Pinned(i, k) == Held(i) /\ heap[i][rooms[i]].owner = k
-----------------------------------------------------------------------------
(* Under the store's lock.                                                 *)

\* limpiar: what is left of the map.
Swept == [i \in Id |-> IF Held(i) THEN rooms[i] ELSE 0]

Goto(p, where) == pc' = [pc EXCEPT ![p] = where]

Return(p) == Goto(p, "idle") /\ job' = [job EXCEPT ![p] = NoJob]

\* An object that nothing points to any more.
Fresh(i) == {o \in Object : o # rooms[i] /\ \A p \in Proc : view[p][i] # o}
-----------------------------------------------------------------------------
(* Issue.                                                                  *)

Issue(p, k, c) ==
    /\ pc[p] = "idle"
    /\ job' = [job EXCEPT ![p] = [NoJob EXCEPT !.key = k, !.card = c]]
    /\ Goto(p, "try")
    /\ UNCHANGED <<now, memory, file, slot, saving, restarts>>

\* One turn of Issue's loop up to the derivation: an ID, and ocupado.
TryId(p) ==
    /\ pc[p] = "try"
    /\ \/ job[p].tries >= MaxTries /\ Return(p)
       \/ /\ job[p].tries < MaxTries
          /\ \E i \in Id :
                \/ /\ Held(i)
                   /\ job' = [job EXCEPT ![p].tries = @ + 1]
                   /\ UNCHANGED pc
                \/ /\ ~Held(i)
                   /\ job' = [job EXCEPT ![p].id = i]
                   /\ Goto(p, "queue")
    /\ UNCHANGED <<now, memory, file, slot, saving, restarts>>

\* acquireDerivation
AcquireDerivation(p) ==
    /\ pc[p] = "queue"
    /\ slot = NoOne
    /\ slot' = p
    /\ Goto(p, "derive")
    /\ UNCHANGED <<now, memory, file, job, saving, restarts>>

\* The one who asked hangs up while waiting for the slot.
HangUp(p) ==
    /\ pc[p] = "queue"
    /\ Return(p)
    /\ UNCHANGED <<now, memory, file, slot, saving, restarts>>

\* Mutant: the slot is not given back.
Bug_Rendezvous(p) ==
    /\ pc[p] = "derive"
    /\ Goto(p, "insert")
    /\ UNCHANGED <<now, memory, file, job, slot, saving, restarts>>

\* rendezvous
Rendezvous(p) ==
    /\ pc[p] = "derive"
    /\ slot' = NoOne
    /\ Goto(p, "insert")
    /\ UNCHANGED <<now, memory, file, job, saving, restarts>>

NewRoom(p) == [owner |-> job[p].key, card |-> job[p].card, sig |-> job[p].card,
               pin |-> now + RoomTTL, closed |-> FALSE]

\* Mutant: the ID is not looked at again once its network is derived.
Bug_Insert(p) ==
    LET i == job[p].id IN
    /\ pc[p] = "insert"
    /\ \E o \in {f \in Fresh(i) : \A g \in Fresh(i) : f <= g} :
        /\ rooms' = [Swept EXCEPT ![i] = o]
        /\ heap' = [heap EXCEPT ![i][o] = NewRoom(p)]
    /\ Goto(p, "snap")
    /\ UNCHANGED <<now, file, job, slot, saving, restarts>>

\* insert; when the ID was taken meanwhile Issue goes on to its next try.
Insert(p) ==
    LET i == job[p].id IN
    /\ pc[p] = "insert"
    /\ \/ /\ Held(i)
          /\ rooms' = Swept
          /\ job' = [job EXCEPT ![p].tries = @ + 1]
          /\ Goto(p, "try")
          /\ UNCHANGED heap
       \/ /\ ~Held(i)
          /\ \E o \in {f \in Fresh(i) : \A g \in Fresh(i) : f <= g} :
                /\ rooms' = [Swept EXCEPT ![i] = o]
                /\ heap' = [heap EXCEPT ![i][o] = NewRoom(p)]
          /\ Goto(p, "snap")
          /\ UNCHANGED job
    /\ UNCHANGED <<now, file, slot, saving, restarts>>
-----------------------------------------------------------------------------
(* The other requests, and the sweep.                                      *)

\* publishUnderLock and retireUnderLock on an ID that is not there, or is
\* pinned to another key: the map has been swept and nothing is saved.
Refused(p, i, k) ==
    /\ pc[p] = "idle"
    /\ ~Pinned(i, k)
    /\ rooms' = Swept
    /\ UNCHANGED <<now, heap, file, pc, job, slot, saving, restarts>>

\* Mutant: publishing a room that was open saves nothing.
Bug_Publish(p, i, k, c) ==
    /\ pc[p] = "idle"
    /\ Pinned(i, k)
    /\ rooms' = Swept
    /\ heap' = [heap EXCEPT ![i][rooms[i]] =
            [@ EXCEPT !.card = c, !.sig = c, !.pin = now + RoomTTL, !.closed = FALSE]]
    /\ IF heap[i][rooms[i]].closed THEN Goto(p, "snap") ELSE UNCHANGED pc
    /\ UNCHANGED <<now, file, job, slot, saving, restarts>>

\* publish: a new card, a new pin, and open again.
Publish(p, i, k, c) ==
    /\ pc[p] = "idle"
    /\ Pinned(i, k)
    /\ rooms' = Swept
    /\ heap' = [heap EXCEPT ![i][rooms[i]] =
            [@ EXCEPT !.card = c, !.sig = c, !.pin = now + RoomTTL, !.closed = FALSE]]
    /\ Goto(p, "snap")
    /\ UNCHANGED <<now, file, job, slot, saving, restarts>>

\* retire: closed now, without its card, and still pinned.
Retire(p, i, k) ==
    /\ pc[p] = "idle"
    /\ Pinned(i, k)
    /\ rooms' = Swept
    /\ heap' = [heap EXCEPT ![i][rooms[i]] =
            [@ EXCEPT !.card = NoCard, !.sig = NoCard, !.closed = TRUE]]
    /\ Goto(p, "snap")
    /\ UNCHANGED <<now, file, job, slot, saving, restarts>>

\* Sweep saves only when it has dropped something.
Sweep ==
    /\ pc[Sweeper] = "idle"
    /\ rooms # Swept
    /\ rooms' = Swept
    /\ Goto(Sweeper, "snap")
    /\ UNCHANGED <<now, heap, file, job, slot, saving, restarts>>
-----------------------------------------------------------------------------
(* respaldar, with the store's lock let go, and the keeper's save.         *)

\* The map is copied under the lock; the rooms are not.
Snapshot(p) ==
    /\ pc[p] = "snap"
    /\ view' = [view EXCEPT ![p] = rooms]
    /\ Goto(p, "wait")
    /\ UNCHANGED <<now, memory, file, job, slot, seen, saver, restarts>>

\* What the copied pointers lead to at this moment.
Pointed(p) == [i \in Id |-> IF view[p][i] = 0 THEN NoEntry ELSE heap[i][view[p][i]]]

\* save begins: the keeper's mutex, and the marshalling of the rooms.
Marshal(p) ==
    /\ pc[p] = "wait"
    /\ saver = NoOne
    /\ saver' = p
    /\ seen' = [seen EXCEPT ![p] = Pointed(p)]
    /\ Goto(p, "write")
    /\ UNCHANGED <<now, memory, file, job, slot, view, restarts>>

\* An entry of which the fields of `late` were read later than the others.
Mixed(early, late, fields) ==
    [f \in DOMAIN early |-> IF f \in fields THEN late[f] ELSE early[f]]

Written(p, late) ==
    [i \in Id |-> IF i \in DOMAIN late THEN Mixed(seen[p][i], Pointed(p)[i], late[i])
                                       ELSE seen[p][i]]

\* save ends: the new file takes the place of the old one in one rename, or
\* it does not.  Nobody is told but the log.
Write(p) ==
    /\ pc[p] = "write"
    /\ \/ \E late \in [{i \in Id : Pointed(p)[i] # seen[p][i]} ->
                        SUBSET {"card", "sig", "pin", "closed"}] :
            file' = Written(p, late)
       \/ "save" \in Fault /\ UNCHANGED file
    /\ saver' = NoOne
    /\ view' = [view EXCEPT ![p] = NoView]
    /\ seen' = [seen EXCEPT ![p] = NoRooms]
    /\ Return(p)
    /\ UNCHANGED <<now, memory, slot, restarts>>
-----------------------------------------------------------------------------
\* The process ends and starts again: load drops what no longer holds an ID.
Restart ==
    /\ restarts < MaxRestart
    /\ restarts' = restarts + 1
    /\ rooms' = [i \in Id |-> IF file[i].owner # NoKey /\ ~Expired(file[i]) THEN 1 ELSE 0]
    /\ heap' = [i \in Id |-> [o \in Object |-> IF o = 1 THEN file[i] ELSE NoEntry]]
    /\ pc' = [p \in Proc |-> "idle"]
    /\ job' = [p \in Proc |-> NoJob]
    /\ slot' = NoOne
    /\ view' = [p \in Proc |-> NoView]
    /\ seen' = [p \in Proc |-> NoRooms]
    /\ saver' = NoOne
    /\ UNCHANGED <<now, file>>

PassTime ==
    /\ now < MaxTime
    /\ now' = now + 1
    /\ UNCHANGED <<memory, file, pc, job, slot, saving, restarts>>
-----------------------------------------------------------------------------
Init ==
    /\ now = 0 /\ restarts = 0
    /\ rooms = NoView
    /\ heap = [i \in Id |-> [o \in Object |-> NoEntry]]
    /\ file = NoRooms
    /\ pc = [p \in Proc |-> "idle"]
    /\ job = [p \in Proc |-> NoJob]
    /\ slot = NoOne
    /\ view = [p \in Proc |-> NoView]
    /\ seen = [p \in Proc |-> NoRooms]
    /\ saver = NoOne

\* What a process does once it has been asked.
Step(p) == TryId(p) \/ Rendezvous(p) \/ Insert(p) \/ Snapshot(p) \/ Write(p)

Asked(p) ==
    \E k \in Key :
        \/ \E c \in Card : Issue(p, k, c)
        \/ \E i \in Id : \/ Refused(p, i, k)
                         \/ Retire(p, i, k)
                         \/ \E c \in Card : Publish(p, i, k, c)

Next ==
    \/ \E p \in Request : Asked(p)
    \/ Sweep
    \/ \E p \in Proc : Step(p) \/ AcquireDerivation(p) \/ HangUp(p) \/ Marshal(p)
    \/ Restart
    \/ PassTime

\* A goroutine that can run does.  Whoever waits on a channel or on a mutex of
\* Go is served in turn, so one that can be had again and again is had.
Fairness ==
    \A p \in Proc : WF_vars(Step(p)) /\ SF_vars(AcquireDerivation(p)) /\ SF_vars(Marshal(p))

Spec == Init /\ [][Next]_vars /\ Fairness
-----------------------------------------------------------------------------
(* Properties.                                                             *)

Waiting == {"queue", "derive", "insert"}

\* Types, and that the derivation slot and the keeper's mutex are held by the
\* process that is inside.
TypeOK ==
    /\ now \in Nat /\ restarts \in Nat
    /\ rooms \in [Id -> {0} \cup Object]
    /\ heap \in [Id -> [Object -> Entry]]
    /\ file \in [Id -> Entry]
    /\ pc \in [Proc -> {"idle", "try", "snap", "wait", "write"} \cup Waiting]
    /\ job \in [Proc -> [id : Id \cup {0}, key : Key \cup {NoKey},
                         card : Card \cup {NoCard}, tries : Nat]]
    /\ \A p \in Proc : pc[p] \in Waiting => job[p].id \in Id
    /\ view \in [Proc -> [Id -> {0} \cup Object]]
    /\ seen \in [Proc -> [Id -> Entry]]
    /\ slot \in Proc \cup {NoOne} /\ saver \in Proc \cup {NoOne}
    /\ \A p \in Proc : pc[p] = "derive" <=> slot = p
    /\ \A p \in Proc : pc[p] = "write" <=> saver = p

\* The registry keeps what InviteOwnership promises, the file included: the
\* race between probing an ID and inserting it (Issue, "Entre el sondeo y la
\* inserción el lock queda suelto") never gives it two owners, and neither does
\* a restart from a file that an older save wrote last.
Ownership == INSTANCE InviteOwnership WITH
    owner <- [i \in Id |-> IF Held(i) THEN heap[i][rooms[i]].owner ELSE NoKey],
    until <- [i \in Id |-> IF Held(i) THEN heap[i][rooms[i]].pin ELSE 0]

OwnershipKept == Ownership!Init /\ [][Ownership!Next]_Ownership!vars

Quiet == \A p \in Proc : pc[p] = "idle"

\* Saves that finish out of order never leave on disk an older card, pin or
\* closing of a room than the one last acknowledged: what the file has of a
\* room that lives is what the memory has, once every request was answered.
FileIsFresh ==
    Quiet => \A i \in Id : Held(i) /\ file[i].owner # NoKey /\ ~Expired(file[i])
                => file[i] = heap[i][rooms[i]]

\* A room whose Issue was answered survives the end of the process (the header
\* of Store: persisting is what makes its "no" mean what it says).
IssuedOnDisk ==
    Quiet => \A i \in Id : Held(i) => file[i].owner = heap[i][rooms[i]].owner

\* The card on disk is the one its signature is of, so whoever reads it after a
\* restart can check it (Room.Sig).
SignedOnDisk == \A i \in Id : file[i].card = file[i].sig

\* Every request is answered, with an ID, with its result or with an error: the
\* derivation slot and the mutexes are always given back.
Answered == \A p \in Proc : pc[p] # "idle" ~> pc[p] = "idle"
=============================================================================
