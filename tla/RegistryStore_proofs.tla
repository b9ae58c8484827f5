----------------------- MODULE RegistryStore_proofs -----------------------
(***************************************************************************)
(* Proofs about the store of the registry, for any number of IDs, keys,    *)
(* cards and requests.                                                     *)
(*                                                                         *)
(* The argument.  A saver works on pointers it copied some time ago, so    *)
(* what it writes is harmless only because of where those pointers lead:   *)
(* to the room that still has the ID, or to one that has expired           *)
(* (PointersCurrent).  Expired rooms stay expired, because only the room   *)
(* in the map is given a new pin.  Hence whatever mixture of old and new   *)
(* fields reaches the disk, an entry that would survive a restart is of    *)
(* the room in memory, with its owner and no more than its pin (FileFits). *)
(***************************************************************************)
EXTENDS RegistryStore, TLAPS

\* An entry that load would bring back.
Loads(e) == e.owner # NoKey /\ ~Expired(e)

\* The room that has an ID.
Room(i) == heap[i][rooms[i]]

\* Whoever is being given an ID has a key.
Asking == \A p \in Proc : pc[p] \in Waiting \cup {"try"} => job[p].key \in Key

OwnedRooms == \A i \in Id : rooms[i] # 0 => Room(i).owner \in Key

\* No pin is further away than one TTL.
PinsBounded ==
    \A i \in Id :
        /\ \A o \in Object : heap[i][o].pin <= now + RoomTTL
        /\ file[i].pin <= now + RoomTTL

PointersCurrent ==
    \A p \in Proc, i \in Id :
        view[p][i] # 0 => view[p][i] = rooms[i] \/ Expired(heap[i][view[p][i]])

\* What a saver has read has the owner of what its pointers lead to.
SeenFits ==
    \A p \in Proc, i \in Id : pc[p] = "write" =>
        /\ seen[p][i].owner = Pointed(p)[i].owner
        /\ seen[p][i].pin <= Pointed(p)[i].pin

FileFits ==
    \A i \in Id : Loads(file[i]) =>
        /\ Held(i)
        /\ file[i].owner = Room(i).owner
        /\ file[i].pin <= Room(i).pin

StoreInv ==
    TypeOK /\ Asking /\ OwnedRooms /\ PinsBounded /\ PointersCurrent /\ SeenFits /\ FileFits
-----------------------------------------------------------------------------
(* Entries.                                                                *)

LEMMA NoEntryType == NoEntry \in Entry
    BY DEF NoEntry, Entry

LEMMA MixedEntry ==
    ASSUME NEW early \in Entry, NEW late \in Entry,
           NEW fields \in SUBSET {"card", "sig", "pin", "closed"}
    PROVE  /\ Mixed(early, late, fields) \in Entry
           /\ Mixed(early, late, fields).owner = early.owner
           /\ Mixed(early, late, fields).pin \in {early.pin, late.pin}
           /\ early = late => Mixed(early, late, fields) = early
    BY DEF Mixed, Entry

LEMMA PointedType ==
    ASSUME TypeOK, NEW p \in Proc
    PROVE  Pointed(p) \in [Id -> Entry]
<1>1. ASSUME NEW i \in Id, view[p][i] # 0
      PROVE  heap[i][view[p][i]] \in Entry
    BY <1>1 DEF TypeOK
<1> QED BY <1>1, NoEntryType DEF Pointed

LEMMA PointedTypeNext ==
    ASSUME TypeOK', NEW p \in Proc
    PROVE  Pointed(p)' \in [Id -> Entry]
<1>1. ASSUME NEW i \in Id, view'[p][i] # 0
      PROVE  heap'[i][view'[p][i]] \in Entry
    BY <1>1 DEF TypeOK
<1> QED BY <1>1, NoEntryType DEF Pointed

\* Each entry a save writes.
LEMMA WrittenEntry ==
    ASSUME TypeOK, NEW p \in Proc,
           NEW late \in [{i \in Id : Pointed(p)[i] # seen[p][i]} ->
                            SUBSET {"card", "sig", "pin", "closed"}]
    PROVE  /\ Written(p, late) \in [Id -> Entry]
           /\ \A i \in Id :
                /\ Written(p, late)[i].owner = seen[p][i].owner
                /\ Written(p, late)[i].pin \in {seen[p][i].pin, Pointed(p)[i].pin}
                /\ Pointed(p)[i] = seen[p][i] => Written(p, late)[i] = seen[p][i]
<1>1. Pointed(p) \in [Id -> Entry] /\ seen[p] \in [Id -> Entry]
    BY PointedType DEF TypeOK
<1>2. ASSUME NEW i \in Id, i \in DOMAIN late
      PROVE  /\ Written(p, late)[i] \in Entry
             /\ Written(p, late)[i].owner = seen[p][i].owner
             /\ Written(p, late)[i].pin \in {seen[p][i].pin, Pointed(p)[i].pin}
             /\ Pointed(p)[i] # seen[p][i]
    <2>1. late[i] \in SUBSET {"card", "sig", "pin", "closed"}
        BY <1>2
    <2>2. Written(p, late)[i] = Mixed(seen[p][i], Pointed(p)[i], late[i])
        BY <1>2 DEF Written
    <2> QED BY <1>1, <1>2, <2>1, <2>2, MixedEntry
<1>3. ASSUME NEW i \in Id, i \notin DOMAIN late
      PROVE  Written(p, late)[i] = seen[p][i]
    BY <1>3 DEF Written
<1> QED BY <1>1, <1>2, <1>3 DEF Written
-----------------------------------------------------------------------------
(* The types.                                                              *)

LEMMA NewRoomType ==
    ASSUME TypeOK, NEW p \in Proc
    PROVE  NewRoom(p) \in Entry
    BY NumberAssumption DEF NewRoom, Entry, TypeOK

LEMMA SweptType ==
    ASSUME TypeOK
    PROVE  Swept \in [Id -> {0} \cup Object]
    BY DEF TypeOK, Swept

\* TypeOK in its two parts: the sets the variables are in, and who is inside.
Where == {"idle", "try", "snap", "wait", "write"} \cup Waiting

Job == [id : Id \cup {0}, key : Key \cup {NoKey}, card : Card \cup {NoCard}, tries : Nat]

Shape ==
    /\ now \in Nat /\ restarts \in Nat
    /\ rooms \in [Id -> {0} \cup Object]
    /\ heap \in [Id -> [Object -> Entry]]
    /\ file \in [Id -> Entry]
    /\ pc \in [Proc -> Where]
    /\ job \in [Proc -> Job]
    /\ view \in [Proc -> [Id -> {0} \cup Object]]
    /\ seen \in [Proc -> [Id -> Entry]]
    /\ slot \in Proc \cup {NoOne} /\ saver \in Proc \cup {NoOne}

Inside ==
    /\ \A p \in Proc : pc[p] \in Waiting => job[p].id \in Id
    /\ \A p \in Proc : pc[p] = "derive" <=> slot = p
    /\ \A p \in Proc : pc[p] = "write" <=> saver = p

LEMMA TypeParts == TypeOK <=> Shape /\ Inside
    BY DEF TypeOK, Shape, Inside, Where, Job

LEMMA TypePartsNext == TypeOK' <=> Shape' /\ Inside'
    BY DEF TypeOK, Shape, Inside, Where, Job

LEMMA TypeInitially == Init => TypeOK
    BY NoneAssumption, NoEntryType
    DEF Init, TypeOK, NoView, NoRooms, NoJob, Waiting, Proc

\* How one step of a process moves its own records and the two locks.
Moves(p, where, mine) ==
    /\ where \in Where /\ Goto(p, where)
    /\ mine \in Job /\ job' = [job EXCEPT ![p] = mine]
    /\ where \in Waiting => mine.id \in Id
    /\ slot' = IF where = "derive" THEN p ELSE IF pc[p] = "derive" THEN NoOne ELSE slot
    /\ saver' = IF where = "write" THEN p ELSE IF pc[p] = "write" THEN NoOne ELSE saver
    /\ where = "derive" => slot = NoOne
    /\ where = "write" => saver = NoOne

LEMMA OwnStep ==
    ASSUME Shape, Inside, NEW p \in Proc, NEW where, NEW mine, Moves(p, where, mine)
    PROVE  /\ Inside'
           /\ pc' \in [Proc -> Where] /\ job' \in [Proc -> Job]
           /\ slot' \in Proc \cup {NoOne} /\ saver' \in Proc \cup {NoOne}
<1>1. /\ pc' \in [Proc -> Where] /\ pc'[p] = where
      /\ \A q \in Proc \ {p} : pc'[q] = pc[q]
    BY DEF Goto, Shape, Moves
<1>2. /\ job' \in [Proc -> Job] /\ job'[p] = mine
      /\ \A q \in Proc \ {p} : job'[q] = job[q]
    BY DEF Shape, Moves
<1>3. NoOne \notin Proc
    BY NoneAssumption
<1>4. \A q \in Proc : pc'[q] \in Waiting => job'[q].id \in Id
    BY <1>1, <1>2 DEF Inside, Moves
<1>5. \A q \in Proc : pc'[q] = "derive" <=> slot' = q
    BY <1>1, <1>3 DEF Inside, Moves
<1>6. \A q \in Proc : pc'[q] = "write" <=> saver' = q
    BY <1>1, <1>3 DEF Inside, Moves
<1> QED BY <1>1, <1>2, <1>3, <1>4, <1>5, <1>6 DEF Inside, Shape, Moves

\* A step that leaves the request as it is.
LEMMA SameJob ==
    ASSUME Shape, NEW p \in Proc
    PROVE  job = [job EXCEPT ![p] = job[p]] /\ job[p] \in Job
    BY DEF Shape

LEMMA NoJobType == NoJob \in Job
    BY DEF NoJob, Job

LEMMA TypeIssuing ==
    ASSUME TypeOK, NEW p \in Proc,
           \/ \E k \in Key, c \in Card : Issue(p, k, c)
           \/ TryId(p) \/ AcquireDerivation(p) \/ HangUp(p) \/ Rendezvous(p)
    PROVE  TypeOK'
<1>1. Shape /\ Inside
    BY TypeParts
<1>2. UNCHANGED <<now, memory, file, saving, restarts>>
    BY DEF Issue, TryId, AcquireDerivation, HangUp, Rendezvous
<1>3. UNCHANGED saver
    BY <1>2 DEF saving
<1>4. job[p] \in Job /\ job = [job EXCEPT ![p] = job[p]]
    BY <1>1, SameJob
<1>5. \E where, mine : Moves(p, where, mine)
    <2>1. CASE \E k \in Key, c \in Card : Issue(p, k, c)
        <3> PICK k \in Key, c \in Card : Issue(p, k, c)
            BY <2>1
        <3> DEFINE mine == [NoJob EXCEPT !.key = k, !.card = c]
        <3>1. mine \in Job
            BY DEF NoJob, Job
        <3>2. Moves(p, "try", mine)
            BY <1>3, <3>1 DEF Issue, Moves, Where, Waiting
        <3> QED BY <3>2
    <2>2. CASE TryId(p)
        <3>1. pc[p] = "try" /\ slot' = slot
            BY <2>2 DEF TryId
        <3>2. CASE Return(p)
            <4>1. Moves(p, "idle", NoJob)
                BY <1>3, <3>1, <3>2, NoJobType DEF Return, Moves, Where, Waiting
            <4> QED BY <4>1
        <3>3. CASE job' = [job EXCEPT ![p].tries = @ + 1] /\ UNCHANGED pc
            <4> DEFINE mine == [job[p] EXCEPT !.tries = @ + 1]
            <4>1. mine \in Job
                BY <1>4 DEF Job
            <4>2. Goto(p, "try")
                BY <1>1, <3>1, <3>3 DEF Goto, Shape
            <4>3. Moves(p, "try", mine)
                BY <1>3, <3>1, <3>3, <4>1, <4>2 DEF Moves, Where, Waiting
            <4> QED BY <4>3
        <3>4. CASE \E i \in Id : job' = [job EXCEPT ![p].id = i] /\ Goto(p, "queue")
            <4> PICK i \in Id : job' = [job EXCEPT ![p].id = i] /\ Goto(p, "queue")
                BY <3>4
            <4> DEFINE mine == [job[p] EXCEPT !.id = i]
            <4>1. mine \in Job /\ mine.id = i
                BY <1>4 DEF Job
            <4>2. job' = [job EXCEPT ![p] = mine]
                OBVIOUS
            <4> HIDE DEF mine
            <4>3. Moves(p, "queue", mine)
                BY <1>3, <3>1, <4>1, <4>2 DEF Moves, Where, Waiting
            <4> QED BY <4>3
        <3> QED BY <2>2, <3>2, <3>3, <3>4 DEF TryId
    <2>3. CASE AcquireDerivation(p)
        <3>1. Moves(p, "derive", job[p])
            BY <1>1, <1>3, <1>4, <2>3
            DEF AcquireDerivation, Inside, Moves, Where, Waiting
        <3> QED BY <3>1
    <2>4. CASE Rendezvous(p)
        <3>1. Moves(p, "insert", job[p])
            BY <1>1, <1>3, <1>4, <2>4 DEF Rendezvous, Inside, Moves, Where, Waiting
        <3> QED BY <3>1
    <2>5. CASE HangUp(p)
        <3>1. Moves(p, "idle", NoJob)
            BY <1>3, <2>5, NoJobType DEF HangUp, Return, Moves, Where, Waiting
        <3> QED BY <3>1
    <2> QED BY <2>1, <2>2, <2>3, <2>4, <2>5
<1>6. /\ Inside' /\ pc' \in [Proc -> Where] /\ job' \in [Proc -> Job]
      /\ slot' \in Proc \cup {NoOne} /\ saver' \in Proc \cup {NoOne}
    BY <1>1, <1>5, OwnStep
<1> QED BY <1>1, <1>2, <1>6, TypePartsNext DEF Shape, memory, saving

\* A step that ends in the request's save, or goes nowhere else.
LEMMA TypeChanging ==
    ASSUME TypeOK, NEW p \in Proc,
           \/ Insert(p)
           \/ \E i \in Id, k \in Key :
                Refused(p, i, k) \/ Retire(p, i, k) \/ \E c \in Card : Publish(p, i, k, c)
    PROVE  TypeOK'
<1>1. Shape /\ Inside
    BY TypeParts
<1>2. UNCHANGED <<now, file, slot, saving, restarts>>
    BY DEF Insert, Refused, Retire, Publish
<1>3. rooms' \in [Id -> {0} \cup Object] /\ heap' \in [Id -> [Object -> Entry]]
    <2>1. CASE Insert(p)
        <3> DEFINE i == job[p].id
        <3>1. i \in Id
            BY <1>1, <2>1 DEF Insert, Inside, Waiting
        <3>2. CASE Held(i)
            BY <1>1, <2>1, <3>2, SweptType DEF Insert, Shape
        <3>3. CASE ~Held(i)
            <4> PICK o \in Fresh(i) : /\ rooms' = [Swept EXCEPT ![i] = o]
                                      /\ heap' = [heap EXCEPT ![i][o] = NewRoom(p)]
                BY <2>1, <3>3 DEF Insert
            <4>1. o \in Object
                BY DEF Fresh
            <4> QED BY <1>1, <3>1, <4>1, SweptType, NewRoomType DEF Shape
        <3> QED BY <3>2, <3>3
    <2>2. CASE \E i \in Id, k \in Key : Refused(p, i, k)
        BY <1>1, <2>2, SweptType DEF Refused, Shape
    <2>3. CASE \E i \in Id, k \in Key : Retire(p, i, k)
        <3> PICK i \in Id, k \in Key : Retire(p, i, k)
            BY <2>3
        <3> DEFINE o == rooms[i]
                   e == [heap[i][o] EXCEPT !.card = NoCard, !.sig = NoCard, !.closed = TRUE]
        <3>1. o \in Object
            BY <1>1 DEF Retire, Pinned, Held, Shape
        <3>2. e \in Entry
            <4>1. heap[i][o] \in Entry
                BY <1>1, <3>1 DEF Shape
            <4> QED BY <4>1 DEF Entry
        <3>3. heap' = [heap EXCEPT ![i][o] = e]
            BY DEF Retire
        <3>4. rooms' = Swept
            BY DEF Retire
        <3> HIDE DEF e
        <3> QED BY <1>1, <3>1, <3>2, <3>3, <3>4, SweptType DEF Shape
    <2>4. CASE \E i \in Id, k \in Key, c \in Card : Publish(p, i, k, c)
        <3> PICK i \in Id, k \in Key, c \in Card : Publish(p, i, k, c)
            BY <2>4
        <3> DEFINE o == rooms[i]
                   e == [heap[i][o] EXCEPT !.card = c, !.sig = c, !.pin = now + RoomTTL,
                                           !.closed = FALSE]
        <3>1. o \in Object
            BY <1>1 DEF Publish, Pinned, Held, Shape
        <3>2. e \in Entry
            <4>1. heap[i][o] \in Entry /\ now + RoomTTL \in Nat
                BY <1>1, <3>1, NumberAssumption DEF Shape
            <4> QED BY <4>1 DEF Entry
        <3>3. heap' = [heap EXCEPT ![i][o] = e]
            BY DEF Publish
        <3>4. rooms' = Swept
            BY DEF Publish
        <3> HIDE DEF e
        <3> QED BY <1>1, <3>1, <3>2, <3>3, <3>4, SweptType DEF Shape
    <2> QED BY <2>1, <2>2, <2>3, <2>4
<1>4. /\ Inside' /\ pc' \in [Proc -> Where] /\ job' \in [Proc -> Job]
      /\ slot' \in Proc \cup {NoOne} /\ saver' \in Proc \cup {NoOne}
    <2>1. UNCHANGED <<slot, saver>>
        BY <1>2 DEF saving
    <2>2. CASE UNCHANGED <<pc, job>>
        BY <1>1, <2>1, <2>2 DEF Inside, Shape
    <2>3. CASE Goto(p, "snap") /\ UNCHANGED job /\ pc[p] \in {"idle", "insert"}
        <3>1. Moves(p, "snap", job[p])
            BY <1>1, <2>1, <2>3, SameJob DEF Moves, Where, Waiting
        <3> QED BY <1>1, <3>1, OwnStep
    <2>4. CASE Goto(p, "try") /\ job' = [job EXCEPT ![p].tries = @ + 1] /\ pc[p] = "insert"
        <3> DEFINE mine == [job[p] EXCEPT !.tries = @ + 1]
        <3>1. mine \in Job
            <4>1. job[p] \in Job
                BY <1>1, SameJob
            <4> QED BY <4>1 DEF Job
        <3>2. Moves(p, "try", mine)
            BY <2>1, <2>4, <3>1 DEF Moves, Where, Waiting
        <3> QED BY <1>1, <3>2, OwnStep
    <2> QED BY <2>2, <2>3, <2>4 DEF Insert, Refused, Retire, Publish
<1> QED BY <1>1, <1>2, <1>3, <1>4, TypePartsNext DEF Shape, saving

LEMMA TypeSaving ==
    ASSUME TypeOK, NEW p \in Proc, Snapshot(p) \/ Marshal(p) \/ Write(p)
    PROVE  TypeOK'
<1>1. Shape /\ Inside
    BY TypeParts
<1>2. /\ UNCHANGED <<now, memory, slot, restarts>>
      /\ file' \in [Id -> Entry]
      /\ view' \in [Proc -> [Id -> {0} \cup Object]]
      /\ seen' \in [Proc -> [Id -> Entry]]
    <2>1. CASE Snapshot(p)
        BY <1>1, <2>1 DEF Snapshot, Shape
    <2>2. CASE Marshal(p)
        BY <1>1, <2>2, PointedType DEF Marshal, Shape
    <2>3. CASE Write(p)
        <3>1. file' \in [Id -> Entry]
            <4>1. CASE UNCHANGED file
                BY <1>1, <4>1 DEF Shape
            <4>2. CASE \E late \in [{i \in Id : Pointed(p)[i] # seen[p][i]} ->
                                    SUBSET {"card", "sig", "pin", "closed"}] :
                            file' = Written(p, late)
                BY <4>2, WrittenEntry
            <4> QED BY <2>3, <4>1, <4>2 DEF Write
        <3>2. NoView \in [Id -> {0} \cup Object] /\ NoRooms \in [Id -> Entry]
            BY NoEntryType DEF NoView, NoRooms
        <3> QED BY <1>1, <2>3, <3>1, <3>2 DEF Write, Shape
    <2> QED BY <2>1, <2>2, <2>3
<1>3. /\ Inside' /\ pc' \in [Proc -> Where] /\ job' \in [Proc -> Job]
      /\ slot' \in Proc \cup {NoOne} /\ saver' \in Proc \cup {NoOne}
    <2>1. CASE Snapshot(p)
        <3>1. Moves(p, "wait", job[p])
            BY <1>1, <2>1, SameJob DEF Snapshot, Moves, Where, Waiting
        <3> QED BY <1>1, <3>1, OwnStep
    <2>2. CASE Marshal(p)
        <3>1. Moves(p, "write", job[p])
            BY <1>1, <2>2, SameJob DEF Marshal, Moves, Where, Waiting
        <3> QED BY <1>1, <3>1, OwnStep
    <2>3. CASE Write(p)
        <3>1. Moves(p, "idle", NoJob)
            BY <2>3, NoJobType DEF Write, Return, Moves, Where, Waiting
        <3> QED BY <1>1, <3>1, OwnStep
    <2> QED BY <2>1, <2>2, <2>3
<1> QED BY <1>1, <1>2, <1>3, TypePartsNext DEF Shape, memory

LEMMA TypeSweep ==
    ASSUME TypeOK, Sweep
    PROVE  TypeOK'
<1>1. Shape /\ Inside /\ Sweeper \in Proc
    BY TypeParts DEF Proc
<1>2. Moves(Sweeper, "snap", job[Sweeper])
    BY <1>1, SameJob DEF Sweep, Moves, Where, Waiting, saving
<1>3. /\ Inside' /\ pc' \in [Proc -> Where] /\ job' \in [Proc -> Job]
      /\ slot' \in Proc \cup {NoOne} /\ saver' \in Proc \cup {NoOne}
    BY <1>1, <1>2, OwnStep
<1> QED BY <1>1, <1>3, SweptType, TypePartsNext DEF Sweep, Shape, saving

\* A file that would be loaded has a room in memory, so there are objects.
LEMMA TypeRestart ==
    ASSUME TypeOK, FileFits, Restart
    PROVE  TypeOK'
<1>1. Shape /\ Inside
    BY TypeParts
<1>2. rooms' \in [Id -> {0} \cup Object]
    <2>1. ASSUME NEW i \in Id, Loads(file[i])
          PROVE  1 \in Object
        <3>1. rooms[i] \in 1..MaxObject /\ MaxObject \in Nat
            BY <1>1, <2>1, NumberAssumption DEF FileFits, Held, Shape, Object
        <3> QED BY <3>1 DEF Object
    <2> QED BY <2>1 DEF Restart, Loads
<1>3. heap' \in [Id -> [Object -> Entry]]
    BY <1>1, NoEntryType DEF Restart, Shape
<1>4. /\ view' \in [Proc -> [Id -> {0} \cup Object]]
      /\ seen' \in [Proc -> [Id -> Entry]]
    BY NoEntryType DEF Restart, NoView, NoRooms
<1>5. pc' \in [Proc -> Where] /\ job' \in [Proc -> Job]
    BY NoJobType DEF Restart, Where
<1>6. Inside'
    BY NoneAssumption DEF Restart, Inside, Waiting
<1> QED BY <1>1, <1>2, <1>3, <1>4, <1>5, <1>6, TypePartsNext DEF Restart, Shape
-----------------------------------------------------------------------------
(* What a step does with a room.                                           *)

Kept(i) ==
    /\ Held(i) /\ rooms'[i] = rooms[i]
    /\ Room(i)'.owner = Room(i).owner
    /\ Room(i).pin <= Room(i)'.pin /\ Room(i)'.pin <= now + RoomTTL
    /\ \A o \in Object \ {rooms[i]} : heap'[i][o] = heap[i][o]

Dropped(i) == ~Held(i) /\ rooms'[i] = 0 /\ heap'[i] = heap[i]

Given(i) ==
    /\ ~Held(i)
    /\ rooms'[i] \in Fresh(i)
    /\ Room(i)'.owner \in Key
    /\ Room(i)'.pin = now + RoomTTL
    /\ \A o \in Object \ {rooms'[i]} : heap'[i][o] = heap[i][o]

Changed == UNCHANGED <<now, file, saving>> /\ \A i \in Id : Kept(i) \/ Dropped(i) \/ Given(i)

\* The rooms that a handler only sweeps.
LEMMA OthersSwept ==
    ASSUME TypeOK, PinsBounded, NEW i \in Id, rooms'[i] = Swept[i], heap'[i] = heap[i]
    PROVE  Kept(i) \/ Dropped(i)
<1>1. CASE Held(i)
    <2>1. rooms'[i] = rooms[i] /\ rooms[i] \in Object
        BY <1>1 DEF Swept, Held, TypeOK
    <2>2. Room(i)' = Room(i) /\ Room(i) \in Entry
        BY <2>1 DEF Room, TypeOK
    <2>3. Room(i).pin <= now + RoomTTL /\ Room(i).pin \in Int
        BY <2>1, <2>2 DEF PinsBounded, Room, Entry
    <2> QED BY <1>1, <2>1, <2>2, <2>3 DEF Kept
<1>2. CASE ~Held(i)
    BY <1>2 DEF Swept, Dropped
<1> QED BY <1>1, <1>2

\* Publishing or closing a room.
LEMMA RoomKept ==
    ASSUME TypeOK, PinsBounded, NEW i \in Id, Held(i), NEW e \in Entry,
           rooms' = Swept, heap' = [heap EXCEPT ![i][rooms[i]] = e],
           e.owner = Room(i).owner, e.pin \in {Room(i).pin, now + RoomTTL}
    PROVE  \A j \in Id : Kept(j) \/ Dropped(j)
<1>1. ASSUME NEW j \in Id, j # i
      PROVE  Kept(j) \/ Dropped(j)
    <2>1. rooms'[j] = Swept[j] /\ heap'[j] = heap[j]
        BY <1>1 DEF TypeOK
    <2> QED BY <2>1, OthersSwept
<1>2. Kept(i)
    <2>1. rooms'[i] = rooms[i] /\ rooms[i] \in Object
        BY DEF Swept, Held, TypeOK
    <2>2. Room(i)' = e /\ Room(i) \in Entry
        BY <2>1 DEF Room, TypeOK
    <2>3. Room(i).pin <= now + RoomTTL /\ Room(i).pin \in Int /\ now + RoomTTL \in Int
        BY <2>1, <2>2, NumberAssumption DEF PinsBounded, Room, Entry, TypeOK
    <2>4. \A o \in Object \ {rooms[i]} : heap'[i][o] = heap[i][o]
        BY DEF TypeOK
    <2> QED BY <2>1, <2>2, <2>3, <2>4 DEF Kept
<1> QED BY <1>1, <1>2

LEMMA RetireChanges ==
    ASSUME TypeOK, PinsBounded, NEW p \in Proc, NEW i \in Id, NEW k \in Key, Retire(p, i, k)
    PROVE  Changed
<1> DEFINE e == [Room(i) EXCEPT !.card = NoCard, !.sig = NoCard, !.closed = TRUE]
<1>1. Held(i) /\ rooms[i] \in Object
    BY DEF Retire, Pinned, Held, TypeOK
<1>2. Room(i) \in Entry
    BY <1>1 DEF Room, TypeOK
<1>3. e \in Entry /\ e.owner = Room(i).owner /\ e.pin = Room(i).pin
    BY <1>2 DEF Entry
<1>4. rooms' = Swept /\ heap' = [heap EXCEPT ![i][rooms[i]] = e]
    BY DEF Retire, Room
<1> HIDE DEF e
<1> QED BY <1>1, <1>3, <1>4, RoomKept DEF Changed, Retire

LEMMA PublishChanges ==
    ASSUME TypeOK, PinsBounded, NEW p \in Proc, NEW i \in Id, NEW k \in Key,
           NEW c \in Card, Publish(p, i, k, c)
    PROVE  Changed
<1> DEFINE e == [Room(i) EXCEPT !.card = c, !.sig = c, !.pin = now + RoomTTL, !.closed = FALSE]
<1>1. Held(i) /\ rooms[i] \in Object
    BY DEF Publish, Pinned, Held, TypeOK
<1>2. Room(i) \in Entry /\ now + RoomTTL \in Nat
    BY <1>1, NumberAssumption DEF Room, TypeOK
<1>3. e \in Entry /\ e.owner = Room(i).owner /\ e.pin = now + RoomTTL
    BY <1>2 DEF Entry
<1>4. rooms' = Swept /\ heap' = [heap EXCEPT ![i][rooms[i]] = e]
    BY DEF Publish, Room
<1> HIDE DEF e
<1> QED BY <1>1, <1>3, <1>4, RoomKept DEF Changed, Publish

\* Sweeping and refusing.
LEMMA SweepChanges ==
    ASSUME TypeOK, PinsBounded, rooms' = Swept, UNCHANGED <<now, heap, file, saving>>
    PROVE  Changed
    BY OthersSwept DEF Changed

LEMMA InsertChanges ==
    ASSUME TypeOK, PinsBounded, Asking, NEW p \in Proc, Insert(p)
    PROVE  Changed
<1>1. PICK i \in Id : i = job[p].id
    BY DEF Insert, TypeOK, Waiting
<1>2. job[p].key \in Key
    BY DEF Insert, Asking, Waiting
<1>3. CASE Held(i)
    <2>1. rooms' = Swept /\ UNCHANGED <<now, heap, file, saving>>
        BY <1>1, <1>3 DEF Insert
    <2> QED BY <2>1, SweepChanges
<1>4. CASE ~Held(i)
    <2>1. PICK o \in Fresh(i) : /\ rooms' = [Swept EXCEPT ![i] = o]
                                /\ heap' = [heap EXCEPT ![i][o] = NewRoom(p)]
        BY <1>1, <1>4 DEF Insert
    <2>2. o \in Object /\ Swept \in [Id -> {0} \cup Object]
        BY SweptType DEF Fresh
    <2>3. ASSUME NEW j \in Id, j # i
          PROVE  Kept(j) \/ Dropped(j)
        <3>1. rooms'[j] = Swept[j]
            BY <2>1, <2>2, <2>3
        <3>2. heap'[j] = heap[j]
            BY <2>1, <2>3 DEF TypeOK
        <3> QED BY <3>1, <3>2, OthersSwept
    <2>4. Given(i)
        <3>1. rooms'[i] = o /\ Room(i)' = NewRoom(p)
            <4>1. rooms'[i] = o
                BY <1>1, <2>1, <2>2
            <4>2. heap'[i][o] = NewRoom(p)
                BY <1>1, <2>1, <2>2 DEF TypeOK
            <4> QED BY <4>1, <4>2 DEF Room
        <3>2. \A q \in Object \ {o} : heap'[i][q] = heap[i][q]
            BY <1>1, <2>1, <2>2 DEF TypeOK
        <3>3. NewRoom(p).owner \in Key /\ NewRoom(p).pin = now + RoomTTL
            BY <1>2 DEF NewRoom
        <3> QED BY <1>4, <2>1, <3>1, <3>2, <3>3 DEF Given
    <2> QED BY <2>3, <2>4 DEF Changed, Insert
<1> QED BY <1>3, <1>4
-----------------------------------------------------------------------------
(* The invariant.                                                          *)

\* A process keeps the right to an ID it was given while it asks for one.
LEMMA AskingInductive ==
    ASSUME TypeOK, Asking, [Next]_vars
    PROVE  Asking'
<1>1. CASE UNCHANGED <<pc, job>>
    BY <1>1 DEF Asking
<1>2. CASE \E p \in Proc, where \in {"idle", "snap", "wait", "write"} : Goto(p, where) /\ UNCHANGED job
    BY <1>2 DEF Asking, Goto, TypeOK, Waiting
<1>3. CASE \E p \in Proc : Return(p)
    BY <1>3 DEF Asking, Return, Goto, TypeOK, Waiting
<1>4. CASE \E p \in Proc, k \in Key, c \in Card : Issue(p, k, c)
    BY <1>4 DEF Asking, Issue, Goto, TypeOK, NoJob
<1>5. CASE \E p \in Proc : /\ pc[p] \in Waiting \cup {"try"}
                           /\ \A q \in Proc : /\ job'[q].key = job[q].key
                                              /\ q # p => pc'[q] = pc[q]
    BY <1>5 DEF Asking
<1>6. ASSUME NEW p \in Proc, TryId(p) \/ AcquireDerivation(p) \/ Rendezvous(p) \/ Insert(p)
      PROVE  \/ Return(p)
             \/ /\ pc[p] \in Waiting \cup {"try"}
                /\ \A q \in Proc : /\ job'[q].key = job[q].key
                                   /\ q # p => pc'[q] = pc[q]
    BY <1>6 DEF TryId, AcquireDerivation, Rendezvous, Insert, Goto, TypeOK, Waiting
<1>7. CASE Restart
    BY <1>7 DEF Restart, Asking, Waiting
<1>8. CASE Sweep
    BY <1>2, <1>8 DEF Sweep, Proc
<1>9. CASE \E p \in Request : Asked(p)
    BY <1>1, <1>2, <1>4, <1>9 DEF Asked, Refused, Retire, Publish, Proc
<1>10. CASE \E p \in Proc : Step(p) \/ AcquireDerivation(p) \/ HangUp(p) \/ Marshal(p)
    BY <1>2, <1>3, <1>5, <1>6, <1>10 DEF Step, HangUp, Marshal, Snapshot, Write
<1>11. CASE PassTime \/ UNCHANGED vars
    BY <1>1, <1>11 DEF PassTime, vars
<1> QED BY <1>7, <1>8, <1>9, <1>10, <1>11 DEF Next

\* Who is saving is the same while the keeper's mutex is.
LEMMA SameWriters ==
    ASSUME TypeOK, TypeOK', UNCHANGED saver
    PROVE  \A p \in Proc : pc'[p] = "write" <=> pc[p] = "write"
    BY DEF TypeOK

\* The parts of StoreInv about the rooms.
RoomInv == OwnedRooms /\ PinsBounded /\ PointersCurrent /\ SeenFits /\ FileFits

\* Given the pointers of a saver, a room that changes keeps what they lead to.
LEMMA PointedKept ==
    ASSUME TypeOK, Changed, NEW p \in Proc, NEW i \in Id
    PROVE  /\ view'[p][i] = view[p][i]
           /\ Pointed(p)'[i].owner = Pointed(p)[i].owner
           /\ Pointed(p)[i].pin <= Pointed(p)'[i].pin
<1>1. view' = view /\ view[p][i] \in {0} \cup Object
    BY DEF Changed, saving, TypeOK
<1>2. CASE view[p][i] = 0
    BY <1>1, <1>2 DEF Pointed, NoEntry
<1>3. CASE view[p][i] # 0
    <2> DEFINE o == view[p][i]
    <2>1. o \in Object /\ heap[i][o] \in Entry
        BY <1>1, <1>3 DEF TypeOK
    <2>2. heap[i][o].pin \in Int
        BY <2>1 DEF Entry
    <2>3. heap'[i][o].owner = heap[i][o].owner /\ heap[i][o].pin <= heap'[i][o].pin
        BY <2>1, <2>2 DEF Changed, Kept, Dropped, Given, Fresh, Room
    <2> QED BY <1>1, <1>3, <2>3 DEF Pointed
<1> QED BY <1>2, <1>3

LEMMA ChangedKeeps ==
    ASSUME TypeOK, RoomInv, TypeOK', Changed
    PROVE  RoomInv'
<1>1. /\ now' = now /\ file' = file /\ view' = view /\ seen' = seen /\ saver' = saver
    BY DEF Changed, saving
<1>2. \A i \in Id : Kept(i) \/ Dropped(i) \/ Given(i)
    BY DEF Changed
<1>3. now + RoomTTL \in Int
    BY NumberAssumption DEF TypeOK
<1>4. OwnedRooms'
    BY <1>2 DEF OwnedRooms, RoomInv, Kept, Dropped, Given, Room, Held
<1>5. PinsBounded'
    <2>1. ASSUME NEW i \in Id, NEW o \in Object
          PROVE  heap'[i][o].pin <= now + RoomTTL
        BY <1>2, <1>3 DEF Kept, Dropped, Given, Room, PinsBounded, RoomInv
    <2> QED BY <1>1, <2>1 DEF PinsBounded, RoomInv
<1>6. PointersCurrent'
    <2>1. ASSUME NEW p \in Proc, NEW i \in Id, view[p][i] # 0
          PROVE  view[p][i] = rooms'[i] \/ now > heap'[i][view[p][i]].pin
        <3>1. view[p][i] \in Object
            BY <2>1 DEF TypeOK
        <3>2. view[p][i] = rooms[i] \/ now > heap[i][view[p][i]].pin
            BY <2>1 DEF PointersCurrent, RoomInv, Expired
        <3> QED BY <1>2, <2>1, <3>1, <3>2
                DEF Kept, Dropped, Given, Held, Expired, Fresh
    <2> QED BY <1>1, <2>1 DEF PointersCurrent, Expired
<1>7. SeenFits'
    <2>1. ASSUME NEW p \in Proc, NEW i \in Id, pc'[p] = "write"
          PROVE  /\ seen'[p][i].owner = Pointed(p)'[i].owner
                 /\ seen'[p][i].pin <= Pointed(p)'[i].pin
        <3>1. pc[p] = "write"
            BY <1>1, <2>1, SameWriters
        <3>2. Pointed(p)[i] \in Entry /\ Pointed(p)'[i] \in Entry /\ seen[p][i] \in Entry
            <4>1. Pointed(p) \in [Id -> Entry]
                BY PointedType
            <4>2. Pointed(p)' \in [Id -> Entry]
                BY PointedTypeNext
            <4> QED BY <4>1, <4>2 DEF TypeOK
        <3>3. /\ Pointed(p)[i].pin \in Int /\ Pointed(p)'[i].pin \in Int
              /\ seen[p][i].pin \in Int
            BY <3>2 DEF Entry
        <3>4. /\ seen[p][i].owner = Pointed(p)[i].owner
              /\ seen[p][i].pin <= Pointed(p)[i].pin
            BY <3>1 DEF SeenFits, RoomInv
        <3>5. /\ Pointed(p)'[i].owner = Pointed(p)[i].owner
              /\ Pointed(p)[i].pin <= Pointed(p)'[i].pin
            BY PointedKept
        <3> QED BY <1>1, <3>3, <3>4, <3>5
    <2> QED BY <2>1 DEF SeenFits
<1>8. FileFits'
    <2>1. ASSUME NEW i \in Id, Loads(file[i])
          PROVE  /\ rooms'[i] # 0 /\ ~(now > heap'[i][rooms'[i]].pin)
                 /\ file[i].owner = heap'[i][rooms'[i]].owner
                 /\ file[i].pin <= heap'[i][rooms'[i]].pin
        <3>1. /\ Held(i) /\ file[i].owner = Room(i).owner /\ file[i].pin <= Room(i).pin
            BY <2>1 DEF FileFits, RoomInv
        <3>2. Kept(i)
            BY <1>2, <3>1 DEF Dropped, Given
        <3>3. Room(i) \in Entry /\ Room(i)' \in Entry /\ file[i] \in Entry /\ now \in Int
            BY <3>1, <3>2 DEF Kept, Held, Room, TypeOK
        <3>4. Room(i).pin \in Int /\ Room(i)'.pin \in Int /\ file[i].pin \in Int
            BY <3>3 DEF Entry
        <3> QED BY <3>1, <3>2, <3>3, <3>4 DEF Kept, Held, Expired, Room
    <2> QED BY <1>1, <2>1 DEF FileFits, Loads, Held, Expired, Room
<1> QED BY <1>4, <1>5, <1>6, <1>7, <1>8 DEF RoomInv

LEMMA SnapshotKeeps ==
    ASSUME TypeOK, RoomInv, TypeOK', NEW p \in Proc, Snapshot(p)
    PROVE  RoomInv'
<1>1. /\ UNCHANGED <<now, rooms, heap, file, seen, saver>>
      /\ view' = [view EXCEPT ![p] = rooms] /\ pc[p] = "snap"
    BY DEF Snapshot, memory
<1>2. PointersCurrent'
    BY <1>1 DEF PointersCurrent, RoomInv, Expired, TypeOK
<1>3. SeenFits'
    <2>1. ASSUME NEW q \in Proc, NEW i \in Id, pc'[q] = "write"
          PROVE  /\ seen'[q][i].owner = Pointed(q)'[i].owner
                 /\ seen'[q][i].pin <= Pointed(q)'[i].pin
        <3>1. pc[q] = "write"
            BY <1>1, <2>1, SameWriters
        <3>2. Pointed(q)' = Pointed(q)
            BY <1>1, <3>1 DEF Pointed, TypeOK
        <3> QED BY <1>1, <3>1, <3>2 DEF SeenFits, RoomInv
    <2> QED BY <2>1 DEF SeenFits
<1> QED BY <1>1, <1>2, <1>3
        DEF RoomInv, OwnedRooms, PinsBounded, FileFits, Loads, Held, Expired, Room

LEMMA MarshalKeeps ==
    ASSUME TypeOK, RoomInv, TypeOK', NEW p \in Proc, Marshal(p)
    PROVE  RoomInv'
<1>1. /\ UNCHANGED <<now, rooms, heap, file, view>>
      /\ seen' = [seen EXCEPT ![p] = Pointed(p)]
      /\ pc' = [pc EXCEPT ![p] = "write"]
    BY DEF Marshal, memory, Goto
<1>2. SeenFits'
    <2>1. ASSUME NEW q \in Proc, NEW i \in Id, pc'[q] = "write"
          PROVE  /\ seen'[q][i].owner = Pointed(q)'[i].owner
                 /\ seen'[q][i].pin <= Pointed(q)'[i].pin
        <3>1. Pointed(q)' = Pointed(q)
            BY <1>1 DEF Pointed
        <3>2. CASE q = p
            <4>1. seen'[q] = Pointed(q)
                BY <1>1, <3>2 DEF TypeOK
            <4>2. Pointed(q)[i] \in Entry
                BY PointedType
            <4>3. Pointed(q)[i].pin \in Int
                BY <4>2 DEF Entry
            <4> QED BY <3>1, <4>1, <4>3
        <3>3. CASE q # p
            <4>1. seen'[q] = seen[q] /\ pc[q] = "write"
                BY <1>1, <2>1, <3>3 DEF TypeOK
            <4> QED BY <3>1, <4>1 DEF SeenFits, RoomInv
        <3> QED BY <3>2, <3>3
    <2> QED BY <2>1 DEF SeenFits
<1> QED BY <1>1, <1>2
        DEF RoomInv, OwnedRooms, PinsBounded, PointersCurrent, FileFits, Loads, Held,
            Expired, Room

\* What is written fits, whatever mixture of fields it is.
LEMMA WrittenFits ==
    ASSUME TypeOK, RoomInv, NEW p \in Proc, pc[p] = "write",
           NEW late \in [{i \in Id : Pointed(p)[i] # seen[p][i]} ->
                            SUBSET {"card", "sig", "pin", "closed"}],
           NEW i \in Id
    PROVE  /\ Written(p, late)[i].pin <= now + RoomTTL
           /\ Loads(Written(p, late)[i]) =>
                /\ Held(i)
                /\ view[p][i] = rooms[i]
                /\ Written(p, late)[i].owner = Room(i).owner
                /\ Written(p, late)[i].pin <= Room(i).pin
<1> DEFINE e == Written(p, late)[i]
           r == Pointed(p)[i]
<1>1. e \in Entry /\ e.owner = seen[p][i].owner /\ e.pin \in {seen[p][i].pin, r.pin}
    BY WrittenEntry
<1>2. r \in Entry /\ seen[p][i] \in Entry
    BY PointedType DEF TypeOK
<1>3. e.pin \in Int /\ r.pin \in Int /\ seen[p][i].pin \in Int /\ now + RoomTTL \in Int /\ now \in Int
    BY <1>1, <1>2, NumberAssumption DEF Entry, TypeOK
<1>4. seen[p][i].owner = r.owner /\ seen[p][i].pin <= r.pin
    BY DEF SeenFits, RoomInv
<1>5. e.owner = r.owner /\ e.pin <= r.pin
    BY <1>1, <1>3, <1>4
<1>6. CASE view[p][i] = 0
    <2>1. r = NoEntry
        BY <1>6 DEF Pointed
    <2>2. r.owner = NoKey /\ r.pin = 0
        BY <2>1 DEF NoEntry
    <2>3. 0 <= now + RoomTTL
        BY NumberAssumption DEF TypeOK
    <2> HIDE DEF e, r
    <2>4. ~Loads(e)
        BY <1>5, <2>2 DEF Loads
    <2> QED BY <1>3, <1>5, <2>2, <2>3, <2>4 DEF e
<1>7. CASE view[p][i] # 0
    <2> DEFINE o == view[p][i]
    <2>1. o \in Object /\ r = heap[i][o]
        BY <1>7 DEF Pointed, TypeOK
    <2>2. r.pin <= now + RoomTTL
        BY <2>1 DEF PinsBounded, RoomInv
    <2>3. o = rooms[i] \/ now > r.pin
        BY <1>7, <2>1 DEF PointersCurrent, RoomInv, Expired
    <2>4. ASSUME Loads(e)
          PROVE  Held(i) /\ o = rooms[i] /\ e.owner = Room(i).owner /\ e.pin <= Room(i).pin
        <3>1. ~(now > e.pin)
            BY <2>4 DEF Loads, Expired
        <3>2. ~(now > r.pin)
            BY <1>3, <1>5, <3>1
        <3>3. o = rooms[i] /\ Room(i) = r
            BY <2>1, <2>3, <3>2 DEF Room
        <3>4. Held(i)
            BY <1>7, <3>2, <3>3 DEF Held, Expired, Room
        <3> QED BY <1>5, <3>3, <3>4
    <2> QED BY <1>3, <1>5, <2>2, <2>4
<1> QED BY <1>6, <1>7

LEMMA WriteKeeps ==
    ASSUME TypeOK, RoomInv, TypeOK', NEW p \in Proc, Write(p)
    PROVE  RoomInv'
<1>1. /\ UNCHANGED <<now, rooms, heap>>
      /\ view' = [view EXCEPT ![p] = NoView] /\ seen' = [seen EXCEPT ![p] = NoRooms]
      /\ pc[p] = "write" /\ pc' = [pc EXCEPT ![p] = "idle"]
    BY DEF Write, memory, Return, Goto
<1>2. PointersCurrent'
    BY <1>1 DEF PointersCurrent, RoomInv, Expired, TypeOK, NoView
<1>3. SeenFits'
    <2>1. ASSUME NEW q \in Proc, NEW i \in Id, pc'[q] = "write"
          PROVE  /\ seen'[q][i].owner = Pointed(q)'[i].owner
                 /\ seen'[q][i].pin <= Pointed(q)'[i].pin
        <3>1. q # p /\ pc[q] = "write"
            BY <1>1, <2>1 DEF TypeOK
        <3>2. seen'[q] = seen[q] /\ view'[q] = view[q]
            BY <1>1, <3>1
        <3>3. Pointed(q)' = Pointed(q)
            BY <1>1, <3>2 DEF Pointed
        <3> QED BY <3>1, <3>2, <3>3 DEF SeenFits, RoomInv
    <2> QED BY <2>1 DEF SeenFits
<1>4. ASSUME NEW i \in Id
      PROVE  /\ file'[i].pin <= now + RoomTTL
             /\ Loads(file'[i]) => /\ Held(i)
                                   /\ file'[i].owner = Room(i).owner
                                   /\ file'[i].pin <= Room(i).pin
    <2>1. CASE UNCHANGED file
        BY <2>1 DEF RoomInv, PinsBounded, FileFits
    <2>2. CASE \E late \in [{j \in Id : Pointed(p)[j] # seen[p][j]} ->
                            SUBSET {"card", "sig", "pin", "closed"}] :
                    file' = Written(p, late)
        BY <1>1, <2>2, WrittenFits
    <2> QED BY <2>1, <2>2 DEF Write
<1>5. PinsBounded' /\ FileFits'
    BY <1>1, <1>4 DEF RoomInv, PinsBounded, FileFits, Loads, Held, Expired, Room
<1> QED BY <1>1, <1>2, <1>3, <1>5 DEF RoomInv, OwnedRooms, Room

LEMMA PassTimeKeeps ==
    ASSUME TypeOK, RoomInv, TypeOK', PassTime
    PROVE  RoomInv'
<1>1. /\ now' = now + 1 /\ now \in Nat /\ RoomTTL \in Nat
      /\ UNCHANGED <<rooms, heap, file, pc, view, seen>>
    BY NumberAssumption DEF PassTime, memory, saving, TypeOK
<1>2. \A i \in Id : /\ file[i].pin \in Int
                    /\ \A o \in Object : heap[i][o].pin \in Int
    BY DEF TypeOK, Entry
<1>3. OwnedRooms' /\ SeenFits'
    BY <1>1 DEF RoomInv, OwnedRooms, SeenFits, Pointed, Room
<1>4. PinsBounded'
    BY <1>1, <1>2 DEF RoomInv, PinsBounded
<1>5. PointersCurrent'
    <2>1. ASSUME NEW p \in Proc, NEW i \in Id, view[p][i] # 0, view[p][i] # rooms[i]
          PROVE  now + 1 > heap[i][view[p][i]].pin
        <3>1. view[p][i] \in Object /\ now > heap[i][view[p][i]].pin
            BY <2>1 DEF RoomInv, PointersCurrent, Expired, TypeOK
        <3> QED BY <1>1, <1>2, <3>1
    <2> QED BY <1>1, <2>1 DEF PointersCurrent, Expired
<1>6. FileFits'
    <2>1. ASSUME NEW i \in Id, file[i].owner # NoKey, ~(now + 1 > file[i].pin)
          PROVE  /\ rooms[i] # 0 /\ ~(now + 1 > Room(i).pin)
                 /\ file[i].owner = Room(i).owner /\ file[i].pin <= Room(i).pin
        <3>1. Loads(file[i])
            BY <1>1, <1>2, <2>1 DEF Loads, Expired
        <3>2. /\ rooms[i] # 0 /\ file[i].owner = Room(i).owner
              /\ file[i].pin <= Room(i).pin
            BY <3>1 DEF RoomInv, FileFits, Held
        <3>3. Room(i).pin \in Int
            BY <1>2, <3>2 DEF Room, TypeOK
        <3> QED BY <1>1, <1>2, <2>1, <3>2, <3>3
    <2> QED BY <1>1, <2>1 DEF FileFits, Loads, Held, Expired, Room
<1> QED BY <1>3, <1>4, <1>5, <1>6 DEF RoomInv

LEMMA RestartKeeps ==
    ASSUME TypeOK, RoomInv, TypeOK', Restart
    PROVE  RoomInv'
<1>1. /\ UNCHANGED <<now, file>>
      /\ \A i \in Id : /\ rooms'[i] = IF Loads(file[i]) THEN 1 ELSE 0
                       /\ rooms'[i] # 0 => rooms'[i] \in Object
    BY DEF Restart, Loads, TypeOK
<1>2. \A i \in Id, o \in Object : heap'[i][o] = IF o = 1 THEN file[i] ELSE NoEntry
    BY DEF Restart
<1>3. OwnedRooms'
    <2>1. ASSUME NEW i \in Id, rooms'[i] # 0
          PROVE  heap'[i][rooms'[i]].owner \in Key
        <3>1. Loads(file[i]) /\ heap'[i][rooms'[i]] = file[i]
            BY <1>1, <1>2, <2>1
        <3>2. file[i].owner \in Key \cup {NoKey}
            BY DEF TypeOK, Entry
        <3> QED BY <3>1, <3>2 DEF Loads
    <2> QED BY <2>1 DEF OwnedRooms, Room
<1>4. PinsBounded'
    <2>1. NoEntry.pin = 0 /\ 0 <= now + RoomTTL
        BY NumberAssumption DEF NoEntry, TypeOK
    <2> QED BY <1>1, <1>2, <2>1 DEF RoomInv, PinsBounded
<1>5. PointersCurrent'
    BY DEF Restart, PointersCurrent, NoView
<1>6. SeenFits'
    BY DEF Restart, SeenFits
<1>7. FileFits'
    <2>1. ASSUME NEW i \in Id, Loads(file[i])
          PROVE  /\ rooms'[i] # 0 /\ heap'[i][rooms'[i]] = file[i]
                 /\ ~(now > file[i].pin) /\ file[i].pin \in Int
        BY <1>1, <1>2, <2>1 DEF Loads, Expired, TypeOK, Entry
    <2> QED BY <1>1, <2>1 DEF FileFits, Loads, Held, Expired, Room
<1> QED BY <1>3, <1>4, <1>5, <1>6, <1>7 DEF RoomInv

LEMMA StoreInitially == Init => StoreInv
<1> SUFFICES ASSUME Init PROVE StoreInv
    OBVIOUS
<1>1. /\ now = 0 /\ \A i \in Id : rooms[i] = 0 /\ file[i] = NoEntry
      /\ \A i \in Id, o \in Object : heap[i][o] = NoEntry
      /\ \A p \in Proc : pc[p] = "idle" /\ \A i \in Id : view[p][i] = 0
    BY DEF Init, NoView, NoRooms
<1>2. NoEntry.owner = NoKey /\ NoEntry.pin = 0 /\ 0 <= now + RoomTTL
    BY <1>1, NumberAssumption DEF NoEntry
<1>3. Asking
    BY <1>1 DEF Asking, Waiting
<1>4. OwnedRooms /\ PinsBounded /\ PointersCurrent /\ SeenFits /\ FileFits
    BY <1>1, <1>2 DEF OwnedRooms, PinsBounded, PointersCurrent, SeenFits, FileFits, Loads
<1> QED BY <1>3, <1>4, TypeInitially DEF StoreInv

LEMMA TypeNext ==
    ASSUME StoreInv, [Next]_vars
    PROVE  TypeOK'
<1>1. TypeOK /\ FileFits /\ Request \subseteq Proc
    BY DEF StoreInv, Proc
<1>2. CASE \E p \in Request : Asked(p)
    BY <1>1, <1>2, TypeIssuing, TypeChanging DEF Asked
<1>3. CASE Sweep
    BY <1>1, <1>3, TypeSweep
<1>4. CASE \E p \in Proc : Step(p) \/ AcquireDerivation(p) \/ HangUp(p) \/ Marshal(p)
    BY <1>1, <1>4, TypeIssuing, TypeChanging, TypeSaving DEF Step
<1>5. CASE Restart
    BY <1>1, <1>5, TypeRestart
<1>6. CASE PassTime
    BY <1>1, <1>6 DEF PassTime, TypeOK, memory, saving
<1>7. CASE UNCHANGED vars
    BY <1>1, <1>7 DEF TypeOK, vars, memory, saving
<1> QED BY <1>2, <1>3, <1>4, <1>5, <1>6, <1>7 DEF Next

\* The steps that leave the rooms, the file and the savers alone.
LEMMA AloneKeeps ==
    ASSUME TypeOK, RoomInv, TypeOK', UNCHANGED <<now, memory, file, saving>>
    PROVE  RoomInv'
<1>1. UNCHANGED <<now, rooms, heap, file, view, seen, saver>>
    BY DEF memory, saving
<1>2. \A p \in Proc : pc'[p] = "write" => pc[p] = "write"
    BY <1>1, SameWriters
<1>3. SeenFits'
    BY <1>1, <1>2 DEF RoomInv, SeenFits, Pointed
<1> QED BY <1>1, <1>3
        DEF RoomInv, OwnedRooms, PinsBounded, PointersCurrent, FileFits, Loads, Held,
            Expired, Room

LEMMA StoreNext ==
    ASSUME StoreInv, [Next]_vars
    PROVE  StoreInv'
<1>1. /\ TypeOK /\ Asking /\ RoomInv /\ PinsBounded /\ TypeOK' /\ Asking'
      /\ Request \subseteq Proc
    BY TypeNext, AskingInductive DEF StoreInv, RoomInv, Proc
<1>2. CASE \E p \in Request : Asked(p)
    <2> PICK p \in Request : Asked(p)
        BY <1>2
    <2>1. CASE \E k \in Key, c \in Card : Issue(p, k, c)
        <3>1. UNCHANGED <<now, memory, file, saving>>
            BY <2>1 DEF Issue
        <3> QED BY <1>1, <3>1, AloneKeeps DEF RoomInv, StoreInv
    <2>2. CASE \E i \in Id, k \in Key : Refused(p, i, k)
        <3>1. rooms' = Swept /\ UNCHANGED <<now, heap, file, saving>>
            BY <2>2 DEF Refused
        <3> QED BY <1>1, <3>1, SweepChanges, ChangedKeeps DEF RoomInv, StoreInv
    <2>3. CASE \E i \in Id, k \in Key : Retire(p, i, k)
        BY <1>1, <2>3, RetireChanges, ChangedKeeps DEF RoomInv, StoreInv
    <2>4. CASE \E i \in Id, k \in Key, c \in Card : Publish(p, i, k, c)
        BY <1>1, <2>4, PublishChanges, ChangedKeeps DEF RoomInv, StoreInv
    <2> QED BY <2>1, <2>2, <2>3, <2>4 DEF Asked
<1>3. CASE Sweep
    <2>1. rooms' = Swept /\ UNCHANGED <<now, heap, file, saving>>
        BY <1>3 DEF Sweep
    <2> QED BY <1>1, <2>1, SweepChanges, ChangedKeeps DEF RoomInv, StoreInv
<1>4. CASE \E p \in Proc : Step(p) \/ AcquireDerivation(p) \/ HangUp(p) \/ Marshal(p)
    <2> PICK p \in Proc : Step(p) \/ AcquireDerivation(p) \/ HangUp(p) \/ Marshal(p)
        BY <1>4
    <2>1. CASE TryId(p) \/ Rendezvous(p) \/ AcquireDerivation(p) \/ HangUp(p)
        <3>1. UNCHANGED <<now, memory, file, saving>>
            BY <2>1 DEF TryId, Rendezvous, AcquireDerivation, HangUp
        <3> QED BY <1>1, <3>1, AloneKeeps DEF RoomInv, StoreInv
    <2>2. CASE Insert(p)
        BY <1>1, <2>2, InsertChanges, ChangedKeeps DEF RoomInv, StoreInv
    <2>3. CASE Snapshot(p) \/ Marshal(p) \/ Write(p)
        BY <1>1, <2>3, SnapshotKeeps, MarshalKeeps, WriteKeeps DEF RoomInv, StoreInv
    <2> QED BY <2>1, <2>2, <2>3 DEF Step
<1>5. CASE Restart
    BY <1>1, <1>5, RestartKeeps DEF RoomInv, StoreInv
<1>6. CASE PassTime
    BY <1>1, <1>6, PassTimeKeeps DEF RoomInv, StoreInv
<1>7. CASE UNCHANGED vars
    <2>1. UNCHANGED <<now, memory, file, saving>>
        BY <1>7 DEF vars
    <2> QED BY <1>1, <2>1, AloneKeeps DEF RoomInv, StoreInv
<1> QED BY <1>2, <1>3, <1>4, <1>5, <1>6, <1>7 DEF Next

\* The variables keep their types, and the derivation slot and the keeper's
\* mutex are held by the process that is inside and by no other
\* (acquireDerivation in registry/store.go, keeper.save in registry/persist.go).
THEOREM TypeCorrect == Spec => []TypeOK
<1>1. StoreInv => TypeOK
    BY DEF StoreInv
<1> QED BY <1>1, StoreInitially, StoreNext, PTL DEF Spec
-----------------------------------------------------------------------------
(* The store implements InviteOwnership.                                   *)

\* What the abstract specification sees.
Owner == [i \in Id |-> IF Held(i) THEN heap[i][rooms[i]].owner ELSE NoKey]
Until == [i \in Id |-> IF Held(i) THEN heap[i][rooms[i]].pin ELSE 0]

LEMMA OwnershipInit ==
    ASSUME Init
    PROVE  Ownership!Init
<1>1. /\ now = 0 /\ restarts = 0 /\ \A i \in Id : rooms[i] = 0
    BY DEF Init, NoView
<1> QED BY <1>1 DEF Ownership!Init, Held

LEMMA OwnershipStutters ==
    ASSUME UNCHANGED <<now, restarts, Owner, Until>>
    PROVE  UNCHANGED Ownership!vars
    BY DEF Ownership!vars, Owner, Until

\* The same rooms for whoever asks.
LEMMA SameRooms ==
    ASSUME UNCHANGED <<now, restarts>>,
           \A i \in Id : /\ Held(i)' <=> Held(i)
                         /\ Held(i) => /\ Room(i)'.owner = Room(i).owner
                                       /\ Room(i)'.pin = Room(i).pin
    PROVE  UNCHANGED Ownership!vars
<1>1. Owner' = Owner /\ Until' = Until
    BY DEF Owner, Until, Room
<1> QED BY <1>1, OwnershipStutters

LEMMA SameMemory ==
    ASSUME UNCHANGED <<now, restarts, memory>>
    PROVE  UNCHANGED Ownership!vars
<1>1. UNCHANGED <<now, rooms, heap, restarts>>
    BY DEF memory
<1> QED BY <1>1, SameRooms DEF Held, Expired, Room

\* Only what is held stays in a map that is swept, and all of it does.
LEMMA SweptHeld ==
    ASSUME TypeOK, NEW i \in Id, rooms'[i] = Swept[i], heap'[i] = heap[i], now' = now
    PROVE  /\ Held(i)' <=> Held(i)
           /\ Held(i) => Room(i)' = Room(i)
    BY DEF Swept, Held, Expired, Room

LEMMA SweepStutters ==
    ASSUME TypeOK, rooms' = Swept, UNCHANGED <<now, heap, restarts>>
    PROVE  UNCHANGED Ownership!vars
    BY SweptHeld, SameRooms

LEMMA RetireStutters ==
    ASSUME TypeOK, NEW p \in Proc, NEW i \in Id, NEW k \in Key, Retire(p, i, k)
    PROVE  UNCHANGED Ownership!vars
<1> DEFINE e == [Room(i) EXCEPT !.card = NoCard, !.sig = NoCard, !.closed = TRUE]
<1>1. /\ rooms' = Swept /\ UNCHANGED <<now, restarts>> /\ Held(i)
      /\ heap' = [heap EXCEPT ![i][rooms[i]] = e]
    BY DEF Retire, Pinned, Room
<1>2. rooms[i] \in Object /\ rooms'[i] = rooms[i] /\ Room(i) \in Entry
    BY <1>1 DEF Held, Swept, Room, TypeOK
<1>3. e.owner = Room(i).owner /\ e.pin = Room(i).pin
    BY <1>2 DEF Entry
<1> HIDE DEF e
<1>4. Room(i)'.owner = Room(i).owner /\ Room(i)'.pin = Room(i).pin
    <2>1. heap'[i][rooms[i]] = e
        BY <1>1, <1>2 DEF TypeOK
    <2> QED BY <1>2, <1>3, <2>1 DEF Room
<1>5. Held(i)'
    BY <1>1, <1>2, <1>4 DEF Held, Expired, Room
<1>6. ASSUME NEW j \in Id, j # i
      PROVE  /\ Held(j)' <=> Held(j)
             /\ Held(j) => Room(j)' = Room(j)
    <2>1. rooms'[j] = Swept[j] /\ heap'[j] = heap[j]
        BY <1>1, <1>6 DEF TypeOK
    <2> QED BY <1>1, <2>1, SweptHeld
<1> QED BY <1>1, <1>4, <1>5, <1>6, SameRooms

\* One ID is held for a whole TTL from now, and nothing else changes.
LEMMA OneExtended ==
    ASSUME NEW i \in Id, Held(i)', Room(i)'.pin = now + RoomTTL,
           \A j \in Id : j # i => /\ Held(j)' <=> Held(j)
                                  /\ Held(j) => Room(j)' = Room(j)
    PROVE  Until' = [Until EXCEPT ![i] = now + RoomTTL]
<1>1. Until'[i] = now + RoomTTL
    BY DEF Until, Room
<1>2. ASSUME NEW j \in Id, j # i
      PROVE  Until'[j] = Until[j]
    BY <1>2 DEF Until, Room
<1>3. Until' = [j \in Id |-> Until'[j]] /\ DOMAIN Until = Id
    BY DEF Until
<1> QED BY <1>1, <1>2, <1>3

LEMMA PublishExtends ==
    ASSUME TypeOK, OwnedRooms, NEW p \in Proc, NEW i \in Id, NEW k \in Key, NEW c \in Card,
           Publish(p, i, k, c)
    PROVE  Ownership!Next
<1> DEFINE e == [Room(i) EXCEPT !.card = c, !.sig = c, !.pin = now + RoomTTL, !.closed = FALSE]
<1>1. /\ rooms' = Swept /\ UNCHANGED <<now, restarts>> /\ Held(i)
      /\ heap' = [heap EXCEPT ![i][rooms[i]] = e]
    BY DEF Publish, Pinned, Room
<1>2. rooms[i] \in Object /\ rooms'[i] = rooms[i] /\ Room(i) \in Entry /\ Room(i).owner \in Key
    BY <1>1 DEF Held, Swept, Room, TypeOK, OwnedRooms
<1>3. e.owner = Room(i).owner /\ e.pin = now + RoomTTL
    BY <1>2 DEF Entry
<1> HIDE DEF e
<1>4. Room(i)'.owner = Room(i).owner /\ Room(i)'.pin = now + RoomTTL
    <2>1. heap'[i][rooms[i]] = e
        BY <1>1, <1>2 DEF TypeOK
    <2> QED BY <1>2, <1>3, <2>1 DEF Room
<1>5. ~(now > now + RoomTTL)
    BY NumberAssumption DEF TypeOK
<1>6. Held(i)'
    BY <1>1, <1>2, <1>4, <1>5 DEF Held, Expired, Room
<1>7. ASSUME NEW j \in Id, j # i
      PROVE  /\ Held(j)' <=> Held(j)
             /\ Held(j) => Room(j)' = Room(j)
    <2>1. rooms'[j] = Swept[j] /\ heap'[j] = heap[j]
        BY <1>1, <1>7 DEF TypeOK
    <2> QED BY <1>1, <2>1, SweptHeld
<1>8. Owner[i] # NoKey /\ Owner' = Owner
    BY <1>1, <1>2, <1>4, <1>6, <1>7, NoneAssumption DEF Owner, Room
<1>9. Until' = [Until EXCEPT ![i] = now + RoomTTL]
    BY <1>4, <1>6, <1>7, OneExtended
<1>10. Ownership!Extend(i)
    BY <1>1, <1>8, <1>9 DEF Ownership!Extend, Owner, Until
<1> QED BY <1>10 DEF Ownership!Next

LEMMA InsertClaims ==
    ASSUME TypeOK, Asking, NEW p \in Proc, Insert(p)
    PROVE  Ownership!Next \/ UNCHANGED Ownership!vars
<1>1. PICK i \in Id : i = job[p].id
    BY DEF Insert, TypeOK, Waiting
<1>2. UNCHANGED <<now, restarts>> /\ job[p].key \in Key
    BY DEF Insert, Asking, Waiting
<1>3. PICK k \in Key : k = job[p].key
    BY <1>2
<1>4. CASE Held(i)
    <2>1. rooms' = Swept /\ UNCHANGED heap
        BY <1>1, <1>4 DEF Insert
    <2> QED BY <1>2, <2>1, SweepStutters
<1>5. CASE ~Held(i)
    <2>1. PICK o \in Fresh(i) : /\ rooms' = [Swept EXCEPT ![i] = o]
                                /\ heap' = [heap EXCEPT ![i][o] = NewRoom(p)]
        BY <1>1, <1>5 DEF Insert
    <2>2. o \in Object /\ o # 0 /\ Swept \in [Id -> {0} \cup Object]
        BY SweptType DEF Fresh, Object
    <2>3. rooms'[i] = o
        BY <2>1, <2>2
    <2>4. Room(i)' = NewRoom(p)
        BY <2>1, <2>2, <2>3 DEF Room, TypeOK
    <2>5. Room(i)'.owner = job[p].key /\ Room(i)'.pin = now + RoomTTL
        BY <2>4 DEF NewRoom
    <2>6. ~(now > now + RoomTTL)
        BY NumberAssumption DEF TypeOK
    <2>7. Held(i)'
        BY <1>2, <2>2, <2>3, <2>5, <2>6 DEF Held, Expired, Room
    <2>8. ASSUME NEW j \in Id, j # i
          PROVE  /\ Held(j)' <=> Held(j)
                 /\ Held(j) => Room(j)' = Room(j)
        <3>1. rooms'[j] = Swept[j]
            BY <2>1, <2>2, <2>8
        <3>2. heap'[j] = heap[j]
            BY <2>1, <2>8 DEF TypeOK
        <3> QED BY <1>2, <3>1, <3>2, SweptHeld
    <2>9. Owner[i] = NoKey /\ Owner' = [Owner EXCEPT ![i] = k]
        BY <1>5, <1>3, <2>5, <2>7, <2>8 DEF Owner, Room
    <2>10. Until' = [Until EXCEPT ![i] = now + RoomTTL]
        BY <2>5, <2>7, <2>8, OneExtended
    <2>11. Ownership!Claim(i, k)
        BY <1>2, <2>9, <2>10 DEF Ownership!Claim, Owner, Until
    <2> QED BY <2>11 DEF Ownership!Next
<1> QED BY <1>4, <1>5

LEMMA PassTimePasses ==
    ASSUME TypeOK, PassTime
    PROVE  Ownership!Next
<1>1. /\ now' = now + 1 /\ now \in Nat
      /\ UNCHANGED <<rooms, heap, restarts>>
    BY DEF PassTime, memory, TypeOK
<1>2. \A i \in Id, o \in Object : heap[i][o].pin \in Int
    BY DEF TypeOK, Entry
<1>3. ASSUME NEW i \in Id
      PROVE  /\ Owner'[i] = IF now' > Until[i] THEN NoKey ELSE Owner[i]
             /\ Until'[i] = IF now' > Until[i] THEN 0 ELSE Until[i]
    <2>1. rooms[i] # 0 => Room(i).pin \in Int
        BY <1>2 DEF Room, TypeOK
    <2>2. CASE Held(i)
        <3>1. Held(i)' <=> ~(now' > Room(i).pin)
            BY <1>1, <2>2 DEF Held, Expired, Room
        <3> QED BY <1>1, <2>2, <3>1 DEF Owner, Until, Room
    <2>3. CASE ~Held(i)
        <3>1. ~Held(i)'
            BY <1>1, <2>1, <2>3 DEF Held, Expired, Room
        <3> QED BY <1>1, <2>3, <3>1 DEF Owner, Until
    <2> QED BY <2>2, <2>3
<1>4. /\ Owner' = [i \in Id |-> IF now' > Until[i] THEN NoKey ELSE Owner[i]]
      /\ Until' = [i \in Id |-> IF now' > Until[i] THEN 0 ELSE Until[i]]
    <2>1. Owner' = [i \in Id |-> Owner'[i]] /\ Until' = [i \in Id |-> Until'[i]]
        BY DEF Owner, Until
    <2> QED BY <1>3, <2>1
<1>5. Ownership!PassTime
    BY <1>1, <1>4 DEF Ownership!PassTime, Owner, Until
<1> QED BY <1>5 DEF Ownership!Next

LEMMA RestartForgets ==
    ASSUME TypeOK, FileFits, Restart
    PROVE  Ownership!Next
<1>1. /\ restarts' = restarts + 1 /\ now' = now /\ now \in Nat
      /\ \A i \in Id : rooms'[i] = IF Loads(file[i]) THEN 1 ELSE 0
      /\ \A i \in Id : Loads(file[i]) => heap'[i][1] = file[i] /\ 1 \in Object
    <2>1. \A i \in Id : Loads(file[i]) => rooms[i] \in 1..MaxObject /\ MaxObject \in Nat
        BY NumberAssumption DEF FileFits, Held, TypeOK, Object
    <2>2. \A i \in Id : Loads(file[i]) => 1 \in Object
        BY <2>1 DEF Object
    <2> QED BY <2>2 DEF Restart, Loads, TypeOK
<1>2. ASSUME NEW i \in Id
      PROVE  \/ Owner'[i] = NoKey /\ Until'[i] = 0
             \/ Owner'[i] = Owner[i] /\ Until'[i] \in now..Until[i]
    <2>1. CASE ~Loads(file[i])
        <3>1. ~Held(i)'
            BY <1>1, <2>1 DEF Held
        <3> QED BY <3>1 DEF Owner, Until
    <2>2. CASE Loads(file[i])
        <3>1. rooms'[i] = 1 /\ heap'[i][rooms'[i]] = file[i]
            BY <1>1, <2>2
        <3>2. ~(now > file[i].pin) /\ file[i].pin \in Int
            BY <2>2 DEF Loads, Expired, TypeOK, Entry
        <3>3. Held(i)'
            BY <1>1, <3>1, <3>2 DEF Held, Expired
        <3>4. Owner'[i] = file[i].owner /\ Until'[i] = file[i].pin
            BY <3>1, <3>3 DEF Owner, Until
        <3>5. Held(i) /\ file[i].owner = Room(i).owner /\ file[i].pin <= Room(i).pin
            BY <2>2 DEF FileFits
        <3>6. Room(i).pin \in Int
            <4>1. Room(i) \in Entry
                BY <3>5 DEF Held, Room, TypeOK
            <4> QED BY <4>1 DEF Entry
        <3>7. Owner[i] = Room(i).owner /\ Until[i] = Room(i).pin
            BY <3>5 DEF Owner, Until, Room
        <3> QED BY <1>1, <3>2, <3>4, <3>5, <3>6, <3>7
    <2> QED BY <2>1, <2>2
<1>3. Ownership!Restart
    BY <1>1, <1>2 DEF Ownership!Restart, Owner, Until
<1> QED BY <1>3 DEF Ownership!Next

LEMMA OwnershipNext ==
    ASSUME StoreInv, [Next]_vars
    PROVE  Ownership!Next \/ UNCHANGED Ownership!vars
<1>1. TypeOK /\ Asking /\ OwnedRooms /\ FileFits /\ Request \subseteq Proc
    BY DEF StoreInv, Proc
<1>2. CASE UNCHANGED <<now, restarts, memory>>
    BY <1>2, SameMemory
<1>3. CASE \E p \in Request : Asked(p)
    <2> PICK p \in Request, k \in Key :
            \/ \E c \in Card : Issue(p, k, c)
            \/ \E i \in Id : \/ Refused(p, i, k) \/ Retire(p, i, k)
                             \/ \E c \in Card : Publish(p, i, k, c)
        BY <1>3 DEF Asked
    <2>1. CASE \E c \in Card : Issue(p, k, c)
        BY <1>2, <2>1 DEF Issue
    <2>2. CASE \E i \in Id : Refused(p, i, k)
        BY <1>1, <2>2, SweepStutters DEF Refused
    <2>3. CASE \E i \in Id : Retire(p, i, k)
        BY <1>1, <2>3, RetireStutters
    <2>4. CASE \E i \in Id, c \in Card : Publish(p, i, k, c)
        BY <1>1, <2>4, PublishExtends
    <2> QED BY <2>1, <2>2, <2>3, <2>4
<1>4. CASE Sweep
    BY <1>1, <1>4, SweepStutters DEF Sweep
<1>5. CASE \E p \in Proc : Step(p) \/ AcquireDerivation(p) \/ HangUp(p) \/ Marshal(p)
    <2> PICK p \in Proc : Step(p) \/ AcquireDerivation(p) \/ HangUp(p) \/ Marshal(p)
        BY <1>5
    <2>1. CASE Insert(p)
        BY <1>1, <2>1, InsertClaims
    <2>2. CASE ~Insert(p)
        BY <1>2, <2>2 DEF Step, TryId, Rendezvous, AcquireDerivation, HangUp, Snapshot,
                          Marshal, Write
    <2> QED BY <2>1, <2>2
<1>6. CASE Restart
    BY <1>1, <1>6, RestartForgets
<1>7. CASE PassTime
    BY <1>1, <1>7, PassTimePasses
<1>8. CASE UNCHANGED vars
    BY <1>2, <1>8 DEF vars
<1> QED BY <1>3, <1>4, <1>5, <1>6, <1>7, <1>8 DEF Next

\* Requests that race for an ID, saves that finish out of order and a process
\* that ends at any moment never give an ID to a second key while the first
\* one's pin lives, nor bring back a pin later than the last one given
\* (Store.Issue, insert, publish and keeper.save, keeper.load).
THEOREM OwnershipIsKept == Spec => OwnershipKept
<1>1. Init => StoreInv /\ Ownership!Init
    BY StoreInitially, OwnershipInit
<1>2. StoreInv /\ [Next]_vars => StoreInv'
    BY StoreNext
<1>3. StoreInv /\ [Next]_vars => [Ownership!Next]_Ownership!vars
    BY OwnershipNext
<1> QED BY <1>1, <1>2, <1>3, PTL DEF Spec, OwnershipKept
-----------------------------------------------------------------------------
(* The file is fresh.                                                      *)

\* A save that has still to read the room that has the ID.
Coming(i) == \E p \in Proc : \/ pc[p] = "snap"
                             \/ pc[p] = "wait" /\ view[p][i] = rooms[i]

\* A save that has read it as it is.
Good(i, p) == pc[p] = "write" /\ view[p][i] = rooms[i] /\ seen[p][i] = Room(i)

\* What differs from the file is about to be written, and a writer that read
\* something older is followed by another.
FreshInv ==
    \A i \in Id : Held(i) =>
        /\ Loads(file[i]) => \/ file[i] = Room(i)
                             \/ Coming(i)
                             \/ \E p \in Proc : Good(i, p)
        /\ \A p \in Proc : pc[p] = "write" /\ view[p][i] = rooms[i]
                            => Coming(i) \/ Good(i, p)

LEMMA FreshInitially == Init => FreshInv
    BY DEF Init, FreshInv, Held, NoView

\* The steps that leave rooms and savers alone, and those that only sweep.
LEMMA FreshAlone ==
    ASSUME TypeOK, TypeOK', FreshInv, UNCHANGED <<now, heap, file, saving>>,
           \A p \in Proc : \/ pc'[p] = pc[p]
                           \/ pc[p] \notin {"snap", "wait"},
           rooms' \in {rooms, Swept}
    PROVE  FreshInv'
<1>1. UNCHANGED <<now, heap, file, view, seen, saver>>
    BY DEF saving
<1>2. \A p \in Proc : pc'[p] = "write" <=> pc[p] = "write"
    BY <1>1, SameWriters
<1>3. ASSUME NEW i \in Id, Held(i)'
      PROVE  /\ Held(i) /\ rooms'[i] = rooms[i] /\ Room(i)' = Room(i)
             /\ Coming(i) => Coming(i)'
             /\ \A p \in Proc : Good(i, p) => Good(i, p)'
    <2>1. rooms'[i] = rooms[i] /\ Held(i)
        BY <1>1, <1>3 DEF Swept, Held, Expired
    <2>2. Room(i)' = Room(i)
        BY <1>1, <2>1 DEF Room
    <2>3. Coming(i) => Coming(i)'
        BY <1>1, <2>1 DEF Coming
    <2>4. \A p \in Proc : Good(i, p) => Good(i, p)'
        BY <1>1, <1>2, <2>1, <2>2 DEF Good
    <2> QED BY <2>1, <2>2, <2>3, <2>4
<1>4. ASSUME NEW i \in Id, Held(i)'
      PROVE  /\ Loads(file[i]) => \/ file[i] = Room(i)'
                                  \/ Coming(i)'
                                  \/ \E p \in Proc : Good(i, p)'
             /\ \A p \in Proc : pc'[p] = "write" /\ view[p][i] = rooms'[i]
                                 => Coming(i)' \/ Good(i, p)'
    BY <1>2, <1>3, <1>4 DEF FreshInv
<1> QED BY <1>1, <1>4 DEF FreshInv, Loads, Expired

\* Whoever changed a room, or swept the map, saves it next.
LEMMA FreshToSave ==
    ASSUME NEW p \in Proc, pc'[p] = "snap"
    PROVE  FreshInv'
    BY DEF FreshInv, Coming

LEMMA FreshSnapshot ==
    ASSUME TypeOK, FreshInv, NEW p \in Proc, Snapshot(p)
    PROVE  FreshInv'
<1>1. /\ UNCHANGED <<now, rooms, heap, file, seen, saver>>
      /\ view' = [view EXCEPT ![p] = rooms] /\ pc' = [pc EXCEPT ![p] = "wait"]
    BY DEF Snapshot, memory, Goto
<1>2. ASSUME NEW i \in Id
      PROVE  Coming(i)'
    BY <1>1 DEF Coming, TypeOK
<1> QED BY <1>2 DEF FreshInv

\* The keeper's mutex was free, so no one else is writing.
LEMMA FreshMarshal ==
    ASSUME TypeOK, FreshInv, NEW p \in Proc, Marshal(p)
    PROVE  FreshInv'
<1>1. /\ UNCHANGED <<now, rooms, heap, file, view>>
      /\ seen' = [seen EXCEPT ![p] = Pointed(p)]
      /\ pc' = [pc EXCEPT ![p] = "write"] /\ pc[p] = "wait" /\ saver = NoOne
    BY DEF Marshal, memory, Goto
<1>2. \A q \in Proc : pc[q] # "write"
    BY <1>1, NoneAssumption DEF TypeOK
<1>3. pc'[p] = "write" /\ \A q \in Proc \ {p} : pc'[q] = pc[q]
    BY <1>1 DEF TypeOK
<1>4. ASSUME NEW i \in Id, Held(i), view[p][i] = rooms[i]
      PROVE  Good(i, p)'
    <2>1. seen'[p][i] = Room(i)
        BY <1>1, <1>4 DEF Pointed, Held, Room, TypeOK
    <2> QED BY <1>1, <1>3, <1>4, <2>1 DEF Good, Room
<1>5. ASSUME NEW i \in Id, Held(i)
      PROVE  /\ Loads(file[i]) => \/ file[i] = Room(i)
                                  \/ Coming(i)'
                                  \/ \E q \in Proc : Good(i, q)'
             /\ \A q \in Proc : pc'[q] = "write" /\ view[q][i] = rooms[i]
                                 => Good(i, q)'
    <2>1. Coming(i) => Coming(i)' \/ Good(i, p)'
        BY <1>1, <1>3, <1>4, <1>5 DEF Coming
    <2>2. \A q \in Proc : ~Good(i, q)
        BY <1>2 DEF Good
    <2>3. \A q \in Proc : pc'[q] = "write" => q = p
        BY <1>2, <1>3
    <2> QED BY <1>4, <1>5, <2>1, <2>2, <2>3 DEF FreshInv
<1> QED BY <1>1, <1>5 DEF FreshInv, Loads, Held, Expired, Room

LEMMA FreshWrite ==
    ASSUME TypeOK, RoomInv, FreshInv, NEW p \in Proc, Write(p), "save" \notin Fault
    PROVE  FreshInv'
<1>1. /\ UNCHANGED <<now, rooms, heap>>
      /\ view' = [view EXCEPT ![p] = NoView] /\ seen' = [seen EXCEPT ![p] = NoRooms]
      /\ pc[p] = "write" /\ pc' = [pc EXCEPT ![p] = "idle"]
    BY DEF Write, memory, Return, Goto
<1>2. PICK late \in [{i \in Id : Pointed(p)[i] # seen[p][i]} ->
                        SUBSET {"card", "sig", "pin", "closed"}] : file' = Written(p, late)
    BY DEF Write
<1>3. \A q \in Proc \ {p} : pc'[q] = pc[q] /\ view'[q] = view[q] /\ seen'[q] = seen[q]
    BY <1>1 DEF TypeOK
<1>4. pc'[p] = "idle" /\ \A q \in Proc \ {p} : pc[q] # "write"
    BY <1>1 DEF TypeOK
<1>5. ASSUME NEW i \in Id, Coming(i)
      PROVE  Coming(i)'
    BY <1>1, <1>3, <1>5 DEF Coming
<1>6. ASSUME NEW i \in Id, Held(i), Loads(file'[i])
      PROVE  file'[i] = Room(i) \/ Coming(i)
    <2>1. view[p][i] = rooms[i]
        BY <1>1, <1>2, <1>6, WrittenFits
    <2>2. Coming(i) \/ Good(i, p)
        BY <1>1, <1>6, <2>1 DEF FreshInv
    <2>3. CASE Good(i, p)
        <3>1. seen[p][i] = Room(i) /\ Pointed(p)[i] = Room(i)
            BY <1>6, <2>1, <2>3 DEF Good, Pointed, Held, Room
        <3> QED BY <1>2, <3>1, WrittenEntry
    <2> QED BY <2>2, <2>3
<1>7. \A q \in Proc : pc'[q] # "write"
    BY <1>3, <1>4
<1>8. ASSUME NEW i \in Id, Held(i)', Loads(file[i])'
      PROVE  file'[i] = Room(i)' \/ Coming(i)'
    <2>1. Held(i) /\ Loads(file'[i]) /\ Room(i)' = Room(i)
        BY <1>1, <1>8 DEF Held, Loads, Expired, Room
    <2> QED BY <1>5, <1>6, <2>1
<1> QED BY <1>7, <1>8 DEF FreshInv

LEMMA FreshPassTime ==
    ASSUME TypeOK, FreshInv, PassTime
    PROVE  FreshInv'
<1>1. /\ now' = now + 1 /\ now \in Nat
      /\ UNCHANGED <<rooms, heap, file, pc, view, seen>>
    BY DEF PassTime, memory, saving, TypeOK
<1>2. \A i \in Id : /\ file[i].pin \in Int
                    /\ rooms[i] # 0 => Room(i).pin \in Int
    BY DEF Room, TypeOK, Entry
<1>3. ASSUME NEW i \in Id
      PROVE  /\ Held(i)' => Held(i)
             /\ Loads(file[i])' => Loads(file[i])
             /\ Room(i)' = Room(i) /\ Coming(i)' = Coming(i)
             /\ \A p \in Proc : Good(i, p)' = Good(i, p)
    BY <1>1, <1>2 DEF Held, Loads, Expired, Room, Coming, Good
<1> QED BY <1>1, <1>3 DEF FreshInv

\* The rooms in memory are those of the file.
LEMMA FreshRestart ==
    ASSUME TypeOK', Restart
    PROVE  FreshInv'
<1>1. \A i \in Id : rooms'[i] # 0 => heap'[i][rooms'[i]] = file'[i]
    <2>1. ASSUME NEW i \in Id, rooms'[i] # 0, 1 \in Object
          PROVE  heap'[i][rooms'[i]] = file'[i]
        BY <2>1 DEF Restart
    <2>2. ASSUME NEW i \in Id, rooms'[i] # 0
          PROVE  1 \in Object
        BY <2>2 DEF Restart, TypeOK
    <2> QED BY <2>1, <2>2
<1>2. \A p \in Proc : pc'[p] # "write"
    BY DEF Restart
<1> QED BY <1>1, <1>2 DEF FreshInv, Held, Room

LEMMA FreshNext ==
    ASSUME StoreInv, FreshInv, [Next]_vars, "save" \notin Fault
    PROVE  FreshInv'
<1>1. /\ TypeOK /\ RoomInv /\ TypeOK' /\ Request \subseteq Proc /\ Sweeper \in Proc
    BY TypeNext DEF StoreInv, RoomInv, Proc
<1>2. CASE \E p \in Request : Asked(p)
    <2> PICK p \in Request, k \in Key :
            \/ \E c \in Card : Issue(p, k, c)
            \/ \E i \in Id : \/ Refused(p, i, k) \/ Retire(p, i, k)
                             \/ \E c \in Card : Publish(p, i, k, c)
        BY <1>2 DEF Asked
    <2>1. CASE \E c \in Card : Issue(p, k, c)
        BY <1>1, <2>1, FreshAlone DEF Issue, Goto, TypeOK, memory
    <2>2. CASE \E i \in Id : Refused(p, i, k)
        BY <1>1, <2>2, FreshAlone DEF Refused
    <2>3. CASE \E i \in Id : Retire(p, i, k) \/ \E c \in Card : Publish(p, i, k, c)
        <3>1. pc'[p] = "snap"
            BY <1>1, <2>3 DEF Retire, Publish, Goto, TypeOK
        <3> QED BY <1>1, <3>1, FreshToSave
    <2> QED BY <2>1, <2>2, <2>3
<1>3. CASE Sweep
    <2>1. pc'[Sweeper] = "snap"
        BY <1>1, <1>3 DEF Sweep, Goto, TypeOK
    <2> QED BY <1>1, <2>1, FreshToSave
<1>4. CASE \E p \in Proc : Step(p) \/ AcquireDerivation(p) \/ HangUp(p) \/ Marshal(p)
    <2> PICK p \in Proc : Step(p) \/ AcquireDerivation(p) \/ HangUp(p) \/ Marshal(p)
        BY <1>4
    <2>1. CASE TryId(p) \/ Rendezvous(p) \/ AcquireDerivation(p) \/ HangUp(p)
        <3>1. /\ UNCHANGED <<now, memory, file, saving>>
              /\ pc[p] \notin {"snap", "wait"}
              /\ \A q \in Proc \ {p} : pc'[q] = pc[q]
            BY <1>1, <2>1
            DEF TryId, Rendezvous, AcquireDerivation, HangUp, Return, Goto, TypeOK
        <3> QED BY <1>1, <3>1, FreshAlone DEF memory
    <2>2. CASE Insert(p)
        <3>1. CASE pc' = [pc EXCEPT ![p] = "snap"]
            <4>1. pc'[p] = "snap"
                BY <1>1, <3>1 DEF TypeOK
            <4> QED BY <4>1, FreshToSave
        <3>2. CASE pc' # [pc EXCEPT ![p] = "snap"]
            <4>1. /\ UNCHANGED <<now, heap, file, saving>> /\ rooms' = Swept
                  /\ pc[p] \notin {"snap", "wait"}
                  /\ \A q \in Proc \ {p} : pc'[q] = pc[q]
                BY <1>1, <2>2, <3>2 DEF Insert, Goto, TypeOK
            <4> QED BY <1>1, <4>1, FreshAlone
        <3> QED BY <3>1, <3>2
    <2>3. CASE Snapshot(p) \/ Marshal(p) \/ Write(p)
        BY <1>1, <2>3, FreshSnapshot, FreshMarshal, FreshWrite
    <2> QED BY <2>1, <2>2, <2>3 DEF Step
<1>5. CASE Restart
    BY <1>1, <1>5, FreshRestart
<1>6. CASE PassTime
    BY <1>1, <1>6, FreshPassTime
<1>7. CASE UNCHANGED vars
    BY <1>1, <1>7, FreshAlone DEF vars, memory
<1> QED BY <1>2, <1>3, <1>4, <1>5, <1>6, <1>7 DEF Next

\* When no write fails, saves that overtake one another never leave on disk an
\* older card, pin or closing than the one last answered (respaldar in
\* registry/store.go copies pointers, and keeper.save reads them with its mutex
\* held, so the last to write reads everything that was answered before).
THEOREM FileStaysFresh ==
    ASSUME "save" \notin Fault
    PROVE  Spec => []FileIsFresh
<1>1. Init => StoreInv /\ FreshInv
    BY StoreInitially, FreshInitially
<1>2. StoreInv /\ FreshInv /\ [Next]_vars => StoreInv' /\ FreshInv'
    BY StoreNext, FreshNext
<1>3. FreshInv => FileIsFresh
    BY DEF FreshInv, FileIsFresh, Quiet, Coming, Good, Loads, Room
<1> QED BY <1>1, <1>2, <1>3, PTL DEF Spec
=============================================================================
