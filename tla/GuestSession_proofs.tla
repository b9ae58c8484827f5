------------------------- MODULE GuestSession_proofs -------------------------
(***************************************************************************)
(* Theorems about a guest's session, for every number of hosts, rejoins,   *)
(* orders, codes and messages, and every set of faults unless the theorem  *)
(* says otherwise.                                                         *)
(***************************************************************************)
EXTENDS GuestSession, SequenceTheorems, TLAPS

(***************************************************************************)
(* The course of an order.  What holds Session.mu decides what the session *)
(* may look like: outside an order it is in a room or in nothing; a rejoin *)
(* never leaves the room it goes back to; an order that enters has no room *)
(* until its network is there, and with no room there is no network, no    *)
(* gate and no connection.                                                 *)
(***************************************************************************)

OrderTypes ==
    /\ at \in {"free", "lookup", "door", "ask", "enter", "dial", "reattach", "redial"}
    /\ by \in {"user", "return", "rejoin"} /\ goal \in RoomsN /\ cut \in BOOLEAN
    /\ gained \in Creds

PlaceTypes ==
    /\ conn \in Conns /\ host \in Seen /\ room \in RoomsN /\ held \in Creds /\ dead \in BOOLEAN
    /\ streak \in 0 .. MaxStreak /\ calm \in BOOLEAN /\ waiting \in BOOLEAN

Saved == [room : Rooms, auto : BOOLEAN]

ReturnTypes ==
    /\ last \in {None} \cup Saved
    /\ ret \in {"off", "launched", "joining", "landed"} /\ retGoal \in RoomsN
    /\ retCut \in BOOLEAN /\ result \in {"ok", "gone", "busy", "failed"} /\ retWait \in BOOLEAN

\* A box of messages.
Box == {m \in Seq(Mails) : Len(m) <= MaxMail}

EngineTypes ==
    /\ net \in Host \cup {None} /\ carries \in BOOLEAN /\ lobby \in BOOLEAN
    /\ gate \in {"none", "old", "this"} /\ events \in Seq({"up", "down"})
    /\ link \in {"none", "up", "lost"} /\ mail \in Box

WorldTypes ==
    /\ up \subseteq Host /\ open \subseteq Host /\ code \in [Host -> 1 .. MaxCode]
    /\ want \in Host \cup {None} /\ upsets \in 0 .. MaxUpset /\ orders \in 0 .. MaxOrder

AtRest ==
    Free => /\ goal = None /\ ~cut /\ gained = "none" /\ by = "user"
            /\ InRoom <=> room # None

GoingBack ==
    ~Free /\ by = "rejoin" =>
        /\ at # "lookup" /\ InRoom
        /\ goal \in Rooms /\ room = goal /\ streak < MaxStreak

GoingIn ==
    ~Free /\ by # "rejoin" =>
        /\ at \notin {"reattach", "redial"} /\ conn \in {"resolving", "connecting"}
        /\ goal \in Rooms
        /\ room = IF at = "dial" THEN goal ELSE None

NothingBefore ==
    /\ lobby => at \in {"ask", "enter"}
    /\ room = None => net = None /\ ~carries /\ gate = "none" /\ link = "none"

ReturnTurns ==
    /\ ret = "joining" <=> ~Free /\ by = "return"
    /\ ret # "off" => retGoal \in Rooms

Types == OrderTypes /\ PlaceTypes /\ ReturnTypes /\ EngineTypes /\ WorldTypes

Course == Types /\ AtRest /\ GoingBack /\ GoingIn /\ NothingBefore /\ ReturnTurns

\* Where a tunnel carries and the gate is not on its adapter, its rising is still
\* to be handled.
RisingIsAnnounced ==
    carries /\ gate # "this" => \E i \in 1 .. Len(events) : events[i] = "up"

\* What the channel has brought comes from the host of the room there is.
MailIsOfTheRoom ==
    /\ room = None => mail = <<>>
    /\ \A i \in 1 .. Len(mail) : mail[i].from = room.host

\* Whoever decides where to go agrees with the user: the room saved to come back
\* to, the room there is, the one an order goes to and the one Return has claimed.
Wanted ==
    /\ AutoReturn => last.room.host = want
    /\ Settled => room.host = want
    /\ ~Free /\ by = "user" => goal.host = want
    /\ ~Free /\ by = "return" => cut \/ goal.host = want
    /\ ret = "launched" /\ ~retCut => Free /\ ~InRoom /\ retGoal.host = want
    /\ ret = "landed" => by # "user" \/ Free

\* While Return has yet to act on a room that is gone, there is no other.
GoneMeansOut == ret = "landed" /\ result = "gone" => Free /\ ~InRoom

(***************************************************************************)
(* Lemmas about the operators the handlers share.                          *)
(***************************************************************************)

LEMMA RoomsType ==
    /\ None \notin Rooms /\ None \notin Host
    /\ \A r \in Rooms : r.host \in Host
    /\ \A h \in Host, c \in 1 .. MaxCode : [host |-> h, code |-> c] \in Rooms
BY HostAssumption, BoundAssumption DEF Rooms

LEMMA SavedType ==
    /\ \A r \in Rooms, b \in BOOLEAN : [room |-> r, auto |-> b] \in Saved
    /\ \A l \in Saved : /\ l.room \in Rooms /\ l.auto \in BOOLEAN
                        /\ [l EXCEPT !.auto = FALSE] \in Saved
                        /\ [l EXCEPT !.auto = FALSE].room = l.room
                        /\ [l EXCEPT !.auto = FALSE].auto = FALSE
BY DEF Saved

\* What is sent is put at the end, or lost where the box is full.
LEMMA SentType ==
    ASSUME code \in [Host -> 1 .. MaxCode], NEW m \in Box, NEW h \in Host, NEW k \in Kinds
    PROVE  /\ Sent(m, h, k) \in Box
           /\ \A i \in 1 .. Len(Sent(m, h, k)) :
                Sent(m, h, k)[i].from = h \/ \E j \in 1 .. Len(m) : Sent(m, h, k)[i] = m[j]
<1> DEFINE x == [from |-> h, kind |-> k, code |-> code[h]]
<1>1. x \in Mails
    BY DEF Mails
<1>2. m \in Seq(Mails) /\ Len(m) \in Nat /\ Len(m) <= MaxMail
    BY LenProperties DEF Box
<1>3. CASE Len(m) < MaxMail
    <2>1. Sent(m, h, k) = Append(m, x)
        BY <1>3 DEF Sent
    <2>2. Append(m, x) \in Seq(Mails) /\ Len(Append(m, x)) = Len(m) + 1
        BY <1>1, <1>2
    <2>3. \A i \in 1 .. Len(m) + 1 : Append(m, x)[i] = IF i <= Len(m) THEN m[i] ELSE x
        BY <1>1, <1>2
    <2> QED BY <1>2, <1>3, <2>1, <2>2, <2>3, BoundAssumption DEF Box
<1>4. CASE ~(Len(m) < MaxMail)
    BY <1>2, <1>4 DEF Sent
<1> QED BY <1>3, <1>4

\* A rotation tells of the code that comes next.
LEMMA RotationType ==
    ASSUME code \in [Host -> 1 .. MaxCode], NEW m \in Box, Len(m) < MaxMail,
           NEW h \in Host, code[h] < MaxCode, NEW s,
           s = Append(m, [from |-> h, kind |-> "code", code |-> code[h] + 1])
    PROVE  /\ s \in Box
           /\ \A i \in 1 .. Len(s) : s[i].from = h \/ \E j \in 1 .. Len(m) : s[i] = m[j]
<1> DEFINE x == [from |-> h, kind |-> "code", code |-> code[h] + 1]
<1>1. x \in Mails
    <2>1. code[h] + 1 \in 1 .. MaxCode
        BY BoundAssumption
    <2> QED BY <2>1 DEF Mails, Kinds
<1>2. m \in Seq(Mails) /\ Len(m) \in Nat
    BY LenProperties DEF Box
<1>3. s \in Seq(Mails) /\ Len(s) = Len(m) + 1
    BY <1>1, <1>2
<1>4. \A i \in 1 .. Len(m) + 1 : s[i] = IF i <= Len(m) THEN m[i] ELSE x
    BY <1>1, <1>2
<1> QED BY <1>2, <1>3, <1>4, BoundAssumption DEF Box

\* What is taken out of the box leaves the others in it.
LEMMA WithoutType ==
    ASSUME NEW m \in Box, NEW i \in 1 .. Len(m)
    PROVE  /\ Without(m, i) \in Box
           /\ \A k \in 1 .. Len(Without(m, i)) : \E j \in 1 .. Len(m) : Without(m, i)[k] = m[j]
<1>1. m \in Seq(Mails) /\ Len(m) \in Nat /\ Len(m) <= MaxMail /\ Len(m) - 1 \in Nat
    BY LenProperties DEF Box
<1>2. \A j \in 1 .. Len(m) : m[j] \in Mails
    BY <1>1, ElementOfSeq
<1>3. \A k \in 1 .. Len(m) - 1 :
        \E j \in 1 .. Len(m) : Without(m, i)[k] = m[j]
    BY <1>1 DEF Without
<1>4. Without(m, i) \in [1 .. Len(m) - 1 -> Mails]
    BY <1>1, <1>2 DEF Without
<1>5. Without(m, i) \in Seq(Mails) /\ Len(Without(m, i)) = Len(m) - 1
    BY <1>1, <1>4
<1> QED BY <1>1, <1>3, <1>5, BoundAssumption DEF Box

\* An event that is emitted is there to be handled.
LEMMA EmittedType ==
    ASSUME events \in Seq({"up", "down"}), NEW e \in {"up", "down"}
    PROVE  /\ Emitted(e) \in Seq({"up", "down"})
           /\ \E i \in 1 .. Len(Emitted(e)) : Emitted(e)[i] = e
<1>1. Len(events) \in Nat
    BY LenProperties
<1>2. CASE events # <<>> /\ events[Len(events)] = e
    <2>1. Len(events) \in 1 .. Len(events)
        BY <1>1, <1>2, EmptySeq
    <2> QED BY <1>2, <2>1 DEF Emitted
<1>3. CASE ~(events # <<>> /\ events[Len(events)] = e)
    <2>1. Emitted(e) = Append(events, e)
        BY <1>3 DEF Emitted
    <2>2. Append(events, e) \in Seq({"up", "down"}) /\ Len(Append(events, e)) = Len(events) + 1
        BY <1>1
    <2>3. Append(events, e)[Len(events) + 1] = e
        BY <1>1
    <2> QED BY <1>1, <2>1, <2>2, <2>3
<1> QED BY <1>2, <1>3

(***************************************************************************)
(* Every step keeps the course.                                            *)
(***************************************************************************)

LEMMA BoxType == Course => mail \in Box /\ code \in [Host -> 1 .. MaxCode]
BY DEF Course, Types, EngineTypes, WorldTypes

LEMMA LastType == Course => last = None \/ last \in Saved
BY DEF Course, Types, ReturnTypes

\* Leaving a room, whatever is saved of it and whatever comes next.
LEMMA LeaveType ==
    ASSUME Course, Free, InRoom, NEW auto \in BOOLEAN, NEW next \in {"idle", "resolving"},
           NEW unhandled \in Box, LeaveLocked(auto, next, unhandled)
    PROVE  /\ last' \in Saved /\ last'.room = room /\ last'.auto = auto
           /\ mail' \in Box /\ ("crossed" \notin Fault => mail' = <<>>)
           /\ conn' = next /\ room' = None /\ host' = "none" /\ held' = "none" /\ dead' = FALSE
           /\ streak' = 0 /\ calm' = TRUE /\ waiting' = waiting
           /\ gate' = "none" /\ net' = None /\ carries' = FALSE /\ lobby' = FALSE /\ link' = "none"
<1>1. room \in Rooms
    BY DEF Course, AtRest, Types, PlaceTypes, RoomsN
<1>2. <<>> \in Box
    BY EmptySeq, BoundAssumption DEF Box
<1> QED BY <1>1, <1>2, SavedType DEF LeaveLocked, Teardown, ClearRoom

\* After leaving, with no order out, the course goes on.
LEMMA LeaveCourse ==
    ASSUME Course, Free, InRoom, NEW auto \in BOOLEAN, NEW unhandled \in Box,
           LeaveLocked(auto, "idle", unhandled), UNCHANGED <<order, returning>>,
           events' \in Seq({"up", "down"}), WorldTypes'
    PROVE  Course'
<1> USE DEF order, returning
<1>a. /\ conn' = "idle" /\ room' = None /\ host' = "none" /\ held' = "none" /\ dead' = FALSE
      /\ streak' = 0 /\ calm' = TRUE /\ waiting' = waiting
    BY LeaveType
<1>1. OrderTypes' /\ PlaceTypes'
    <2>1. OrderTypes'
        BY DEF Course, Types, OrderTypes
    <2>2. dead' \in BOOLEAN /\ calm' \in BOOLEAN /\ waiting' \in BOOLEAN
        BY <1>a, Zenon DEF Course, Types, PlaceTypes
    <2>3. streak' \in 0 .. MaxStreak
        BY <1>a, StreakAssumption
    <2> QED BY <1>a, <2>1, <2>2, <2>3 DEF PlaceTypes, RoomsN, Conns, Seen, Creds
<1>2. ReturnTypes' /\ EngineTypes'
    BY LeaveType DEF Course, Types, ReturnTypes, EngineTypes
<1>3. AtRest' /\ GoingBack' /\ GoingIn' /\ NothingBefore' /\ ReturnTurns'
    BY LeaveType
       DEF Course, AtRest, GoingBack, GoingIn, NothingBefore, ReturnTurns, Free, InRoom
<1> QED BY <1>1, <1>2, <1>3 DEF Course, Types

LEMMA StopReturningType ==
    ASSUME Course, AutoReturn, StopReturning
    PROVE  /\ last' \in Saved /\ last'.room = last.room /\ last'.auto = FALSE
           /\ retCut' \in BOOLEAN /\ retWait' = FALSE /\ UNCHANGED <<ret, retGoal, result>>
           /\ (ret # "off" => retCut')
BY LastType, SavedType DEF StopReturning, AutoReturn, Course, Types, ReturnTypes

\* What the way being clear comes to.
LEMMA ClearTheWayType ==
    ASSUME Course, Free, NEW r \in Rooms, NEW next \in {"idle", "resolving"}, ClearTheWay(r, next)
    PROVE  /\ conn' = next /\ room' = None
           /\ host' \in Seen /\ held' \in Creds /\ dead' \in BOOLEAN
           /\ streak' \in 0 .. MaxStreak /\ calm' \in BOOLEAN /\ waiting' \in BOOLEAN
           /\ ReturnTypes' /\ mail' \in Box
           /\ net' = None /\ carries' = FALSE /\ gate' = "none" /\ link' = "none" /\ lobby' = FALSE
           /\ events' = events /\ UNCHANGED <<ret, retGoal, result>>
<1> USE DEF place, rejoins, returning, engine, channel
<1>1. CASE InRoom /\ LeaveLocked(FALSE, next, mail) /\ UNCHANGED <<events, returning>>
    <2>1. ReturnTypes'
        BY <1>1, LeaveType, BoxType DEF Course, Types, ReturnTypes
    <2>2. /\ mail' \in Box /\ conn' = next /\ room' = None /\ host' = "none" /\ held' = "none"
          /\ dead' = FALSE /\ streak' = 0 /\ calm' = TRUE /\ waiting' = waiting
          /\ gate' = "none" /\ net' = None /\ carries' = FALSE /\ lobby' = FALSE /\ link' = "none"
        BY <1>1, LeaveType, BoxType
    <2>3. dead' \in BOOLEAN /\ calm' \in BOOLEAN /\ waiting' \in BOOLEAN
        BY <2>2, Zenon DEF Course, Types, PlaceTypes
    <2>4. streak' \in 0 .. MaxStreak
        BY <2>2, StreakAssumption
    <2> QED BY <1>1, <2>1, <2>2, <2>3, <2>4 DEF Seen, Creds
<1>2. CASE /\ Return_ /\ last.room # r /\ StopReturning /\ conn' = next
           /\ UNCHANGED <<room, host, held, dead, rejoins, engine, events, channel>>
    <2>1. ReturnTypes'
        BY <1>2, StopReturningType DEF Return_, Course, Types, ReturnTypes
    <2>2. room = None /\ ~lobby /\ lobby \in BOOLEAN /\ ~carries /\ carries \in BOOLEAN
        BY <1>2 DEF Return_, Course, Types, EngineTypes, AtRest, NothingBefore, Free
    <2> QED BY <1>2, <2>1, <2>2, BoxType, StopReturningType
            DEF Return_, Course, Types, PlaceTypes, NothingBefore
<1>3. CASE /\ ~InRoom /\ ~(Return_ /\ last.room # r) /\ conn' = next
           /\ UNCHANGED <<room, host, held, dead, rejoins, last, returning, engine, events, channel>>
    <2>1. ReturnTypes'
        BY <1>3 DEF Course, Types, ReturnTypes
    <2>2. room = None /\ ~lobby /\ lobby \in BOOLEAN /\ ~carries /\ carries \in BOOLEAN
        BY <1>3 DEF Course, Types, EngineTypes, AtRest, NothingBefore, Free
    <2> QED BY <1>3, <2>1, <2>2, BoxType DEF Course, Types, PlaceTypes, NothingBefore
<1> QED BY <1>1, <1>2, <1>3 DEF ClearTheWay

LEMMA JoinRoomCourse ==
    ASSUME Course, NEW r \in Rooms, JoinRoom(r)
    PROVE  Course'
<1> USE DEF order, world
<1>1. Free /\ goal = None /\ cut = FALSE /\ gained = "none" /\ by = "user"
    BY DEF JoinRoom, Course, AtRest, Types, OrderTypes
<1>2. PICK next \in {"idle", "resolving"} :
        /\ ClearTheWay(r, next)
        /\ \/ /\ next = "resolving" /\ at' = "lookup" /\ by' = "user" /\ goal' = r
              /\ cut' = FALSE /\ UNCHANGED gained
           \/ next = "idle" /\ UNCHANGED order
    BY DEF JoinRoom
<1>3. /\ conn' = next /\ room' = None
      /\ host' \in Seen /\ held' \in Creds /\ dead' \in BOOLEAN
      /\ streak' \in 0 .. MaxStreak /\ calm' \in BOOLEAN /\ waiting' \in BOOLEAN
      /\ ReturnTypes' /\ mail' \in Box
      /\ net' = None /\ carries' = FALSE /\ gate' = "none" /\ link' = "none" /\ lobby' = FALSE
      /\ events' = events /\ UNCHANGED <<ret, retGoal, result>>
    BY <1>1, <1>2, ClearTheWayType
<1>4. WorldTypes'
    BY RoomsType, BoundAssumption DEF JoinRoom, Course, Types, WorldTypes
<1>5. OrderTypes' /\ PlaceTypes'
    BY <1>1, <1>2, <1>3 DEF Course, Types, OrderTypes, PlaceTypes, RoomsN, Conns
<1>6. EngineTypes'
    BY <1>3 DEF Course, Types, EngineTypes
<1>7. AtRest' /\ GoingBack' /\ GoingIn' /\ NothingBefore'
    BY <1>1, <1>2, <1>3 DEF AtRest, GoingBack, GoingIn, NothingBefore, Free, InRoom
<1>8. ReturnTurns'
    BY <1>1, <1>2, <1>3 DEF Course, ReturnTurns, AtRest, Free
<1> QED BY <1>3, <1>4, <1>5, <1>6, <1>7, <1>8 DEF Course, Types

LEMMA LeaveRoomCourse ==
    ASSUME Course, LeaveRoom
    PROVE  Course'
<1> USE DEF order, world
<1>1. Free /\ UNCHANGED order /\ WorldTypes'
    BY BoundAssumption DEF LeaveRoom, Course, Types, WorldTypes
<1>2. CASE InRoom /\ LeaveLocked(FALSE, "idle", mail) /\ UNCHANGED <<events, returning>>
    BY <1>1, <1>2, LeaveCourse, BoxType DEF Course, Types, EngineTypes
<1>3. CASE Return_ /\ StopReturning /\ UNCHANGED <<place, rejoins, engine, events, channel>>
    <2> USE DEF place, rejoins, engine, channel
    <2>1. ReturnTypes' /\ UNCHANGED <<ret, retGoal>>
        BY <1>3, StopReturningType DEF Return_, Course, Types, ReturnTypes
    <2>2. OrderTypes' /\ PlaceTypes'
        BY <1>1, <1>3 DEF Course, Types, OrderTypes, PlaceTypes
    <2>3. EngineTypes'
        BY <1>3 DEF Course, Types, EngineTypes
    <2>4. AtRest' /\ GoingBack' /\ GoingIn' /\ NothingBefore' /\ ReturnTurns'
        BY <1>1, <1>3, <2>1
           DEF Course, AtRest, GoingBack, GoingIn, NothingBefore, ReturnTurns, Free, InRoom
    <2> QED BY <1>1, <2>1, <2>2, <2>3, <2>4 DEF Course, Types
<1> QED BY <1>2, <1>3 DEF LeaveRoom

LEMMA ForgetCourse ==
    ASSUME Course, ForgetLastRoom
    PROVE  Course'
<1> USE DEF order, world, place, rejoins, engine, channel, ForgetLastRoom
<1>1. OrderTypes' /\ PlaceTypes'
    BY DEF Course, Types, OrderTypes, PlaceTypes
<1>2. ReturnTypes' /\ EngineTypes'
    BY DEF Course, Types, ReturnTypes, EngineTypes
<1>3. WorldTypes'
    BY BoundAssumption DEF Course, Types, WorldTypes
<1>4. AtRest' /\ GoingBack' /\ GoingIn' /\ NothingBefore' /\ ReturnTurns'
    BY DEF Course, AtRest, GoingBack, GoingIn, NothingBefore, ReturnTurns, Free, InRoom
<1> QED BY <1>1, <1>2, <1>3, <1>4 DEF Course, Types

LEMMA CancelCourse ==
    ASSUME Course, Cancel
    PROVE  Course'
<1> USE DEF world, place, rejoins, returning, engine, channel, Cancel
<1>1. OrderTypes' /\ PlaceTypes'
    BY DEF Course, Types, OrderTypes, PlaceTypes
<1>2. ReturnTypes' /\ EngineTypes'
    BY DEF Course, Types, ReturnTypes, EngineTypes
<1>3. WorldTypes'
    BY BoundAssumption DEF Course, Types, WorldTypes
<1>4. AtRest' /\ GoingBack' /\ GoingIn' /\ NothingBefore' /\ ReturnTurns'
    BY DEF Course, AtRest, GoingBack, GoingIn, NothingBefore, ReturnTurns, Free, InRoom
<1> QED BY <1>1, <1>2, <1>3, <1>4 DEF Course, Types

LEMMA JoinFailsCourse ==
    ASSUME Course, ~Free, NEW answer \in {"gone", "failed"}, JoinFails(answer)
    PROVE  Course'
<1> USE DEF world, rejoins, counts, JoinFails, Released, Teardown, ClearRoom
<1>1. OrderTypes' /\ PlaceTypes'
    BY DEF Course, Types, OrderTypes, PlaceTypes, RoomsN, Conns, Seen, Creds
<1>2. mail' \in Box
    BY BoxType, EmptySeq, BoundAssumption DEF Box
<1>3. ReturnTypes' /\ EngineTypes'
    BY <1>2 DEF Course, Types, ReturnTypes, EngineTypes
<1>4. WorldTypes'
    BY DEF Course, Types, WorldTypes
<1>5. AtRest' /\ GoingBack' /\ GoingIn' /\ NothingBefore' /\ ReturnTurns'
    BY DEF Course, AtRest, GoingBack, GoingIn, NothingBefore, ReturnTurns, Free, InRoom
<1> QED BY <1>1, <1>3, <1>4, <1>5 DEF Course, Types

LEMMA RejoinFailsCourse ==
    ASSUME Course, ~Free, RejoinFails
    PROVE  Course'
<1> USE DEF place, rejoins, returning, world, counts, RejoinFails, Released
<1>1. InRoom /\ room \in Rooms /\ room # None
    BY RoomsType DEF Course, GoingBack
<1>2. OrderTypes' /\ PlaceTypes'
    BY DEF Course, Types, OrderTypes, PlaceTypes, RoomsN, Creds
<1>3. ReturnTypes' /\ EngineTypes'
    BY DEF Course, Types, ReturnTypes, EngineTypes
<1>4. WorldTypes'
    BY DEF Course, Types, WorldTypes
<1>5. AtRest' /\ GoingBack' /\ GoingIn' /\ NothingBefore' /\ ReturnTurns'
    BY <1>1 DEF Course, AtRest, GoingBack, GoingIn, NothingBefore, ReturnTurns, Free, InRoom
<1> QED BY <1>2, <1>3, <1>4, <1>5 DEF Course, Types

LEMMA FailCourse == Course /\ ~Free /\ Fail => Course'
BY JoinFailsCourse, RejoinFailsCourse DEF Fail

LEMMA OrderGoal == Course /\ ~Free => goal \in Rooms /\ goal # None /\ goal.host \in Host
BY RoomsType DEF Course, GoingBack, GoingIn

LEMMA LookupCourse ==
    ASSUME Course, Lookup
    PROVE  Course'
<1>1. ~Free /\ at = "lookup" /\ by # "rejoin"
    BY DEF Lookup, Free, Course, GoingBack
<1>2. CASE /\ at' = "door" /\ conn' = "connecting"
           /\ UNCHANGED <<by, goal, cut, gained, room, host, held, dead, rejoins, last,
                          returning, engine, events, channel, world, want, counts>>
    <2> USE DEF rejoins, returning, engine, channel, world, counts
    <2>1. OrderTypes' /\ PlaceTypes'
        BY <1>1, <1>2 DEF Course, Types, OrderTypes, PlaceTypes, Conns
    <2>2. ReturnTypes' /\ EngineTypes'
        BY <1>1, <1>2 DEF Course, Types, ReturnTypes, EngineTypes
    <2>3. WorldTypes'
        BY <1>1, <1>2 DEF Course, Types, WorldTypes
    <2>4. AtRest' /\ GoingBack' /\ GoingIn' /\ NothingBefore' /\ ReturnTurns'
        BY <1>1, <1>2 DEF Course, AtRest, GoingBack, GoingIn, NothingBefore, ReturnTurns, Free, InRoom
    <2> QED BY <2>1, <2>2, <2>3, <2>4 DEF Course, Types
<1> QED BY <1>1, <1>2, JoinFailsCourse DEF Lookup

LEMMA EnterLobbyCourse ==
    ASSUME Course, EnterLobby
    PROVE  Course'
<1>1. ~Free /\ at = "door"
    BY DEF EnterLobby, Free
<1>2. CASE /\ lobby' = TRUE /\ at' = "ask"
           /\ UNCHANGED <<by, goal, cut, gained, place, rejoins, last, returning,
                          net, carries, gate, events, channel, world, want, counts>>
    <2> USE DEF place, rejoins, returning, channel, world, counts
    <2>1. OrderTypes' /\ PlaceTypes'
        BY <1>1, <1>2 DEF Course, Types, OrderTypes, PlaceTypes
    <2>2. ReturnTypes' /\ EngineTypes'
        BY <1>1, <1>2 DEF Course, Types, ReturnTypes, EngineTypes
    <2>3. WorldTypes'
        BY <1>1, <1>2 DEF Course, Types, WorldTypes
    <2>4. AtRest' /\ GoingBack' /\ GoingIn' /\ NothingBefore' /\ ReturnTurns'
        BY <1>1, <1>2 DEF Course, AtRest, GoingBack, GoingIn, NothingBefore, ReturnTurns, Free, InRoom
    <2> QED BY <2>1, <2>2, <2>3, <2>4 DEF Course, Types
<1> QED BY <1>1, <1>2, FailCourse DEF EnterLobby

LEMMA AskCourse ==
    ASSUME Course, Ask
    PROVE  Course'
<1>1. ~Free /\ at = "ask"
    BY DEF Ask, Free
<1>2. CASE /\ link' = "none" /\ gained' = "good"
           /\ held' = (IF held = "good" THEN "bad" ELSE held)
           /\ at' = "enter"
           /\ UNCHANGED <<by, goal, cut, conn, room, host, dead, rejoins, last, returning,
                          engine, events, mail, world, want, counts>>
    <2> USE DEF rejoins, returning, engine, world, counts
    <2>1. OrderTypes' /\ PlaceTypes'
        BY <1>1, <1>2 DEF Course, Types, OrderTypes, PlaceTypes, Creds
    <2>2. ReturnTypes' /\ EngineTypes'
        BY <1>1, <1>2 DEF Course, Types, ReturnTypes, EngineTypes
    <2>3. WorldTypes'
        BY <1>1, <1>2 DEF Course, Types, WorldTypes
    <2>4. AtRest' /\ GoingBack' /\ GoingIn' /\ NothingBefore' /\ ReturnTurns'
        BY <1>1, <1>2 DEF Course, AtRest, GoingBack, GoingIn, NothingBefore, ReturnTurns, Free, InRoom
    <2> QED BY <2>1, <2>2, <2>3, <2>4 DEF Course, Types
<1> QED BY <1>1, <1>2, FailCourse DEF Ask

LEMMA EnterRoomCourse ==
    ASSUME Course, EnterRoom
    PROVE  Course'
<1>1. ~Free /\ at = "enter" /\ goal \in Rooms /\ goal # None /\ goal.host \in Host
    BY OrderGoal DEF EnterRoom, Free
<1>2. CASE /\ lobby' = FALSE /\ NewNetwork(goal.host)
           /\ held' = gained /\ room' = goal
           /\ at' = "dial"
           /\ UNCHANGED <<by, goal, cut, gained, conn, host, dead, rejoins, last, returning,
                          channel, world, want, counts>>
    <2> USE DEF NewNetwork, rejoins, returning, channel, world, counts
    <2>1. OrderTypes' /\ PlaceTypes'
        BY <1>1, <1>2 DEF Course, Types, OrderTypes, PlaceTypes
    <2>2. ReturnTypes' /\ EngineTypes'
        BY <1>1, <1>2 DEF Course, Types, ReturnTypes, EngineTypes
    <2>3. WorldTypes'
        BY <1>1, <1>2 DEF Course, Types, WorldTypes
    <2>4. AtRest' /\ GoingBack' /\ GoingIn' /\ NothingBefore' /\ ReturnTurns'
        BY <1>1, <1>2 DEF Course, AtRest, GoingBack, GoingIn, NothingBefore, ReturnTurns, Free, InRoom
    <2> QED BY <2>1, <2>2, <2>3, <2>4 DEF Course, Types
<1> QED BY <1>1, <1>2, FailCourse DEF EnterRoom

\* The connection of a room, and what it brings first.
LEMMA OpenedType ==
    ASSUME Course, room \in Rooms, Opened
    PROVE  link' = "up" /\ mail' \in Box
<1>1. room.host \in Host /\ "present" \in Kinds
    BY RoomsType DEF Kinds
<1> QED BY <1>1, BoxType, SentType DEF Opened

LEMMA SettleCourse ==
    ASSUME Course, Settle
    PROVE  Course'
<1>1. /\ ~Free /\ at \in {"dial", "redial"} /\ room = goal /\ goal \in Rooms /\ room # None
      /\ lobby = FALSE /\ conn \in Conns
    BY OrderGoal DEF Settle, Free, Course, GoingBack, GoingIn, NothingBefore, Types, EngineTypes,
                     PlaceTypes
<1>2. /\ link' = "up" /\ mail' \in Box /\ Released /\ gate' = "this"
      /\ host' \in {"here", "away"}
      /\ UNCHANGED <<room, held, retGoal, retCut, retWait, net, carries, lobby, events,
                     world, want, counts>>
    BY <1>1, OpenedType DEF Settle, NoteHostAlive
<1>3. CASE /\ by = "rejoin" /\ RejoinWorked /\ UNCHANGED <<conn, last, ret, result>>
    <2>1. InRoom /\ streak < MaxStreak
        BY <1>1, <1>3 DEF Course, GoingBack
    <2>2. streak' \in 0 .. MaxStreak
        BY <1>3, <2>1, StreakAssumption DEF RejoinWorked, Course, Types, PlaceTypes
    <2>3. dead' \in BOOLEAN /\ calm' \in BOOLEAN /\ waiting' \in BOOLEAN
        BY <1>3 DEF RejoinWorked, Course, Types, PlaceTypes
    <2>4. OrderTypes' /\ PlaceTypes'
        BY <1>1, <1>2, <1>3, <2>2, <2>3
           DEF Released, Course, Types, OrderTypes, PlaceTypes, RoomsN, Creds, Seen
    <2>5. ReturnTypes' /\ EngineTypes'
        BY <1>2, <1>3 DEF Course, Types, ReturnTypes, EngineTypes
    <2>6. WorldTypes'
        BY <1>2 DEF world, counts, Course, Types, WorldTypes
    <2>7. AtRest' /\ GoingBack' /\ GoingIn' /\ NothingBefore' /\ ReturnTurns'
        BY <1>1, <1>2, <1>3, <2>1
           DEF Released, Course, AtRest, GoingBack, GoingIn, NothingBefore, ReturnTurns, Free, InRoom
    <2> QED BY <2>4, <2>5, <2>6, <2>7 DEF Course, Types
<1>4. CASE /\ by # "rejoin" /\ conn' = "up" /\ last' = [room |-> room, auto |-> TRUE]
           /\ UNCHANGED <<dead, rejoins>>
           /\ IF by = "return" THEN ret' = "landed" /\ result' = "ok" ELSE UNCHANGED <<ret, result>>
    <2>1. last' \in Saved
        BY <1>1, <1>4, SavedType
    <2>2. OrderTypes' /\ PlaceTypes'
        BY <1>1, <1>2, <1>4
           DEF rejoins, Released, Course, Types, OrderTypes, PlaceTypes, RoomsN, Creds, Seen, Conns
    <2>3. ReturnTypes' /\ EngineTypes'
        BY <1>2, <1>4, <2>1 DEF Course, Types, ReturnTypes, EngineTypes
    <2>4. WorldTypes'
        BY <1>2 DEF world, counts, Course, Types, WorldTypes
    <2>5. AtRest' /\ GoingBack' /\ GoingIn' /\ NothingBefore' /\ ReturnTurns'
        BY <1>1, <1>2, <1>4
           DEF Released, Course, AtRest, GoingBack, GoingIn, NothingBefore, ReturnTurns, Free, InRoom
    <2> QED BY <2>2, <2>3, <2>4, <2>5 DEF Course, Types
<1> QED BY <1>3, <1>4 DEF Settle

LEMMA SettleFailsCourse ==
    ASSUME Course, SettleFails
    PROVE  Course'
<1>1. ~Free /\ at \in {"dial", "redial"} /\ room = goal /\ goal \in Rooms /\ room # None
      /\ lobby = FALSE
    BY OrderGoal DEF SettleFails, Free, Course, GoingBack, GoingIn, NothingBefore, Types,
                     EngineTypes
<1>2. CASE /\ by = "rejoin" /\ Opened /\ NoteHostAlive
           /\ IF at = "dial" THEN Released
              ELSE at' = "door" /\ UNCHANGED <<by, goal, cut, gained>>
           /\ UNCHANGED <<conn, room, held, dead, rejoins, last, returning, engine, events, world,
                          want, counts>>
    <2>1. link' = "up" /\ mail' \in Box /\ InRoom
        BY <1>1, <1>2, OpenedType DEF Course, GoingBack
    <2> USE DEF NoteHostAlive, Released, rejoins, returning, engine, world, counts
    <2>2. OrderTypes' /\ PlaceTypes'
        BY <1>1, <1>2, <2>1 DEF Course, Types, OrderTypes, PlaceTypes, RoomsN, Creds, Seen
    <2>3. ReturnTypes' /\ EngineTypes'
        BY <1>1, <1>2, <2>1 DEF Course, Types, ReturnTypes, EngineTypes
    <2>4. WorldTypes'
        BY <1>1, <1>2, <2>1 DEF Course, Types, WorldTypes
    <2>5. AtRest' /\ GoingBack' /\ GoingIn' /\ NothingBefore' /\ ReturnTurns'
        BY <1>1, <1>2, <2>1 DEF Course, AtRest, GoingBack, GoingIn, NothingBefore, ReturnTurns, Free, InRoom
    <2> QED BY <2>2, <2>3, <2>4, <2>5 DEF Course, Types
<1> QED BY <1>1, <1>2, JoinFailsCourse DEF SettleFails

LEMMA DialFailsCourse ==
    ASSUME Course, DialFails
    PROVE  Course'
<1>1. ~Free /\ at \in {"dial", "redial"}
    BY DEF DialFails, Free
<1>2. CASE /\ at = "redial" /\ at' = "door" /\ link' = "none"
           /\ UNCHANGED <<by, goal, cut, gained, place, rejoins, last, returning,
                          engine, events, mail, world, want, counts>>
    <2> USE DEF place, rejoins, returning, engine, world, counts
    <2>1. OrderTypes' /\ PlaceTypes'
        BY <1>1, <1>2 DEF Course, Types, OrderTypes, PlaceTypes
    <2>2. ReturnTypes' /\ EngineTypes'
        BY <1>1, <1>2 DEF Course, Types, ReturnTypes, EngineTypes
    <2>3. WorldTypes'
        BY <1>1, <1>2 DEF Course, Types, WorldTypes
    <2>4. AtRest' /\ GoingBack' /\ GoingIn' /\ NothingBefore' /\ ReturnTurns'
        BY <1>1, <1>2 DEF Course, AtRest, GoingBack, GoingIn, NothingBefore, ReturnTurns, Free, InRoom
    <2> QED BY <2>1, <2>2, <2>3, <2>4 DEF Course, Types
<1> QED BY <1>1, <1>2, FailCourse DEF DialFails

LEMMA RejoinCourse ==
    ASSUME Course, Rejoin
    PROVE  Course'
<1>1. /\ Free /\ InRoom /\ room \in Rooms /\ room # None /\ goal = None /\ by = "user"
      /\ lobby = FALSE
    BY DEF Rejoin, RejoinDue, Course, AtRest, Types, PlaceTypes, RoomsN, NothingBefore,
           EngineTypes, Free
<1>2. UNCHANGED <<returning, world, want, counts>>
    BY DEF Rejoin
<1>3. CASE LeaveLocked(TRUE, "idle", mail) /\ UNCHANGED <<order, events>>
    <2>1. WorldTypes' /\ events' \in Seq({"up", "down"})
        BY <1>2, <1>3 DEF world, counts, Course, Types, WorldTypes, EngineTypes
    <2> QED BY <1>1, <1>2, <1>3, <2>1, LeaveCourse, BoxType
<1>4. CASE /\ ~TooMany
           /\ by' = "rejoin" /\ goal' = room /\ cut' = FALSE /\ UNCHANGED gained
           /\ at' \in {"reattach", "door"}
           /\ waiting' = TRUE
           /\ UNCHANGED <<place, streak, calm, last, engine, events, channel>>
    <2> USE DEF place, returning, engine, channel, world, counts
    <2>1. OrderTypes' /\ PlaceTypes'
        BY <1>1, <1>4 DEF Course, Types, OrderTypes, PlaceTypes, RoomsN
    <2>2. ReturnTypes' /\ EngineTypes'
        BY <1>2, <1>4 DEF Course, Types, ReturnTypes, EngineTypes
    <2>3. WorldTypes'
        BY <1>2 DEF Course, Types, WorldTypes
    <2>4. streak < MaxStreak
        BY <1>4, StreakAssumption DEF TooMany, Course, Types, PlaceTypes
    <2>5. AtRest' /\ GoingBack' /\ GoingIn' /\ NothingBefore'
        BY <1>1, <1>2, <1>4, <2>4
           DEF Course, AtRest, GoingBack, GoingIn, NothingBefore, Free, InRoom
    <2>6. ReturnTurns'
        BY <1>1, <1>2, <1>4 DEF Course, ReturnTurns, Free
    <2> QED BY <2>1, <2>2, <2>3, <2>5, <2>6 DEF Course, Types
<1> QED BY <1>3, <1>4 DEF Rejoin

LEMMA ReattachCourse ==
    ASSUME Course, Reattach
    PROVE  Course'
<1>1. ~Free /\ by = "rejoin" /\ at = "reattach" /\ room \in Rooms /\ room # None
      /\ room.host \in Host /\ lobby = FALSE
    BY RoomsType DEF Reattach, Free, Course, GoingBack, GoingIn, NothingBefore, Types,
                     EngineTypes, OrderTypes
<1>2. /\ at' \in {"redial", "door"}
      /\ (NewNetwork(room.host) /\ UNCHANGED lobby) \/ UNCHANGED <<engine, events>>
      /\ UNCHANGED <<by, goal, cut, gained, place, rejoins, last, returning, channel,
                     world, want, counts>>
    BY DEF Reattach
<1> USE DEF NewNetwork, place, rejoins, returning, engine, channel, world, counts
<1>3. OrderTypes' /\ PlaceTypes'
    BY <1>1, <1>2 DEF Course, Types, OrderTypes, PlaceTypes
<1>4. ReturnTypes' /\ EngineTypes'
    BY <1>1, <1>2 DEF Course, Types, ReturnTypes, EngineTypes
<1>5. WorldTypes'
    BY <1>1, <1>2 DEF Course, Types, WorldTypes
<1>6. AtRest' /\ GoingBack' /\ GoingIn' /\ NothingBefore' /\ ReturnTurns'
    BY <1>1, <1>2 DEF Course, AtRest, GoingBack, GoingIn, NothingBefore, ReturnTurns, Free, InRoom
<1> QED BY <1>3, <1>4, <1>5, <1>6 DEF Course, Types

LEMMA ReturnCourse ==
    ASSUME Course, Return
    PROVE  Course'
<1> USE DEF order, place, rejoins, engine, channel, world, counts, Return
<1>1. OrderTypes' /\ PlaceTypes'
    BY DEF Course, Types, OrderTypes, PlaceTypes
<1>2. ReturnTypes' /\ EngineTypes'
    BY LastType DEF Return_, AutoReturn, Course, Types, ReturnTypes, RoomsN, Saved, EngineTypes
<1>3. WorldTypes'
    BY DEF Course, Types, WorldTypes
<1>4. AtRest' /\ GoingBack' /\ GoingIn' /\ NothingBefore' /\ ReturnTurns'
    BY LastType DEF Return_, AutoReturn, Saved, Course, AtRest, GoingBack, GoingIn, NothingBefore, ReturnTurns, Free, InRoom
<1> QED BY <1>1, <1>2, <1>3, <1>4 DEF Course, Types

LEMMA ReturnJoinsCourse ==
    ASSUME Course, ReturnJoins
    PROVE  Course'
<1>1. /\ Free /\ ret = "launched" /\ goal = None /\ by = "user" /\ cut = FALSE
      /\ retGoal \in Rooms /\ retCut \in BOOLEAN /\ (InRoom <=> room # None)
    BY DEF ReturnJoins, Course, AtRest, ReturnTurns, Types, OrderTypes, ReturnTypes
<1>2. /\ UNCHANGED <<room, host, held, dead, rejoins, last, retGoal, retCut, retWait, engine, events,
                     channel, world, want, counts>>
    BY DEF ReturnJoins
<1>3. CASE ret' = "landed" /\ result' \in {"busy", "failed"} /\ UNCHANGED <<order, conn>>
    <2> USE DEF order, rejoins, engine, channel, world, counts
    <2>1. OrderTypes' /\ PlaceTypes'
        BY <1>1, <1>2, <1>3 DEF Course, Types, OrderTypes, PlaceTypes
    <2>2. ReturnTypes' /\ EngineTypes'
        BY <1>1, <1>2, <1>3 DEF Course, Types, ReturnTypes, EngineTypes
    <2>3. WorldTypes'
        BY <1>1, <1>2, <1>3 DEF Course, Types, WorldTypes
    <2>4. AtRest' /\ GoingBack' /\ GoingIn' /\ NothingBefore' /\ ReturnTurns'
        BY <1>1, <1>2, <1>3 DEF Course, AtRest, GoingBack, GoingIn, NothingBefore, ReturnTurns, Free, InRoom
    <2> QED BY <2>1, <2>2, <2>3, <2>4 DEF Course, Types
<1>4. CASE /\ ~GivesWay
           /\ ret' = "joining" /\ conn' = "resolving"
           /\ at' = "lookup" /\ by' = "return" /\ goal' = retGoal /\ cut' = retCut
           /\ UNCHANGED <<result, gained>>
    <2> USE DEF GivesWay, rejoins, engine, channel, world, counts
    <2>1. OrderTypes' /\ PlaceTypes'
        BY <1>1, <1>2, <1>4 DEF Course, Types, OrderTypes, PlaceTypes, Conns, RoomsN
    <2>2. ReturnTypes' /\ EngineTypes'
        BY <1>1, <1>2, <1>4 DEF Course, Types, ReturnTypes, EngineTypes
    <2>3. WorldTypes'
        BY <1>1, <1>2, <1>4 DEF Course, Types, WorldTypes
    <2>4. AtRest' /\ GoingBack' /\ GoingIn' /\ NothingBefore' /\ ReturnTurns'
        BY <1>1, <1>2, <1>4 DEF Course, AtRest, GoingBack, GoingIn, NothingBefore, ReturnTurns, Free, InRoom
    <2> QED BY <2>1, <2>2, <2>3, <2>4 DEF Course, Types
<1> QED BY <1>3, <1>4 DEF ReturnJoins


LEMMA ReturnLandsCourse ==
    ASSUME Course, ReturnLands
    PROVE  Course'
<1> USE DEF order, place, rejoins, engine, channel, world, counts, ReturnLands
<1>1. OrderTypes' /\ PlaceTypes'
    BY DEF Course, Types, OrderTypes, PlaceTypes
<1>2. ReturnTypes' /\ EngineTypes'
    BY DEF Course, Types, ReturnTypes, EngineTypes, RoomsN
<1>3. WorldTypes'
    BY DEF Course, Types, WorldTypes
<1>4. AtRest' /\ GoingBack' /\ GoingIn' /\ NothingBefore' /\ ReturnTurns'
    BY DEF Course, AtRest, GoingBack, GoingIn, NothingBefore, ReturnTurns, Free, InRoom
<1> QED BY <1>1, <1>2, <1>3, <1>4 DEF Course, Types

LEMMA OverheardType == Course => Overheard \in Seen /\ Absent \in Seen
BY DEF Overheard, Absent, Seen, Course, Types, PlaceTypes

\* A handler that only learns of the host keeps the course.
LEMMA HostCourse ==
    ASSUME Course, host' \in Seen, WorldTypes',
           UNCHANGED <<order, conn, room, held, dead, rejoins, last, returning, engine, link>>,
           mail' \in Box, events' \in Seq({"up", "down"})
    PROVE  Course'
<1> USE DEF order, rejoins, returning, engine
<1>1. OrderTypes' /\ PlaceTypes'
    BY DEF Course, Types, OrderTypes, PlaceTypes
<1>2. ReturnTypes' /\ EngineTypes'
    BY DEF Course, Types, ReturnTypes, EngineTypes
<1>3. WorldTypes'
    BY DEF Course, Types, WorldTypes
<1>4. AtRest' /\ GoingBack' /\ GoingIn' /\ NothingBefore' /\ ReturnTurns'
    BY DEF Course, AtRest, GoingBack, GoingIn, NothingBefore, ReturnTurns, Free, InRoom
<1> QED BY <1>1, <1>2, <1>3, <1>4 DEF Course, Types

LEMMA BeatCourse ==
    ASSUME Course, Beat
    PROVE  Course'
<1>1. /\ Free /\ InRoom /\ UNCHANGED <<order, events, returning, world, want, counts>>
      /\ WorldTypes' /\ events' \in Seq({"up", "down"})
    BY DEF Beat, world, counts, Course, Types, WorldTypes, EngineTypes
<1>2. CASE Expired
    BY <1>1, <1>2, LeaveCourse, BoxType DEF Beat
<1>3. CASE ~Expired
    BY <1>1, <1>3, HostCourse, OverheardType, BoxType DEF Beat, channel
<1> QED BY <1>2, <1>3

LEMMA OnPeersChangedCourse ==
    ASSUME Course, OnPeersChanged
    PROVE  Course'
<1>1. /\ Free /\ InRoom /\ UNCHANGED <<order, events, returning, world, want, counts>>
      /\ WorldTypes' /\ events' \in Seq({"up", "down"})
    BY DEF OnPeersChanged, world, counts, Course, Types, WorldTypes, EngineTypes
<1>2. CASE Expired
    BY <1>1, <1>2, LeaveCourse, BoxType DEF OnPeersChanged
<1>3. CASE ~Expired
    BY <1>1, <1>3, HostCourse, OverheardType, BoxType DEF OnPeersChanged, channel
<1> QED BY <1>2, <1>3

\* Taking an event leaves the ones after it.
LEMMA TakeEventType ==
    ASSUME Course, NEW e, TakeEvent(e)
    PROVE  /\ Free /\ events' \in Seq({"up", "down"})
           /\ \A i \in 1 .. Len(events) : events[i] # e => \E j \in 1 .. Len(events') : events'[j] = events[i]
<1>1. events \in Seq({"up", "down"}) /\ events # <<>> /\ events' = Tail(events) /\ Head(events) = e
      /\ Free
    BY DEF TakeEvent, Course, Types, EngineTypes
<1>2. /\ Len(events) \in Nat /\ events' \in Seq({"up", "down"}) /\ Len(events') = Len(events) - 1
      /\ \A i \in 1 .. Len(events') : events'[i] = events[i + 1]
    BY <1>1, HeadTailProperties, LenProperties
<1>3. Head(events) = events[1]
    BY <1>1
<1>4. ASSUME NEW i \in 1 .. Len(events), events[i] # e
      PROVE  \E j \in 1 .. Len(events') : events'[j] = events[i]
    <2>1. i - 1 \in 1 .. Len(events') /\ events'[i - 1] = events[i]
        BY <1>1, <1>2, <1>3, <1>4
    <2> QED BY <2>1
<1> QED BY <1>1, <1>2, <1>4

LEMMA OnConnectedCourse ==
    ASSUME Course, OnConnected
    PROVE  Course'
<1>1. /\ Free /\ UNCHANGED <<order, returning, world, want, counts>>
      /\ WorldTypes' /\ events' \in Seq({"up", "down"})
    BY TakeEventType DEF OnConnected, world, counts, Course, Types, WorldTypes
<1>2. CASE InRoom /\ Expired
    BY <1>1, <1>2, LeaveCourse, BoxType DEF OnConnected
<1>3. CASE InRoom /\ ~Expired
    <2>1. /\ conn' = "up" /\ host' \in Seen
          /\ gate' = gate \/ gate' = "this"
          /\ UNCHANGED <<room, held, dead, rejoins, last, net, carries, lobby, channel>>
          /\ room # None
        BY <1>1, <1>3, OverheardType DEF OnConnected, Bound, Course, AtRest
    <2> USE DEF order, rejoins, returning, channel
    <2>2. OrderTypes' /\ PlaceTypes'
        BY <1>1, <1>3, <2>1 DEF Course, Types, OrderTypes, PlaceTypes, Conns
    <2>3. ReturnTypes' /\ EngineTypes'
        BY <1>1, <1>3, <2>1 DEF Course, Types, ReturnTypes, EngineTypes
    <2>4. WorldTypes'
        BY <1>1, <1>3, <2>1 DEF Course, Types, WorldTypes
    <2>5. AtRest' /\ GoingBack' /\ GoingIn' /\ NothingBefore' /\ ReturnTurns'
        BY <1>1, <1>3, <2>1 DEF Course, AtRest, GoingBack, GoingIn, NothingBefore, ReturnTurns, Free, InRoom
    <2> QED BY <2>2, <2>3, <2>4, <2>5 DEF Course, Types
<1>4. CASE ~InRoom
    BY <1>1, <1>4, HostCourse, BoxType DEF OnConnected, place, channel, Course, Types, PlaceTypes
<1> QED BY <1>2, <1>3, <1>4

LEMMA OnDisconnectedCourse ==
    ASSUME Course, OnDisconnected
    PROVE  Course'
<1>1. /\ Free /\ UNCHANGED <<order, returning, world, want, counts>>
      /\ WorldTypes' /\ events' \in Seq({"up", "down"})
    BY TakeEventType DEF OnDisconnected, world, counts, Course, Types, WorldTypes
<1>2. CASE InRoom /\ Expired
    BY <1>1, <1>2, LeaveCourse, BoxType DEF OnDisconnected
<1>3. CASE InRoom /\ ~Expired
    <2>1. /\ conn' = "reconnecting" /\ host' \in Seen
          /\ UNCHANGED <<room, held, dead, rejoins, last, engine, channel>>
          /\ room # None
        BY <1>1, <1>3, OverheardType DEF OnDisconnected, Course, AtRest
    <2> USE DEF order, rejoins, returning, engine, channel
    <2>2. OrderTypes' /\ PlaceTypes'
        BY <1>1, <1>3, <2>1 DEF Course, Types, OrderTypes, PlaceTypes, Conns
    <2>3. ReturnTypes' /\ EngineTypes'
        BY <1>1, <1>3, <2>1 DEF Course, Types, ReturnTypes, EngineTypes
    <2>4. WorldTypes'
        BY <1>1, <1>3, <2>1 DEF Course, Types, WorldTypes
    <2>5. AtRest' /\ GoingBack' /\ GoingIn' /\ NothingBefore' /\ ReturnTurns'
        BY <1>1, <1>3, <2>1 DEF Course, AtRest, GoingBack, GoingIn, NothingBefore, ReturnTurns, Free, InRoom
    <2> QED BY <2>2, <2>3, <2>4, <2>5 DEF Course, Types
<1>4. CASE ~InRoom
    BY <1>1, <1>4, HostCourse, BoxType DEF OnDisconnected, place, channel, Course, Types, PlaceTypes
<1> QED BY <1>2, <1>3, <1>4

\* A message that is handled, and what it may leave.
LEMMA TakeMailType ==
    ASSUME Course, NEW i, TakeMail(i)
    PROVE  /\ Free /\ i \in 1 .. Len(mail) /\ mail[i] \in Mails
           /\ Without(mail, i) \in Box
           /\ mail[i].from \in Host /\ mail[i].code \in 1 .. MaxCode
<1>1. Free /\ i \in 1 .. Len(mail) /\ mail \in Box
    BY BoxType DEF TakeMail
<1>2. mail[i] \in Mails
    BY <1>1, ElementOfSeq DEF Box
<1> QED BY <1>1, <1>2, WithoutType DEF Mails

LEMMA OnPresenceCourse ==
    ASSUME Course, NEW i, OnPresence(i)
    PROVE  Course'
<1>1. mail' \in Box /\ link' = link
    BY TakeMailType DEF OnPresence, Handled
<1>2. host' \in Seen
    BY OverheardType DEF OnPresence, NoteHostAlive, Seen, Course, Types, PlaceTypes
<1>3. WorldTypes' /\ events' \in Seq({"up", "down"})
    BY DEF OnPresence, world, counts, Course, Types, WorldTypes, EngineTypes
<1> QED BY <1>1, <1>2, <1>3, HostCourse DEF OnPresence

LEMMA OnAnnounceCourse ==
    ASSUME Course, NEW i, OnAnnounce(i)
    PROVE  Course'
<1>1. /\ Free /\ Without(mail, i) \in Box /\ WorldTypes' /\ events' \in Seq({"up", "down"})
      /\ UNCHANGED <<order, returning, events>>
    BY TakeMailType DEF OnAnnounce, world, counts, Course, Types, WorldTypes, EngineTypes
<1>2. CASE conn = "overdue"
    BY <1>1, <1>2, LeaveCourse DEF OnAnnounce, InRoom
<1>3. CASE conn # "overdue"
    <2>1. mail' \in Box /\ link' = link /\ host' \in Seen
        BY <1>1, <1>3 DEF OnAnnounce, Handled, NoteHostAlive, Seen, Course, Types, PlaceTypes
    <2> QED BY <1>1, <1>3, <2>1, HostCourse DEF OnAnnounce
<1> QED BY <1>2, <1>3

LEMMA OnNoticeCourse ==
    ASSUME Course, NEW i, OnNotice(i)
    PROVE  Course'
<1>1. /\ Free /\ InRoom /\ Without(mail, i) \in Box /\ WorldTypes' /\ events' \in Seq({"up", "down"})
      /\ UNCHANGED <<order, returning, events>>
    BY TakeMailType DEF OnNotice, world, counts, Course, Types, WorldTypes, EngineTypes
<1>2. PICK auto \in BOOLEAN : LeaveLocked(auto, "idle", Without(mail, i))
    BY DEF OnNotice
<1> QED BY <1>1, <1>2, LeaveCourse

LEMMA OnStaleCourse ==
    ASSUME Course, NEW i, OnStale(i)
    PROVE  Course'
<1>1. mail' \in Box /\ link' = link
    BY TakeMailType DEF OnStale, Handled
<1> USE DEF order, returning, engine, world, counts, OnStale, NoteHostAlive
<1>2. OrderTypes' /\ PlaceTypes'
    BY <1>1 DEF Course, Types, OrderTypes, PlaceTypes, Seen, Creds
<1>3. ReturnTypes' /\ EngineTypes'
    BY <1>1 DEF Course, Types, ReturnTypes, EngineTypes
<1>4. WorldTypes'
    BY <1>1 DEF Course, Types, WorldTypes
<1>5. AtRest' /\ GoingBack' /\ GoingIn' /\ NothingBefore' /\ ReturnTurns'
    BY <1>1 DEF Course, AtRest, GoingBack, GoingIn, NothingBefore, ReturnTurns, Free, InRoom
<1> QED BY <1>2, <1>3, <1>4, <1>5 DEF Course, Types

LEMMA OnCodeRotatedCourse ==
    ASSUME Course, NEW i, OnCodeRotated(i)
    PROVE  Course'
<1>1. mail' \in Box /\ link' = link
    BY TakeMailType DEF OnCodeRotated, Handled
<1>2. room' \in Rooms /\ room' # None
    BY TakeMailType, RoomsType DEF OnCodeRotated
<1>3. last' = last \/ last' \in Saved
    BY <1>2, SavedType DEF OnCodeRotated
<1>4. Free /\ InRoom /\ room # None
    BY TakeMailType DEF OnCodeRotated, Course, AtRest
<1>5. OrderTypes' /\ PlaceTypes'
    BY <1>2 DEF OnCodeRotated, NoteHostAlive, order, rejoins, Seen, RoomsN,
                Course, Types, OrderTypes, PlaceTypes
<1>6. ReturnTypes' /\ EngineTypes'
    <2>1. UNCHANGED <<returning, engine, events>>
        BY DEF OnCodeRotated
    <2>2. ReturnTypes'
        BY <1>3, <2>1 DEF returning, Course, Types, ReturnTypes
    <2> QED BY <1>1, <2>1, <2>2 DEF engine, Course, Types, EngineTypes
<1>7. WorldTypes'
    BY DEF OnCodeRotated, world, counts, Course, Types, WorldTypes
<1>8. AtRest' /\ GoingBack' /\ GoingIn' /\ NothingBefore' /\ ReturnTurns'
    BY <1>1, <1>2, <1>4
       DEF OnCodeRotated, order, returning, engine, Course, AtRest, GoingBack, GoingIn,
           NothingBefore, ReturnTurns, Free, InRoom
<1> QED BY <1>5, <1>6, <1>7, <1>8 DEF Course, Types

LEMMA IgnoreMailCourse ==
    ASSUME Course, NEW i, IgnoreMail(i)
    PROVE  Course'
<1>1. mail' \in Box /\ link' = link /\ host' \in Seen
    BY TakeMailType DEF IgnoreMail, Handled, place, Course, Types, PlaceTypes
<1>2. WorldTypes' /\ events' \in Seq({"up", "down"})
    BY DEF IgnoreMail, world, counts, Course, Types, WorldTypes, EngineTypes
<1> QED BY <1>1, <1>2, HostCourse DEF IgnoreMail, place


\* A clock of the session passes.
LEMMA HostLaterCourse ==
    ASSUME Course, HostLater
    PROVE  Course'
<1>1. host' \in Seen
    BY DEF HostLater, Seen
<1>2. WorldTypes' /\ mail' \in Box /\ events' \in Seq({"up", "down"})
    BY DEF HostLater, world, counts, channel, Course, Types, WorldTypes, EngineTypes
<1> QED BY <1>1, <1>2, HostCourse DEF HostLater, channel

LEMMA ClockCourse ==
    ASSUME Course, TunnelLater \/ RejoinWaited \/ RejoinCalm \/ ReturnWaited
    PROVE  Course'
<1>1. /\ UNCHANGED <<order, room, host, held, dead, streak, last, ret, retGoal, retCut, result,
                     engine, events, channel, world, want, counts>>
    BY DEF TunnelLater, RejoinWaited, RejoinCalm, ReturnWaited, place, rejoins, returning
<1>a. conn' = conn \/ (conn = "reconnecting" /\ conn' = "overdue")
    BY DEF TunnelLater, RejoinWaited, RejoinCalm, ReturnWaited, place
<1>2. waiting' \in BOOLEAN /\ calm' \in BOOLEAN /\ retWait' \in BOOLEAN
    <2>1. waiting \in BOOLEAN /\ calm \in BOOLEAN /\ retWait \in BOOLEAN
        BY Zenon DEF Course, Types, PlaceTypes, ReturnTypes
    <2>2. CASE TunnelLater
        BY <2>1, <2>2, Zenon DEF TunnelLater, rejoins, returning
    <2>3. CASE RejoinWaited
        BY <2>1, <2>3, Zenon DEF RejoinWaited, returning
    <2>4. CASE RejoinCalm
        BY <2>1, <2>4, Zenon DEF RejoinCalm, returning
    <2>5. CASE ReturnWaited
        BY <2>1, <2>5, Zenon DEF ReturnWaited, rejoins
    <2> QED BY <2>2, <2>3, <2>4, <2>5
<1>3. OrderTypes'
    BY <1>1 DEF order, Course, Types, OrderTypes
<1>4. PlaceTypes'
    BY <1>1, <1>a, <1>2 DEF Conns, Course, Types, PlaceTypes
<1>5. ReturnTypes' /\ EngineTypes'
    BY <1>1, <1>2 DEF engine, channel, Course, Types, ReturnTypes, EngineTypes
<1>6. WorldTypes'
    BY <1>1 DEF world, counts, Course, Types, WorldTypes
<1>7. AtRest' /\ GoingBack' /\ GoingIn' /\ NothingBefore' /\ ReturnTurns'
    BY <1>1, <1>a DEF order, engine, channel,
           Course, AtRest, GoingBack, GoingIn, NothingBefore, ReturnTurns, Free, InRoom
<1> QED BY <1>3, <1>4, <1>5, <1>6, <1>7 DEF Course, Types

\* What the world does reaches the session through its credentials, its engine's
\* events and its channel only.
LEMMA OutsideCourse ==
    ASSUME Course, WorldTypes', EngineTypes',
           UNCHANGED <<at, by, goal, cut, conn, room, host, dead, rejoins, last, returning, lobby>>,
           held' \in Creds, gained' \in Creds, gained = "none" => gained' = "none",
           room = None => net' = None /\ carries' = FALSE /\ gate' = "none" /\ link' = "none"
    PROVE  Course'
<1> USE DEF rejoins, returning
<1>1. OrderTypes' /\ PlaceTypes'
    BY DEF Course, Types, OrderTypes, PlaceTypes
<1>2. ReturnTypes'
    BY DEF Course, Types, ReturnTypes
<1>3. AtRest' /\ GoingBack' /\ GoingIn' /\ NothingBefore' /\ ReturnTurns'
    BY DEF Course, AtRest, GoingBack, GoingIn, NothingBefore, ReturnTurns, Free, InRoom
<1> QED BY <1>1, <1>2, <1>3 DEF Course, Types

LEMMA DistrustedType ==
    ASSUME Course, NEW h, Distrusted(h)
    PROVE  held' \in Creds /\ gained' \in Creds /\ (gained = "none" => gained' = "none")
BY DEF Distrusted, Creds, Course, Types, OrderTypes, PlaceTypes

LEMMA HostsCourse ==
    ASSUME Course, NEW h \in Host,
           \/ HostFalls(h) \/ HostRises(h) \/ HostForgets(h) \/ HostKicks(h)
           \/ HostCloses(h) \/ HostRotates(h) \/ HostTellsStale(h) \/ HostAnnounces(h)
    PROVE  Course'
<1> DEFINE Hosts == \/ HostFalls(h) \/ HostRises(h) \/ HostForgets(h) \/ HostKicks(h)
                    \/ HostCloses(h) \/ HostRotates(h) \/ HostTellsStale(h) \/ HostAnnounces(h)
<1>1. /\ UNCHANGED <<at, by, goal, cut, conn, room, host, dead, rejoins, last, returning, want,
                     orders, engine, events, link>>
      /\ held' \in Creds /\ gained' \in Creds /\ (gained = "none" => gained' = "none")
    <2>1. CASE HostFalls(h) \/ HostRises(h) \/ HostRotates(h) \/ HostTellsStale(h) \/ HostAnnounces(h)
        BY <2>1 DEF HostFalls, HostRises, HostRotates, HostTellsStale, HostAnnounces, guest, order,
                    place, channel, Course, Types, OrderTypes, PlaceTypes
    <2>2. CASE HostForgets(h) \/ HostKicks(h) \/ HostCloses(h)
        BY <2>2, DistrustedType DEF HostForgets, HostKicks, HostCloses, channel
    <2> QED BY <2>1, <2>2
<1>2. upsets' \in 0 .. MaxUpset
    BY BoundAssumption DEF HostFalls, HostRises, HostForgets, HostKicks, HostCloses, HostRotates,
       HostTellsStale, HostAnnounces, Upset, Course, Types, WorldTypes
<1>3. up' \subseteq Host /\ open' \subseteq Host
    BY DEF HostFalls, HostRises, HostForgets, HostKicks, HostCloses, HostRotates,
       HostTellsStale, HostAnnounces, world, Course, Types, WorldTypes
<1>4. code' \in [Host -> 1 .. MaxCode]
    BY BoundAssumption DEF HostFalls, HostRises, HostForgets, HostKicks, HostCloses, HostRotates,
       HostTellsStale, HostAnnounces, world, Course, Types, WorldTypes
<1>5. WorldTypes'
    BY <1>1, <1>2, <1>3, <1>4 DEF Course, Types, WorldTypes
<1>6. mail' \in Box
    <2>1. "kicked" \in Kinds /\ "closed" \in Kinds /\ "stale" \in Kinds /\ "announce" \in Kinds
        BY DEF Kinds
    <2>2. \A k \in Kinds : Sent(mail, h, k) \in Box
        BY BoxType, SentType
    <2>3. CASE HostRotates(h)
        BY <2>3, BoxType, RotationType DEF HostRotates
    <2>4. CASE ~HostRotates(h)
        BY <2>1, <2>2, <2>4, BoxType DEF HostFalls, HostRises, HostForgets, HostKicks, HostCloses,
           HostTellsStale, HostAnnounces, channel
    <2> QED BY <2>3, <2>4
<1>7. EngineTypes'
    BY <1>1, <1>6 DEF engine, Course, Types, EngineTypes
<1>8. room = None => net' = None /\ carries' = FALSE /\ gate' = "none" /\ link' = "none"
    BY <1>1 DEF engine, Course, Types, EngineTypes, NothingBefore
<1>9. UNCHANGED lobby
    BY <1>1 DEF engine
<1> QED BY <1>1, <1>5, <1>7, <1>8, <1>9, OutsideCourse

LEMMA GuestUnchanged ==
    ASSUME Course, UNCHANGED guest
    PROVE  /\ UNCHANGED <<at, by, goal, cut, conn, room, host, dead, rejoins, last, returning, want,
                          orders, held, gained>>
           /\ held' \in Creds /\ gained' \in Creds /\ (gained = "none" => gained' = "none")
BY DEF guest, order, place, Course, Types, OrderTypes, PlaceTypes

LEMMA LinkCourse ==
    ASSUME Course, Link
    PROVE  Course'
<1>1. UNCHANGED guest /\ UNCHANGED <<engine, events, world, upsets>> /\ link # "none"
    BY DEF Link, LinkLost, LinkBack
<1>2. room # None /\ room \in Rooms /\ room.host \in Host
    BY <1>1, RoomsType DEF Course, NothingBefore, Types, PlaceTypes, RoomsN
<1>3. mail' \in Box /\ link' \in {"up", "lost"}
    <2>1. CASE LinkLost
        <3>1. "absent" \in Kinds
            BY DEF Kinds
        <3> QED BY <1>2, <2>1, <3>1, BoxType, SentType DEF LinkLost
    <2>2. CASE LinkBack
        BY <1>2, <2>2, OpenedType DEF LinkBack
    <2> QED BY <2>1, <2>2 DEF Link
<1>4. EngineTypes' /\ UNCHANGED lobby
    BY <1>1, <1>3 DEF engine, Course, Types, EngineTypes
<1>5. WorldTypes'
    BY <1>1 DEF guest, world, Course, Types, WorldTypes
<1> QED BY <1>1, <1>2, <1>4, <1>5, GuestUnchanged, OutsideCourse

LEMMA TunnelCourse ==
    ASSUME Course, TunnelFalls \/ TunnelRises
    PROVE  Course'
<1>1. UNCHANGED guest /\ UNCHANGED <<net, lobby, gate, channel, world>>
    BY DEF TunnelFalls, TunnelRises
<1>2. events' \in Seq({"up", "down"}) /\ carries' \in BOOLEAN
    BY EmittedType DEF TunnelFalls, TunnelRises, Course, Types, EngineTypes
<1>3. EngineTypes'
    BY <1>1, <1>2 DEF channel, Course, Types, EngineTypes
<1>4. WorldTypes'
    BY <1>1, BoundAssumption DEF guest, world, TunnelFalls, TunnelRises, Upset, Course, Types, WorldTypes
<1>5. room # None
    BY DEF TunnelFalls, TunnelRises, Course, NothingBefore
<1> QED BY <1>1, <1>3, <1>4, <1>5, GuestUnchanged, OutsideCourse

LEMMA RestartCourse ==
    ASSUME Course, Restart
    PROVE  Course'
<1> USE DEF Restart
<1>1. <<>> \in Box /\ <<>> \in Seq({"up", "down"})
    BY EmptySeq, BoundAssumption DEF Box
<1>2. mail' = <<>> /\ events' = <<>>
    BY DEF Teardown
<1>3. OrderTypes'
    BY DEF OrderTypes, RoomsN, Creds
<1>4. PlaceTypes'
    <2>1. dead' \in BOOLEAN /\ calm' \in BOOLEAN /\ waiting' \in BOOLEAN
        BY Zenon
    <2>2. streak' \in 0 .. MaxStreak
        BY StreakAssumption
    <2> QED BY <2>1, <2>2 DEF ClearRoom, PlaceTypes, RoomsN, Creds, Seen, Conns
<1>5. ReturnTypes'
    BY DEF Course, Types, ReturnTypes, RoomsN
<1>6. EngineTypes'
    BY <1>1, <1>2 DEF Teardown, EngineTypes
<1>7. WorldTypes'
    BY BoundAssumption DEF Upset, world, Course, Types, WorldTypes
<1>8. AtRest' /\ GoingBack' /\ GoingIn' /\ NothingBefore' /\ ReturnTurns'
    BY DEF ClearRoom, Teardown, AtRest, GoingBack, GoingIn, NothingBefore, ReturnTurns, Free, InRoom
<1> QED BY <1>3, <1>4, <1>5, <1>6, <1>7, <1>8 DEF Course, Types

LEMMA InitCourse == Init => Course
<1> SUFFICES ASSUME Init PROVE Course
    OBVIOUS
<1> USE DEF Init
<1>1. <<>> \in Box /\ <<>> \in Seq({"up", "down"})
    BY EmptySeq, BoundAssumption DEF Box
<1>2. last = None \/ last \in Saved
    <2> SUFFICES ASSUME NEW h \in Host, last = [room |-> [host |-> h, code |-> 1], auto |-> TRUE]
                 PROVE  last \in Saved
        BY Zenon
    <2>1. 1 \in 1 .. MaxCode
        BY BoundAssumption
    <2>2. [host |-> h, code |-> 1] \in Rooms
        BY <2>1, RoomsType
    <2> QED BY <2>2, SavedType
<1>3. OrderTypes
    BY DEF OrderTypes, RoomsN, Creds
<1>4. PlaceTypes
    <2>1. dead \in BOOLEAN /\ calm \in BOOLEAN /\ waiting \in BOOLEAN
        BY Zenon
    <2>2. streak \in 0 .. MaxStreak
        BY StreakAssumption
    <2> QED BY <2>1, <2>2 DEF PlaceTypes, RoomsN, Creds, Seen, Conns
<1>5. ReturnTypes
    BY <1>2 DEF ReturnTypes, RoomsN
<1>6. EngineTypes
    BY <1>1 DEF EngineTypes
<1>7. WorldTypes
    <2>1. want \in Host \cup {None}
        OBVIOUS
    <2> QED BY <2>1, BoundAssumption DEF WorldTypes
<1>8. AtRest /\ GoingBack /\ GoingIn /\ NothingBefore /\ ReturnTurns
    BY DEF AtRest, GoingBack, GoingIn, NothingBefore, ReturnTurns, Free, InRoom
<1> QED BY <1>3, <1>4, <1>5, <1>6, <1>7, <1>8 DEF Course, Types

LEMMA StutterCourse ==
    ASSUME Course, UNCHANGED vars
    PROVE  Course'
<1> USE DEF vars, order, place, rejoins, returning, engine, channel, world, counts
<1>1. OrderTypes' /\ PlaceTypes'
    BY DEF Course, Types, OrderTypes, PlaceTypes
<1>2. ReturnTypes' /\ EngineTypes'
    BY DEF Course, Types, ReturnTypes, EngineTypes
<1>3. WorldTypes'
    BY DEF Course, Types, WorldTypes
<1>4. AtRest' /\ GoingBack' /\ GoingIn' /\ NothingBefore' /\ ReturnTurns'
    BY DEF Course, AtRest, GoingBack, GoingIn, NothingBefore, ReturnTurns, Free, InRoom
<1> QED BY <1>1, <1>2, <1>3, <1>4 DEF Course, Types

\* Course is inductive: one lemma per action.
LEMMA NextCourse == Course /\ [Next]_vars => Course'
<1> SUFFICES ASSUME Course, [Next]_vars PROVE Course'
    OBVIOUS
<1>1. CASE Order
    BY <1>1, JoinRoomCourse, LeaveRoomCourse, ForgetCourse, CancelCourse DEF Order
<1>2. CASE Step
    BY <1>2, LookupCourse, EnterLobbyCourse, AskCourse, EnterRoomCourse, SettleCourse,
       SettleFailsCourse, DialFailsCourse, ReattachCourse DEF Step
<1>3. CASE Handler
    BY <1>3, BeatCourse, OnPeersChangedCourse, OnConnectedCourse, OnDisconnectedCourse,
       OnPresenceCourse, OnAnnounceCourse, OnNoticeCourse, OnStaleCourse, OnCodeRotatedCourse,
       IgnoreMailCourse
       DEF Handler, OnEvent, OnMail
<1>4. CASE Automatic
    BY <1>4, RejoinCourse, ReturnCourse, ReturnJoinsCourse, ReturnLandsCourse
       DEF Automatic, ReturnTurn
<1>5. CASE Time
    BY <1>5, HostLaterCourse, ClockCourse DEF Time
<1>6. CASE World
    BY <1>6, HostsCourse, LinkCourse, TunnelCourse, RestartCourse DEF World
<1>7. CASE UNCHANGED vars
    BY <1>7, StutterCourse
<1> QED BY <1>1, <1>2, <1>3, <1>4, <1>5, <1>6, <1>7 DEF Next

LEMMA CourseHolds == Spec => []Course
<1>1. QED BY InitCourse, NextCourse, PTL DEF Spec

LEMMA TypesAreTypeOK == Types => TypeOK
<1> SUFFICES ASSUME Types PROVE TypeOK
    OBVIOUS
<1>1. mail \in Seq(Mails) /\ Len(mail) <= MaxMail
    BY DEF Types, EngineTypes, Box
<1> QED BY <1>1, Zenon
        DEF Types, OrderTypes, PlaceTypes, ReturnTypes, EngineTypes, WorldTypes, Saved, TypeOK

\* Every variable of the session always has its type, with every fault.
THEOREM TypeCorrect == Spec => []TypeOK
<1>1. Course => TypeOK
    BY TypesAreTypeOK DEF Course
<1> QED BY <1>1, CourseHolds, PTL

\* Whatever an order was doing when it failed, was cancelled or lost its room,
\* nothing of it is left, with every fault (NothingLeftBehind).
THEOREM NothingIsLeftBehind == Spec => []NothingLeftBehind
<1>1. Course => NothingLeftBehind
    BY DEF Course, AtRest, NothingBefore, NothingLeftBehind, Free, InRoom, Types, EngineTypes
<1> QED BY <1>1, CourseHolds, PTL

(***************************************************************************)
(* The gate follows the tunnel.                                            *)
(***************************************************************************)

\* Only a handler of the tunnel, or the tunnel rising, may leave the gate on an
\* adapter that is not the one that carries.
LEMMA GateStays ==
    ASSUME Course, Next, ~OnEvent, ~TunnelRises
    PROVE  carries' = FALSE \/ gate' = "this" \/ UNCHANGED <<carries, gate, events>>
<1> USE DEF engine
<1>1. CASE Order
    <2>1. ASSUME NEW r \in Rooms, JoinRoom(r) PROVE carries' = FALSE
        <3>1. PICK next \in {"idle", "resolving"} : ClearTheWay(r, next)
            BY <2>1 DEF JoinRoom
        <3> QED BY <2>1, <3>1, ClearTheWayType DEF JoinRoom
    <2>2. CASE LeaveRoom \/ ForgetLastRoom \/ Cancel
        BY <2>2 DEF LeaveRoom, ForgetLastRoom, Cancel, LeaveLocked, Teardown
    <2> QED BY <1>1, <2>1, <2>2 DEF Order
<1>2. CASE Step
    BY <1>2 DEF Step, Lookup, EnterLobby, Ask, EnterRoom, NewNetwork, Settle, SettleFails, DialFails,
                Reattach, Fail, JoinFails, RejoinFails, Teardown
<1>3. CASE Handler
    BY <1>3 DEF Handler, Beat, OnPeersChanged, OnMail, OnPresence, OnAnnounce, OnNotice, OnStale,
                OnCodeRotated, IgnoreMail, LeaveLocked, Teardown
<1>4. CASE Automatic
    BY <1>4 DEF Automatic, ReturnTurn, Rejoin, Return, ReturnJoins, ReturnLands, LeaveLocked, Teardown
<1>5. CASE Time
    BY <1>5 DEF Time, HostLater, TunnelLater, RejoinWaited, RejoinCalm, ReturnWaited
<1>6. CASE World
    BY <1>6 DEF World, HostFalls, HostRises, HostForgets, HostKicks, HostCloses, HostRotates,
                HostTellsStale, HostAnnounces, Link, LinkLost, LinkBack, TunnelFalls, Restart,
                Teardown
<1> QED BY <1>1, <1>2, <1>3, <1>4, <1>5, <1>6 DEF Next

LEMMA RisingStep ==
    ASSUME Course, RisingIsAnnounced, "bind" \notin Fault, [Next]_vars
    PROVE  RisingIsAnnounced'
<1>1. CASE Next /\ ~OnEvent /\ ~TunnelRises
    BY <1>1, GateStays DEF RisingIsAnnounced
<1>2. CASE TunnelRises
    BY <1>2, EmittedType DEF TunnelRises, RisingIsAnnounced, Course, Types, EngineTypes
<1>3. CASE OnConnected
    <2>1. CASE InRoom
        BY <1>3, <2>1 DEF OnConnected, Bound, LeaveLocked, Teardown, RisingIsAnnounced
    <2>2. CASE ~InRoom
        <3>1. ~carries /\ carries' = carries
            BY <1>3, <2>2, TakeEventType DEF OnConnected, engine, Course, AtRest, NothingBefore
        <3> QED BY <3>1 DEF RisingIsAnnounced
    <2> QED BY <2>1, <2>2
<1>4. CASE OnDisconnected
    <2>1. carries' = FALSE \/ UNCHANGED <<carries, gate>>
        BY <1>4 DEF OnDisconnected, LeaveLocked, Teardown, engine
    <2>2. \A i \in 1 .. Len(events) : events[i] # "down" =>
            \E j \in 1 .. Len(events') : events'[j] = events[i]
        BY <1>4, TakeEventType DEF OnDisconnected
    <2> QED BY <2>1, <2>2 DEF RisingIsAnnounced
<1>5. CASE UNCHANGED vars
    BY <1>5 DEF vars, engine, RisingIsAnnounced
<1> QED BY <1>1, <1>2, <1>3, <1>4, <1>5 DEF OnEvent

\* A network that comes up on a new adapter takes the gate with it, where binding
\* the gate does not fail (tunnelUpLocked).
THEOREM GateFollowsTheTunnel ==
    ASSUME "bind" \notin Fault
    PROVE  Spec => []GateFollows
<1>1. Init => RisingIsAnnounced
    BY DEF Init, RisingIsAnnounced
<1>2. RisingIsAnnounced /\ Course /\ Course' /\ [Next]_vars => RisingIsAnnounced'
    BY RisingStep
<1>3. RisingIsAnnounced => GateFollows
    BY DEF RisingIsAnnounced, GateFollows
<1> QED BY <1>1, <1>2, <1>3, CourseHolds, PTL DEF Spec

(***************************************************************************)
(* The channel speaks of the room there is.                                *)
(***************************************************************************)

\* Where nothing that waits crosses into another room, a step leaves the room's
\* messages alone, adds one of its host, or ends with none at all.
LEMMA MailStep ==
    ASSUME Course, MailIsOfTheRoom, "crossed" \notin Fault, [Next]_vars
    PROVE  MailIsOfTheRoom'
<1> USE DEF place, channel
<1>1. ASSUME mail' = <<>> PROVE MailIsOfTheRoom'
    BY <1>1 DEF MailIsOfTheRoom
<1>2. ASSUME mail' = mail, room' = room PROVE MailIsOfTheRoom'
    BY <1>2 DEF MailIsOfTheRoom
<1>3. ASSUME NEW i \in 1 .. Len(mail), mail' = Without(mail, i), room' = room
      PROVE  MailIsOfTheRoom'
    <2>1. \A k \in 1 .. Len(mail') : \E j \in 1 .. Len(mail) : mail'[k] = mail[j]
        BY <1>3, BoxType, WithoutType
    <2>2. room # None
        BY <1>3 DEF MailIsOfTheRoom
    <2> QED BY <1>3, <2>1, <2>2 DEF MailIsOfTheRoom
<1>4. ASSUME NEW k \in Kinds, room # None, mail' = Sent(mail, room.host, k), room' = room
      PROVE  MailIsOfTheRoom'
    <2>1. room.host \in Host
        BY <1>4, RoomsType DEF Course, Types, PlaceTypes, RoomsN
    <2>2. \A i \in 1 .. Len(mail') : mail'[i].from = room.host \/ \E j \in 1 .. Len(mail) : mail'[i] = mail[j]
        BY <1>4, <2>1, BoxType, SentType
    <2> QED BY <1>4, <2>2 DEF MailIsOfTheRoom
<1>k. {"kicked", "closed", "stale", "announce", "present", "absent"} \subseteq Kinds
    BY DEF Kinds
<1>5. CASE Order
    <2>1. ASSUME NEW r \in Rooms, JoinRoom(r) PROVE MailIsOfTheRoom'
        <3>1. PICK next \in {"idle", "resolving"} : ClearTheWay(r, next)
            BY <2>1 DEF JoinRoom
        <3> QED BY <1>1, <1>2, <3>1 DEF ClearTheWay, LeaveLocked, Teardown
    <2>2. CASE LeaveRoom \/ ForgetLastRoom \/ Cancel
        BY <1>1, <1>2, <2>2 DEF LeaveRoom, ForgetLastRoom, Cancel, LeaveLocked, Teardown
    <2> QED BY <1>5, <2>1, <2>2 DEF Order
<1>6. CASE Step
    <2>1. CASE Lookup \/ EnterLobby \/ Ask \/ Reattach \/ DialFails
        BY <1>1, <1>2, <2>1 DEF Lookup, EnterLobby, Ask, Reattach, DialFails, Fail, JoinFails,
                                RejoinFails, Teardown
    <2>2. CASE EnterRoom
        <3>1. room = None \/ room = goal
            BY <2>2 DEF EnterRoom, Free, Course, GoingBack, GoingIn
        <3> QED BY <1>1, <1>2, <2>2, <3>1 DEF EnterRoom, Fail, JoinFails, RejoinFails, Teardown,
                                              MailIsOfTheRoom
    <2>3. CASE Settle \/ SettleFails
        <3>1. room # None
            BY <2>3, OrderGoal DEF Settle, SettleFails, Free, Course, GoingBack, GoingIn
        <3> QED BY <1>1, <1>4, <1>k, <2>3, <3>1 DEF Settle, SettleFails, Opened, JoinFails, Teardown
    <2> QED BY <1>6, <2>1, <2>2, <2>3 DEF Step
<1>7. CASE Handler
    <2>1. CASE Beat \/ OnPeersChanged \/ OnEvent
        BY <1>1, <1>2, <2>1 DEF Beat, OnPeersChanged, OnEvent, OnConnected, OnDisconnected,
                                LeaveLocked, Teardown
    <2>2. ASSUME NEW i \in 1 .. Len(mail), OnMail(i) PROVE MailIsOfTheRoom'
        <3>1. CASE OnCodeRotated(i)
            <4>1. mail[i].from = room.host /\ room # None
                BY <3>1 DEF MailIsOfTheRoom, OnCodeRotated, Course, AtRest, TakeMail
            <4>2. room'.host = room.host /\ mail' = Without(mail, i)
                BY <3>1, <4>1 DEF OnCodeRotated, Handled
            <4>3. \A k \in 1 .. Len(mail') : \E j \in 1 .. Len(mail) : mail'[k] = mail[j]
                BY <4>2, BoxType, WithoutType
            <4>4. room' # None
                BY <3>1, TakeMailType, RoomsType DEF OnCodeRotated
            <4> QED BY <4>2, <4>3, <4>4 DEF MailIsOfTheRoom
        <3>2. CASE OnPresence(i) \/ OnStale(i) \/ IgnoreMail(i)
            BY <1>3, <3>2 DEF OnPresence, OnStale, IgnoreMail, Handled
        <3>3. CASE OnAnnounce(i) \/ OnNotice(i)
            BY <1>1, <1>3, <3>3 DEF OnAnnounce, OnNotice, Handled, LeaveLocked, Teardown
        <3> QED BY <2>2, <3>1, <3>2, <3>3 DEF OnMail
    <2> QED BY <1>7, <2>1, <2>2 DEF Handler
<1>8. CASE Automatic
    BY <1>1, <1>2, <1>8 DEF Automatic, ReturnTurn, Rejoin, Return, ReturnJoins, ReturnLands,
                            LeaveLocked, Teardown
<1>9. CASE Time
    BY <1>2, <1>9 DEF Time, HostLater, TunnelLater, RejoinWaited, RejoinCalm, ReturnWaited
<1>10. CASE World
    <2>1. ASSUME NEW h \in Host, HostKicks(h) \/ HostTellsStale(h) \/ HostAnnounces(h) \/ HostCloses(h)
          PROVE  MailIsOfTheRoom'
        <3>1. Linked(h) => room # None /\ room.host = h
            BY DEF Linked, Course, NothingBefore
        <3>2. room' = room
            BY <2>1 DEF HostKicks, HostTellsStale, HostAnnounces, HostCloses, guest
        <3> QED BY <1>2, <1>4, <1>k, <2>1, <3>1, <3>2 DEF HostKicks, HostTellsStale, HostAnnounces,
                                                          HostCloses
    <2>2. ASSUME NEW h \in Host, HostRotates(h) PROVE MailIsOfTheRoom'
        <3>1. Linked(h) => room # None /\ room.host = h
            BY DEF Linked, Course, NothingBefore
        <3>2. CASE Linked(h) /\ Len(mail) < MaxMail
            <4>1. \A i \in 1 .. Len(mail') :
                    mail'[i].from = h \/ \E j \in 1 .. Len(mail) : mail'[i] = mail[j]
                BY <2>2, <3>2, BoxType, RotationType DEF HostRotates
            <4> QED BY <2>2, <3>1, <3>2, <4>1 DEF HostRotates, guest, MailIsOfTheRoom
        <3>3. CASE ~(Linked(h) /\ Len(mail) < MaxMail)
            BY <1>2, <2>2, <3>3 DEF HostRotates, guest
        <3> QED BY <3>2, <3>3
    <2>3. ASSUME NEW h \in Host, HostFalls(h) \/ HostRises(h) \/ HostForgets(h)
          PROVE  MailIsOfTheRoom'
        BY <1>2, <2>3 DEF HostFalls, HostRises, HostForgets, guest
    <2>4. CASE Link
        <3>1. room # None
            BY <2>4 DEF Link, LinkLost, LinkBack, Course, NothingBefore
        <3> QED BY <1>4, <1>k, <2>4, <3>1 DEF Link, LinkLost, LinkBack, Opened, guest
    <2>5. CASE TunnelFalls \/ TunnelRises \/ Restart
        BY <1>1, <1>2, <2>5 DEF TunnelFalls, TunnelRises, Restart, Teardown, guest
    <2> QED BY <1>10, <2>1, <2>2, <2>3, <2>4, <2>5 DEF World
<1>11. CASE UNCHANGED vars
    BY <1>2, <1>11 DEF vars
<1> QED BY <1>5, <1>6, <1>7, <1>8, <1>9, <1>10, <1>11 DEF Next

LEMMA MailHolds ==
    ASSUME "crossed" \notin Fault
    PROVE  Spec => []MailIsOfTheRoom
<1>1. Init => MailIsOfTheRoom
    BY DEF Init, MailIsOfTheRoom
<1>2. MailIsOfTheRoom /\ Course /\ Course' /\ [Next]_vars => MailIsOfTheRoom'
    BY MailStep
<1> QED BY <1>1, <1>2, CourseHolds, PTL DEF Spec

\* A notice ends no room but the one whose host sent it, where nothing that was
\* waiting when a room was left is handled in the next one (OnRoomNotice).
THEOREM NoticesEndTheirOwnRoom ==
    ASSUME "crossed" \notin Fault
    PROVE  Spec => NoticeEndsItsRoom
<1>1. MailIsOfTheRoom /\ [Next]_vars =>
        [\A i \in 1 .. Len(mail) : OnNotice(i) => mail[i].from = room.host]_vars
    BY DEF MailIsOfTheRoom
<1> QED BY <1>1, MailHolds, PTL DEF Spec, NoticeEndsItsRoom

(***************************************************************************)
(* What is saved to come back to.                                          *)
(***************************************************************************)

LEMMA GoneStep ==
    ASSUME Course, GoneMeansOut, "overtaken" \notin Fault, [Next]_vars
    PROVE  GoneMeansOut'
<1> USE DEF order, place, returning, GoneMeansOut, Free, InRoom
<1>1. CASE Order
    BY <1>1 DEF Order, JoinRoom, LeaveRoom, ForgetLastRoom, Cancel, Turn, ClearTheWay, StopReturning
<1>2. CASE Step
    BY <1>2 DEF Step, Lookup, EnterLobby, Ask, EnterRoom, Settle, SettleFails, DialFails, Reattach,
                Fail, JoinFails, RejoinFails, Released, ClearRoom
<1>3. CASE Handler
    BY <1>3 DEF Handler, Beat, OnPeersChanged, OnEvent, OnConnected, OnDisconnected, TakeEvent,
                OnMail, TakeMail, OnPresence, OnAnnounce, OnNotice, OnStale, OnCodeRotated,
                IgnoreMail, LeaveLocked, ClearRoom
<1>4. CASE Automatic
    BY <1>4 DEF Automatic, ReturnTurn, Rejoin, RejoinDue, Return, ReturnJoins, ReturnLands
<1>5. CASE Time
    BY <1>5 DEF Time, HostLater, TunnelLater, RejoinWaited, RejoinCalm, ReturnWaited
<1>6. CASE World
    BY <1>6 DEF World, HostFalls, HostRises, HostForgets, HostKicks, HostCloses, HostRotates,
                HostTellsStale, HostAnnounces, Link, LinkLost, LinkBack, TunnelFalls, TunnelRises,
                Restart, guest
<1>7. CASE UNCHANGED vars
    BY <1>7 DEF vars
<1> QED BY <1>1, <1>2, <1>3, <1>4, <1>5, <1>6, <1>7 DEF Next

LEMMA GoneHolds ==
    ASSUME "overtaken" \notin Fault
    PROVE  Spec => []GoneMeansOut
<1>1. Init => GoneMeansOut
    BY DEF Init, GoneMeansOut
<1>2. GoneMeansOut /\ Course /\ [Next]_vars => GoneMeansOut'
    BY GoneStep
<1> QED BY <1>1, <1>2, CourseHolds, PTL DEF Spec

LEMMA LastStep ==
    ASSUME Course, GoneMeansOut, LastIsThisRoom, [Next]_vars, ~ForgetLastRoom
    PROVE  LastIsThisRoom'
<1> USE DEF order, place, LastIsThisRoom, Settled, Free, InRoom
<1>1. CASE Order
    <2>1. ASSUME NEW r \in Rooms, JoinRoom(r) PROVE LastIsThisRoom'
        BY <2>1 DEF JoinRoom, ClearTheWay, LeaveLocked, ClearRoom
    <2>2. CASE LeaveRoom
        BY <2>2 DEF LeaveRoom, LeaveLocked, ClearRoom, Return_
    <2>3. CASE Cancel
        BY <2>3 DEF Cancel
    <2> QED BY <1>1, <2>1, <2>2, <2>3 DEF Order
<1>2. CASE Step
    <2>1. CASE Lookup \/ EnterLobby \/ Ask \/ DialFails \/ Reattach
        BY <2>1 DEF Lookup, EnterLobby, Ask, DialFails, Reattach, Fail, JoinFails, RejoinFails,
                    Released, ClearRoom, Course, GoingBack, GoingIn
    <2>2. CASE EnterRoom
        BY <2>2 DEF EnterRoom, Fail, JoinFails, RejoinFails, Released, ClearRoom, Course, GoingBack
    <2>3. CASE Settle \/ SettleFails
        BY <2>3 DEF Settle, SettleFails, JoinFails, Released, ClearRoom, Course, GoingBack
    <2> QED BY <1>2, <2>1, <2>2, <2>3 DEF Step
<1>3. CASE Handler
    BY <1>3 DEF Handler, Beat, OnPeersChanged, OnEvent, OnConnected, OnDisconnected, TakeEvent,
                OnMail, TakeMail, OnPresence, OnAnnounce, OnNotice, OnStale, OnCodeRotated,
                IgnoreMail, LeaveLocked, ClearRoom
<1>4. CASE Automatic
    BY <1>4 DEF Automatic, ReturnTurn, Rejoin, RejoinDue, Return, ReturnJoins, ReturnLands,
                LeaveLocked, ClearRoom, GoneMeansOut, GivesWay, Course, AtRest
<1>5. CASE Time
    BY <1>5 DEF Time, HostLater, TunnelLater, RejoinWaited, RejoinCalm, ReturnWaited
<1>6. CASE World
    BY <1>6 DEF World, HostFalls, HostRises, HostForgets, HostKicks, HostCloses, HostRotates,
                HostTellsStale, HostAnnounces, Link, LinkLost, LinkBack, TunnelFalls, TunnelRises,
                Restart, ClearRoom, guest
<1>7. CASE UNCHANGED vars
    BY <1>7 DEF vars
<1> QED BY <1>1, <1>2, <1>3, <1>4, <1>5, <1>6, <1>7 DEF Next

\* The room a guest is in is the one saved to come back to; only the user's word
\* forgets it, where no order gets in between a return and what is made of it
\* (finishJoinLocked, leaveLocked, ForgetLastRoom).
THEOREM TheRoomIsTheOneSaved ==
    ASSUME "overtaken" \notin Fault
    PROVE  Spec => LastKept
<1>1. GoneMeansOut /\ Course /\ [Next]_vars =>
        [LastIsThisRoom => LastIsThisRoom' \/ ForgetLastRoom]_vars
    BY LastStep
<1> QED BY <1>1, GoneHolds, CourseHolds, PTL DEF Spec, LastKept

(***************************************************************************)
(* Where the user wants to be.                                             *)
(***************************************************************************)

LEMMA WantedOrder ==
    ASSUME Course, Wanted, "overtaken" \notin Fault, Order
    PROVE  Wanted'
<1> USE DEF Free, InRoom
<1>1. ASSUME NEW r \in Rooms, JoinRoom(r) PROVE Wanted'
    <2>1. /\ Free /\ want' = r.host /\ by = "user"
          /\ ret = "off" \/ (ret = "launched" /\ (retCut \/ (Return_ /\ last.room # r)))
        BY <1>1 DEF JoinRoom, Turn, Course, AtRest
    <2>2. /\ ret' = ret /\ ~Settled'
          /\ by' = "user" /\ (~Free' => goal' = r)
        BY <1>1, <2>1 DEF JoinRoom, ClearTheWay, LeaveLocked, ClearRoom, StopReturning, order,
                          returning, Settled
    <2>3. /\ AutoReturn' => last'.room.host = want'
          /\ ret' = "launched" => retCut'
        <3>1. PICK next \in {"idle", "resolving"} : ClearTheWay(r, next)
            BY <1>1 DEF JoinRoom
        <3>2. CASE InRoom /\ LeaveLocked(FALSE, next, mail) /\ UNCHANGED <<events, returning>>
            <4>1. last'.auto = FALSE
                BY <2>1, <3>2, LeaveType, BoxType
            <4> QED BY <2>1, <3>2, <4>1 DEF AutoReturn, Return_, returning
        <3>3. CASE Return_ /\ last.room # r /\ StopReturning
            BY <2>1, <3>3, StopReturningType DEF AutoReturn, Return_, Course, Types, ReturnTypes
        <3>4. CASE ~InRoom /\ ~(Return_ /\ last.room # r) /\ UNCHANGED <<last, returning>>
            BY <2>1, <3>4 DEF AutoReturn, Return_, returning
        <3> QED BY <3>1, <3>2, <3>3, <3>4 DEF ClearTheWay
    <2> QED BY <2>1, <2>2, <2>3 DEF Wanted
<1>2. CASE LeaveRoom
    <2>1. /\ Free
          /\ ret = "off" \/ (ret = "launched" /\ (retCut \/ Return_))
          /\ UNCHANGED <<order, ret>> /\ conn' = "idle"
        BY <1>2 DEF LeaveRoom, Turn, LeaveLocked, ClearRoom, StopReturning, Return_, place, returning
    <2>2. last'.auto = FALSE /\ (ret' = "launched" => retCut')
        <3>1. CASE InRoom /\ LeaveLocked(FALSE, "idle", mail) /\ UNCHANGED <<events, returning>>
            <4>1. last'.auto = FALSE
                BY <2>1, <3>1, LeaveType, BoxType
            <4> QED BY <2>1, <3>1, <4>1 DEF Return_, returning
        <3>2. CASE /\ Return_ /\ StopReturning
                   /\ UNCHANGED <<place, rejoins, engine, events, channel>>
            BY <2>1, <3>2, StopReturningType DEF Return_
        <3> QED BY <1>2, <3>1, <3>2 DEF LeaveRoom
    <2> QED BY <2>1, <2>2 DEF order, Wanted, AutoReturn, Settled
<1>3. CASE ForgetLastRoom
    BY <1>3 DEF ForgetLastRoom, Turn, Wanted, AutoReturn, Settled, order, place, Course, AtRest
<1>4. CASE Cancel
    BY <1>4 DEF Cancel, Wanted, AutoReturn, Settled, place, returning
<1> QED BY <1>1, <1>2, <1>3, <1>4 DEF Order

LEMMA WantedStep ==
    ASSUME Course, Wanted, Step
    PROVE  Wanted'
<1> USE DEF Free, InRoom, Settled, Wanted, AutoReturn
<1>1. ASSUME JoinFails("failed") \/ JoinFails("gone"), ~Free PROVE Wanted'
    BY <1>1 DEF JoinFails, Released, ClearRoom
<1>2. ASSUME RejoinFails, ~Free PROVE Wanted'
    BY <1>2 DEF RejoinFails, Released, place, returning, Course, GoingBack
<1>3. CASE Lookup \/ EnterLobby \/ Ask \/ DialFails \/ Reattach
    BY <1>1, <1>2, <1>3 DEF Lookup, EnterLobby, Ask, DialFails, Reattach, Fail, place, returning,
       Course, GoingBack
<1>4. CASE EnterRoom
    BY <1>1, <1>2, <1>4 DEF EnterRoom, Fail, place, returning, Course, GoingBack
<1>5. CASE Settle
    <2>1. ~Free /\ ~cut /\ room = goal /\ UNCHANGED <<room, want, retCut, retGoal>> /\ Free'
        BY <1>5 DEF Settle, Released, Course, GoingBack, GoingIn
    <2>2. room.host = want
        BY <2>1 DEF Course, GoingBack, Types, OrderTypes
    <2>3. /\ last' = last \/ last' = [room |-> room, auto |-> TRUE]
          /\ ret' = ret \/ ret' = "landed"
        BY <1>5 DEF Settle
    <2>4. by' = "user"
        BY <1>5 DEF Settle, Released
    <2> QED BY <2>1, <2>2, <2>3, <2>4
<1>6. CASE SettleFails
    BY <1>1, <1>6 DEF SettleFails, Released, returning, Course, GoingBack
<1> QED BY <1>3, <1>4, <1>5, <1>6 DEF Step

\* Leaving with nothing else changed, to come back or not.
LEMMA WantedLeave ==
    ASSUME Course, Wanted, Free, InRoom, NEW auto \in BOOLEAN, NEW unhandled \in Box,
           LeaveLocked(auto, "idle", unhandled), UNCHANGED <<order, returning>>,
           want' = want \/ auto = FALSE
    PROVE  Wanted'
<1>1. /\ last'.room = room /\ last'.auto = auto /\ conn' = "idle"
    BY LeaveType
<1>2. room.host = want
    BY DEF Wanted, Settled
<1>3. ret = "launched" => retCut
    BY DEF Wanted
<1> QED BY <1>1, <1>2, <1>3 DEF order, returning, Wanted, Free, InRoom, Settled, AutoReturn

\* What keeps the room, or keeps out of one, and decides nothing.
LEMMA WantedKept ==
    ASSUME Course, Wanted, UNCHANGED <<at, by, goal, cut, last, ret, retGoal, retCut, want>>,
           InRoom' <=> InRoom, room' = room
    PROVE  Wanted'
BY DEF Wanted, Free, InRoom, Settled, AutoReturn

LEMMA WantedHandler ==
    ASSUME Course, Wanted, MailIsOfTheRoom, Handler
    PROVE  Wanted'
<1> USE DEF InRoom
<1>1. CASE Beat \/ OnPeersChanged
    <2>1. CASE Expired
        BY <1>1, <2>1, WantedLeave, BoxType DEF Beat, OnPeersChanged
    <2>2. CASE ~Expired
        BY <1>1, <2>2, WantedKept DEF Beat, OnPeersChanged, order, returning
    <2> QED BY <2>1, <2>2
<1>2. CASE OnConnected \/ OnDisconnected
    <2>1. CASE InRoom /\ Expired
        BY <1>2, <2>1, WantedLeave, BoxType DEF OnConnected, OnDisconnected, TakeEvent
    <2>2. CASE ~(InRoom /\ Expired)
        BY <1>2, <2>2, WantedKept DEF OnConnected, OnDisconnected, order, place, returning
    <2> QED BY <2>1, <2>2
<1>3. ASSUME NEW i \in 1 .. Len(mail), OnMail(i) PROVE Wanted'
    <2>1. CASE OnPresence(i) \/ OnStale(i) \/ IgnoreMail(i)
        BY <2>1, WantedKept DEF OnPresence, OnStale, IgnoreMail, order, place, returning
    <2>2. CASE OnAnnounce(i)
        <3>1. CASE conn = "overdue"
            BY <2>2, <3>1, WantedLeave, TakeMailType DEF OnAnnounce
        <3>2. CASE conn # "overdue"
            BY <2>2, <3>2, WantedKept DEF OnAnnounce, order, returning
        <3> QED BY <3>1, <3>2
    <2>3. CASE OnNotice(i)
        <3>1. PICK auto \in BOOLEAN : /\ LeaveLocked(auto, "idle", Without(mail, i))
                                      /\ want' = want \/ auto = FALSE
            <4>1. CASE mail[i].kind = "kicked"
                BY <2>3, <4>1 DEF OnNotice
            <4>2. CASE mail[i].kind = "closed"
                BY <2>3, <4>2 DEF OnNotice
            <4> QED BY <2>3, <4>1, <4>2 DEF OnNotice
        <3> QED BY <2>3, <3>1, WantedLeave, TakeMailType DEF OnNotice
    <2>4. CASE OnCodeRotated(i)
        <3>1. Free /\ InRoom /\ room'.host = room.host /\ UNCHANGED <<order, conn, returning, want>>
            BY <2>4 DEF OnCodeRotated, TakeMail, MailIsOfTheRoom
        <3>2. room.host = want
            BY <3>1 DEF Wanted, Settled
        <3>3. last' = last \/ last' = [room |-> room', auto |-> TRUE]
            BY <2>4 DEF OnCodeRotated
        <3> QED BY <3>1, <3>2, <3>3 DEF order, returning, Wanted, Free, Settled, AutoReturn
    <2> QED BY <1>3, <2>1, <2>2, <2>3, <2>4 DEF OnMail
<1> QED BY <1>1, <1>2, <1>3 DEF Handler, OnEvent

LEMMA WantedAutomatic ==
    ASSUME Course, Wanted, Automatic
    PROVE  Wanted'
<1> USE DEF Free, InRoom
<1>1. CASE Rejoin
    <2>1. CASE LeaveLocked(TRUE, "idle", mail) /\ UNCHANGED order
        BY <1>1, <2>1, WantedLeave, BoxType DEF Rejoin, RejoinDue
    <2>2. CASE /\ by' = "rejoin" /\ UNCHANGED <<place, last>>
        BY <1>1, <2>2 DEF Rejoin, RejoinDue, place, returning, Wanted, Settled, AutoReturn
    <2> QED BY <1>1, <2>1, <2>2 DEF Rejoin
<1>2. CASE Return
    BY <1>2 DEF Return, Return_, order, place, Wanted, Settled, AutoReturn
<1>3. CASE ReturnJoins
    BY <1>3 DEF ReturnJoins, GivesWay, order, Wanted, Settled, AutoReturn, Course, AtRest
<1>4. CASE ReturnLands
    BY <1>4 DEF ReturnLands, order, place, Wanted, Settled, AutoReturn
<1> QED BY <1>1, <1>2, <1>3, <1>4 DEF Automatic, ReturnTurn

LEMMA WantedWorld ==
    ASSUME Course, Wanted, Time \/ World \/ UNCHANGED vars
    PROVE  Wanted'
<1> USE DEF order, place, returning, guest, InRoom
<1>1. CASE Time
    BY <1>1, WantedKept DEF Time, HostLater, TunnelLater, RejoinWaited, RejoinCalm,
                            ReturnWaited
<1>2. CASE World
    <2>1. CASE Restart
        BY <2>1 DEF Restart, ClearRoom, Wanted, Free, Settled, AutoReturn
    <2>2. CASE ~Restart
        BY <1>2, <2>2, WantedKept DEF World, HostFalls, HostRises, HostForgets, HostKicks, HostCloses,
           HostRotates, HostTellsStale, HostAnnounces, Link, LinkLost, LinkBack, TunnelFalls,
           TunnelRises
    <2> QED BY <2>1, <2>2
<1>3. CASE UNCHANGED vars
    BY <1>3, WantedKept DEF vars
<1> QED BY <1>1, <1>2, <1>3

\* A guest is only ever in a room of the host its user last chose and has not
\* since left, forgotten or been thrown out of, where Return's open lock is not
\* used and no message crosses (JoinRoom, LeaveRoom, Rejoin, Return).
THEOREM GuestIsWhereItsUserWants ==
    ASSUME "overtaken" \notin Fault, "crossed" \notin Fault
    PROVE  Spec => []InWantedRoom
<1>1. Init => Wanted
    <2> SUFFICES ASSUME Init PROVE Wanted
        OBVIOUS
    <2>1. AutoReturn => last.room.host = want
        BY DEF Init, AutoReturn
    <2> QED BY <2>1 DEF Init, Wanted, Free, InRoom, Settled
<1>2. Wanted /\ Course /\ MailIsOfTheRoom /\ [Next]_vars => Wanted'
    BY WantedOrder, WantedStep, WantedHandler, WantedAutomatic, WantedWorld DEF Next
<1>3. Wanted => InWantedRoom
    BY DEF Wanted, Settled, InWantedRoom
<1> QED BY <1>1, <1>2, <1>3, CourseHolds, MailHolds, PTL DEF Spec
=============================================================================
