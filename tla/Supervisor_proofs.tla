-------------------------- MODULE Supervisor_proofs --------------------------
(***************************************************************************)
(* Theorems about the supervisor, for queues, ladders and numbers of       *)
(* deaths, rooms and jobs of any size, and every set of faults unless the  *)
(* theorem says otherwise.                                                 *)
(***************************************************************************)
EXTENDS Supervisor, TLAPS

(***************************************************************************)
(* The queues.                                                             *)
(***************************************************************************)

\* s holds x somewhere.
Has(s, x) == \E i \in 1..Len(s) : s[i] = x

LEMMA AppendKeeps ==
    ASSUME NEW T, NEW s \in Seq(T), NEW x \in T
    PROVE  /\ Append(s, x) \in Seq(T) /\ Len(Append(s, x)) = Len(s) + 1
           /\ \A y : Has(Append(s, x), y) <=> Has(s, y) \/ x = y
<1>1. Append(s, x) \in Seq(T) /\ Len(Append(s, x)) = Len(s) + 1
    OBVIOUS
<1>2. \A i \in 1..Len(s) : Append(s, x)[i] = s[i]
    OBVIOUS
<1>3. Append(s, x)[Len(s) + 1] = x
    OBVIOUS
<1>4. Len(s) \in Nat /\ 1..(Len(s) + 1) = (1..Len(s)) \cup {Len(s) + 1}
    OBVIOUS
<1> QED BY <1>1, <1>2, <1>3, <1>4 DEF Has

LEMMA TailKeeps ==
    ASSUME NEW T, NEW s \in Seq(T), s # <<>>
    PROVE  /\ Head(s) \in T /\ Tail(s) \in Seq(T) /\ Len(Tail(s)) = Len(s) - 1
           /\ \A y : Has(s, y) => Has(Tail(s), y) \/ Head(s) = y
           /\ \A y : Has(Tail(s), y) => Has(s, y)
<1>1. Head(s) \in T /\ Tail(s) \in Seq(T) /\ Len(Tail(s)) = Len(s) - 1
    OBVIOUS
<1>2. Len(s) \in Nat /\ Len(s) > 0
    OBVIOUS
<1>3. \A i \in 1..Len(Tail(s)) : i + 1 \in 1..Len(s) /\ Tail(s)[i] = s[i + 1]
    BY <1>1, <1>2
<1>4. \A i \in 1..Len(s) : i = 1 \/ (i - 1 \in 1..Len(Tail(s)) /\ Tail(s)[i - 1] = s[i])
    BY <1>1, <1>2
<1>5. Head(s) = s[1]
    OBVIOUS
<1> QED BY <1>1, <1>3, <1>4, <1>5 DEF Has

LEMMA PushType ==
    ASSUME TypeOK, NEW tag \in Tags, Push(tag)
    PROVE  /\ work' \in Seq(Tags) /\ Len(work') <= WorkCap
           /\ \A y : Has(work', y) <=> Has(work, y) \/ tag = y
BY AppendKeeps, CapacityAssumption DEF Push, TypeOK

LEMMA TakeType ==
    ASSUME TypeOK, NEW tag, Take(tag)
    PROVE  /\ work' \in Seq(Tags) /\ Len(work') <= WorkCap
           /\ \A y : Has(work, y) => Has(work', y) \/ tag = y
           /\ \A y : Has(work', y) => Has(work, y)
BY TailKeeps, CapacityAssumption DEF Take, TypeOK

LEMMA EmitType ==
    ASSUME TypeOK, NEW event \in EngineNews, Emit(event)
    PROVE  /\ events' \in Seq(EngineNews) /\ Len(events') <= EventCap /\ lost' \in BOOLEAN
           /\ lost => lost'
           /\ Has(events, "died") => Has(events', "died")
           /\ event = "died" => Has(events', "died") \/ lost'
<1>1. CASE Len(events) < EventCap
    <2>1. events \in Seq(EngineNews) /\ lost \in BOOLEAN /\ EventCap \in Nat
        BY CapacityAssumption DEF TypeOK
    <2>2. events' = Append(events, event) /\ lost' = lost
        BY <1>1 DEF Emit
    <2>3. /\ events' \in Seq(EngineNews) /\ Len(events') = Len(events) + 1
          /\ \A y : Has(events', y) <=> Has(events, y) \/ event = y
        BY <2>1, <2>2, AppendKeeps
    <2>4. Len(events') <= EventCap
        BY <1>1, <2>1, <2>3
    <2> QED BY <2>1, <2>2, <2>3, <2>4
<1>2. CASE ~(Len(events) < EventCap)
    BY <1>2 DEF Emit, TypeOK
<1> QED BY <1>1, <1>2

(***************************************************************************)
(* Types.                                                                  *)
(***************************************************************************)

QueueOK   == work \in Seq(Tags) /\ Len(work) <= WorkCap
HandlerOK == at \in Places /\ resuming \in BOOLEAN
             /\ intentos \in 0..MaxRestarts /\ timers \in Nat
FlightsOK == flag \in [Flight -> BOOLEAN] /\ flying \in [Flight -> Nat]
NewsOK    == events \in Seq(EngineNews) /\ Len(events) <= EventCap /\ lost \in BOOLEAN
RoomOK    ==
    /\ alive \in BOOLEAN /\ up \in BOOLEAN /\ said \in BOOLEAN /\ last \in BOOLEAN
    /\ room \in BOOLEAN /\ down \in BOOLEAN /\ overdue \in BOOLEAN /\ bound \in BOOLEAN
    /\ up => alive
    /\ (down => room) /\ (overdue => down)
OrderOK   ==
    /\ user \in {"idle", "starting", "awaiting", "opened", "leaving"}
    /\ upsets \in Nat /\ opens \in Nat /\ resumes \in Nat

LEMMA TypeParts ==
    TypeOK <=> QueueOK /\ HandlerOK /\ FlightsOK /\ NewsOK /\ RoomOK /\ OrderOK
BY DEF TypeOK, QueueOK, HandlerOK, FlightsOK, NewsOK, RoomOK, OrderOK

\* What a handler does to the session and its engine keeps their types.
LEMMA LeaveRoomType == ASSUME TypeOK, LeaveRoom PROVE RoomOK'
BY DEF LeaveRoom, RoomCleared, TypeOK, RoomOK

LEMMA CallEngineType == ASSUME TypeOK, CallEngine, UNCHANGED session PROVE RoomOK'
BY DEF CallEngine, session, TypeOK, RoomOK

LEMMA SameRoomType == ASSUME TypeOK, UNCHANGED <<session, process>> PROVE RoomOK'
BY DEF session, process, TypeOK, RoomOK

LEMMA DeadlinesType == ASSUME TypeOK, Deadlines PROVE RoomOK'
<1>1. CASE overdue
    BY <1>1, LeaveRoomType DEF Deadlines
<1>2. CASE ~overdue
    BY <1>2, SameRoomType DEF Deadlines
<1> QED BY <1>1, <1>2

LEMMA PeersReadType == ASSUME TypeOK, PeersRead PROVE RoomOK'
<1>1. CASE overdue
    BY <1>1, LeaveRoomType DEF PeersRead
<1>2. CASE ~overdue /\ room
    BY <1>2, CallEngineType DEF PeersRead
<1>3. CASE ~overdue /\ ~room
    BY <1>3, SameRoomType DEF PeersRead
<1> QED BY <1>1, <1>2, <1>3

LEMMA TunnelDownType == ASSUME TypeOK, TunnelDown PROVE RoomOK'
<1>1. CASE overdue
    BY <1>1, LeaveRoomType DEF TunnelDown
<1>2. CASE ~overdue
    BY <1>2 DEF TunnelDown, process, TypeOK, RoomOK
<1> QED BY <1>1, <1>2

LEMMA LaunchType == ASSUME TypeOK, NEW jobs, Launch(jobs) PROVE FlightsOK'
<1>1. flag' \in [Flight -> BOOLEAN]
    BY DEF Launch, TypeOK
<1>2. \A f \in Flight : flying[f] \in Nat /\ flying[f] + 1 \in Nat
    BY DEF TypeOK
<1>3. flying' \in [Flight -> Nat]
    BY <1>2 DEF Launch
<1> QED BY <1>1, <1>3 DEF FlightsOK

\* Parts whose variables do not change keep their types.
LEMMA UnchangedTypes ==
    ASSUME TypeOK
    PROVE  /\ UNCHANGED work => QueueOK'
           /\ UNCHANGED <<handler, ladder>> => HandlerOK'
           /\ UNCHANGED flights => FlightsOK'
           /\ UNCHANGED news => NewsOK'
           /\ UNCHANGED <<user, counts>> => OrderOK'
BY DEF TypeOK, QueueOK, HandlerOK, FlightsOK, NewsOK, OrderOK, handler, ladder,
       flights, news, counts

LEMMA TypeInit == Init => TypeOK
<1> SUFFICES ASSUME Init PROVE TypeOK
    OBVIOUS
<1>1. QueueOK /\ NewsOK
    <2>1. work = <<>> /\ events = <<>> /\ lost = FALSE
        BY DEF Init
    <2>2. WorkCap \in Nat /\ EventCap \in Nat
        BY CapacityAssumption
    <2>3. lost \in BOOLEAN
        BY <2>1, Zenon
    <2> QED BY <2>1, <2>2, <2>3 DEF QueueOK, NewsOK
<1>2. HandlerOK
    <2>1. at = "idle" /\ intentos = 0 /\ timers = 0
        BY DEF Init
    <2>2. resuming \in BOOLEAN
        BY Zenon DEF Init
    <2> QED BY <2>1, <2>2, LadderAssumption DEF HandlerOK, Places
<1>3. FlightsOK /\ RoomOK /\ OrderOK
    BY DEF Init, FlightsOK, RoomOK, OrderOK
<1> QED BY <1>1, <1>2, <1>3, TypeParts

LEMMA TypeStep == TypeOK /\ [Next]_vars => TypeOK'
<1> SUFFICES ASSUME TypeOK, [Next]_vars PROVE TypeOK'
    OBVIOUS
<1> USE CapacityAssumption, LadderAssumption
<1>1. CASE OnConnected
    <2>1. QueueOK'
        BY <1>1, TakeType DEF OnConnected, QueueOK
    <2>2. HandlerOK'
        BY <1>1 DEF OnConnected, Places, TypeOK, HandlerOK, handler, ladder
    <2>3. RoomOK'
        <3>1. CASE overdue
            BY <1>1, <3>1, LeaveRoomType DEF OnConnected
        <3>2. CASE ~overdue /\ room
            BY <1>1, <3>2 DEF OnConnected, CallEngine, TypeOK, RoomOK
        <3>3. CASE ~overdue /\ ~room
            BY <1>1, <3>3, SameRoomType DEF OnConnected
        <3> QED BY <3>1, <3>2, <3>3
    <2>4. FlightsOK' /\ NewsOK' /\ OrderOK'
        BY <1>1, UnchangedTypes DEF OnConnected
    <2> QED BY <2>1, <2>2, <2>3, <2>4 DEF TypeOK, QueueOK, HandlerOK, FlightsOK,
        NewsOK, RoomOK, OrderOK
<1>2. CASE OnDisconnected
    <2>1. QueueOK'
        BY <1>2, TakeType DEF OnDisconnected, QueueOK
    <2>2. RoomOK'
        BY <1>2, TunnelDownType DEF OnDisconnected
    <2>3. HandlerOK' /\ FlightsOK' /\ NewsOK' /\ OrderOK'
        BY <1>2, UnchangedTypes DEF OnDisconnected
    <2> QED BY <2>1, <2>2, <2>3 DEF TypeOK, QueueOK, HandlerOK, FlightsOK, NewsOK,
        RoomOK, OrderOK
<1>3. CASE OnDied
    <2>1. QueueOK'
        BY <1>3, TakeType DEF OnDied, QueueOK
    <2>2. HandlerOK'
        BY <1>3 DEF OnDied, Places, TypeOK, HandlerOK, handler, ladder
    <2>3. RoomOK'
        BY <1>3, TunnelDownType DEF OnDied
    <2>4. FlightsOK' /\ NewsOK' /\ OrderOK'
        BY <1>3, UnchangedTypes DEF OnDied
    <2> QED BY <2>1, <2>2, <2>3, <2>4 DEF TypeOK, QueueOK, HandlerOK, FlightsOK,
        NewsOK, RoomOK, OrderOK
<1>4. CASE Schedule
    <2>1. HandlerOK'
        BY <1>4 DEF Schedule, HandlerOver, Places, TypeOK, HandlerOK, handler, ladder
    <2>2. RoomOK'
        BY <1>4, SameRoomType DEF Schedule
    <2>3. QueueOK' /\ FlightsOK' /\ NewsOK' /\ OrderOK'
        BY <1>4, UnchangedTypes DEF Schedule
    <2> QED BY <2>1, <2>2, <2>3 DEF TypeOK, QueueOK, HandlerOK, FlightsOK, NewsOK,
        RoomOK, OrderOK
<1>5. CASE GiveUp
    <2>1. HandlerOK'
        BY <1>5 DEF GiveUp, HandlerOver, Places, TypeOK, HandlerOK, handler, ladder
    <2>2. RoomOK'
        BY <1>5, LeaveRoomType, SameRoomType DEF GiveUp
    <2>3. QueueOK' /\ FlightsOK' /\ NewsOK' /\ OrderOK'
        BY <1>5, UnchangedTypes DEF GiveUp
    <2> QED BY <2>1, <2>2, <2>3 DEF TypeOK, QueueOK, HandlerOK, FlightsOK, NewsOK,
        RoomOK, OrderOK
<1>6. CASE OnRestart
    <2>1. QueueOK'
        BY <1>6, TakeType DEF OnRestart, QueueOK
    <2>2. HandlerOK'
        BY <1>6 DEF OnRestart, Places, TypeOK, HandlerOK, handler, ladder
    <2>3. RoomOK'
        BY <1>6, SameRoomType DEF OnRestart
    <2>4. FlightsOK' /\ NewsOK' /\ OrderOK'
        BY <1>6, UnchangedTypes DEF OnRestart
    <2> QED BY <2>1, <2>2, <2>3, <2>4 DEF TypeOK, QueueOK, HandlerOK, FlightsOK,
        NewsOK, RoomOK, OrderOK
<1>7. CASE RestartStop
    <2>1. HandlerOK'
        BY <1>7 DEF RestartStop, Places, TypeOK, HandlerOK, handler, ladder
    <2>2. RoomOK'
        BY <1>7 DEF RestartStop, TypeOK, RoomOK, session
    <2>3. QueueOK' /\ FlightsOK' /\ NewsOK' /\ OrderOK'
        BY <1>7, UnchangedTypes DEF RestartStop
    <2> QED BY <2>1, <2>2, <2>3 DEF TypeOK, QueueOK, HandlerOK, FlightsOK, NewsOK,
        RoomOK, OrderOK
<1>8. CASE RestartStart
    <2>1. HandlerOK'
        BY <1>8 DEF RestartStart, Places, TypeOK, HandlerOK, handler, ladder
    <2>2. RoomOK'
        <3>1. alive' = TRUE \/ (alive' = alive /\ up' = up)
            BY <1>8 DEF RestartStart
        <3>2. /\ said' \in BOOLEAN /\ bound' \in BOOLEAN /\ up' \in BOOLEAN
              /\ UNCHANGED <<last, room, down, overdue>>
            BY <1>8 DEF RestartStart, TypeOK
        <3> QED BY <3>1, <3>2 DEF TypeOK, RoomOK
    <2>3. QueueOK' /\ FlightsOK' /\ NewsOK' /\ OrderOK'
        BY <1>8, UnchangedTypes DEF RestartStart
    <2> QED BY <2>1, <2>2, <2>3 DEF TypeOK, QueueOK, HandlerOK, FlightsOK, NewsOK,
        RoomOK, OrderOK
<1>9. CASE RestartAwait
    <2>1. HandlerOK'
        BY <1>9 DEF RestartAwait, Places, TypeOK, HandlerOK, handler, ladder
    <2>2. RoomOK'
        BY <1>9, SameRoomType DEF RestartAwait
    <2>3. QueueOK' /\ FlightsOK' /\ NewsOK' /\ OrderOK'
        BY <1>9, UnchangedTypes DEF RestartAwait
    <2> QED BY <2>1, <2>2, <2>3 DEF TypeOK, QueueOK, HandlerOK, FlightsOK, NewsOK,
        RoomOK, OrderOK
<1>10. CASE RestartBack
    <2>1. HandlerOK'
        BY <1>10 DEF RestartBack, HandlerOver, Places, TypeOK, HandlerOK, handler, ladder
    <2>2. RoomOK'
        BY <1>10 DEF RestartBack, TypeOK, RoomOK, process
    <2>3. QueueOK' /\ FlightsOK' /\ NewsOK' /\ OrderOK'
        BY <1>10, UnchangedTypes DEF RestartBack
    <2> QED BY <2>1, <2>2, <2>3 DEF TypeOK, QueueOK, HandlerOK, FlightsOK, NewsOK,
        RoomOK, OrderOK
<1>11. CASE OnResume
    <2>1. QueueOK'
        BY <1>11, TakeType DEF OnResume, QueueOK
    <2>2. HandlerOK'
        BY <1>11 DEF OnResume, Places, TypeOK, HandlerOK, handler, ladder
    <2>3. RoomOK'
        BY <1>11, DeadlinesType DEF OnResume
    <2>4. FlightsOK' /\ NewsOK' /\ OrderOK'
        BY <1>11, UnchangedTypes DEF OnResume
    <2> QED BY <2>1, <2>2, <2>3, <2>4 DEF TypeOK, QueueOK, HandlerOK, FlightsOK,
        NewsOK, RoomOK, OrderOK
<1>12. CASE Reread
    <2>1. HandlerOK'
        BY <1>12 DEF Reread, Places, TypeOK, HandlerOK, handler, ladder
    <2>2. RoomOK'
        BY <1>12, PeersReadType DEF Reread
    <2>3. QueueOK' /\ FlightsOK' /\ NewsOK' /\ OrderOK'
        BY <1>12, UnchangedTypes DEF Reread
    <2> QED BY <2>1, <2>2, <2>3 DEF TypeOK, QueueOK, HandlerOK, FlightsOK, NewsOK,
        RoomOK, OrderOK
<1>13. CASE OnMesh
    <2>1. QueueOK'
        BY <1>13, TakeType DEF OnMesh, QueueOK
    <2>2. RoomOK'
        BY <1>13, PeersReadType DEF OnMesh
    <2>3. HandlerOK' /\ FlightsOK' /\ NewsOK' /\ OrderOK'
        BY <1>13, UnchangedTypes DEF OnMesh
    <2> QED BY <2>1, <2>2, <2>3 DEF TypeOK, QueueOK, HandlerOK, FlightsOK, NewsOK,
        RoomOK, OrderOK
<1>14. CASE OnBeat
    <2>1. QueueOK'
        BY <1>14, TakeType DEF OnBeat, QueueOK
    <2>2. FlightsOK'
        BY <1>14, LaunchType DEF OnBeat
    <2>3. RoomOK'
        BY <1>14, DeadlinesType DEF OnBeat
    <2>4. HandlerOK' /\ NewsOK' /\ OrderOK'
        BY <1>14, UnchangedTypes DEF OnBeat
    <2> QED BY <2>1, <2>2, <2>3, <2>4 DEF TypeOK, QueueOK, HandlerOK, FlightsOK,
        NewsOK, RoomOK, OrderOK
<1>15. CASE OnNotice
    <2>1. QueueOK'
        BY <1>15, TakeType DEF OnNotice, QueueOK
    <2>2. FlightsOK'
        BY <1>15, LaunchType DEF OnNotice
    <2>3. RoomOK'
        BY <1>15, LeaveRoomType, SameRoomType DEF OnNotice
    <2>4. HandlerOK' /\ NewsOK' /\ OrderOK'
        BY <1>15, UnchangedTypes DEF OnNotice
    <2> QED BY <2>1, <2>2, <2>3, <2>4 DEF TypeOK, QueueOK, HandlerOK, FlightsOK,
        NewsOK, RoomOK, OrderOK
<1>16. CASE OnCanary
    <2>1. QueueOK'
        BY <1>16, TakeType DEF OnCanary, QueueOK
    <2>2. FlightsOK'
        BY <1>16, LaunchType DEF OnCanary
    <2>3. RoomOK'
        BY <1>16, SameRoomType DEF OnCanary
    <2>4. HandlerOK' /\ NewsOK' /\ OrderOK'
        BY <1>16, UnchangedTypes DEF OnCanary
    <2> QED BY <2>1, <2>2, <2>3, <2>4 DEF TypeOK, QueueOK, HandlerOK, FlightsOK,
        NewsOK, RoomOK, OrderOK
<1>17. CASE \E f \in Flight : OnDone(f)
    <2>1. QueueOK'
        BY <1>17, TakeType DEF OnDone, QueueOK
    <2>2. FlightsOK'
        BY <1>17 DEF OnDone, TypeOK, FlightsOK
    <2>3. RoomOK'
        BY <1>17, SameRoomType DEF OnDone
    <2>4. HandlerOK' /\ NewsOK' /\ OrderOK'
        BY <1>17, UnchangedTypes DEF OnDone
    <2> QED BY <2>1, <2>2, <2>3, <2>4 DEF TypeOK, QueueOK, HandlerOK, FlightsOK,
        NewsOK, RoomOK, OrderOK
<1>18. CASE Panic
    <2>1. QueueOK'
        <3>1. CASE work # <<>> /\ work' = Tail(work)
            <4>1. work \in Seq(Tags) /\ Len(work) <= WorkCap /\ WorkCap \in Nat
                BY CapacityAssumption DEF TypeOK
            <4>2. Tail(work) \in Seq(Tags) /\ Len(Tail(work)) = Len(work) - 1
                BY <3>1, <4>1, TailKeeps
            <4> QED BY <3>1, <4>1, <4>2 DEF QueueOK
        <3>2. CASE UNCHANGED work
            BY <3>2, UnchangedTypes
        <3> QED BY <1>18, <3>1, <3>2 DEF Panic
    <2>2. HandlerOK'
        BY <1>18 DEF Panic, Places, TypeOK, HandlerOK, handler, ladder
    <2>3. RoomOK'
        BY <1>18, SameRoomType DEF Panic
    <2>4. FlightsOK' /\ NewsOK' /\ OrderOK'
        BY <1>18, UnchangedTypes DEF Panic
    <2> QED BY <2>1, <2>2, <2>3, <2>4 DEF TypeOK, QueueOK, HandlerOK, FlightsOK,
        NewsOK, RoomOK, OrderOK
<1>19. CASE Drain
    <2>1. Head(events) \in Tags /\ NewsOK'
        BY <1>19, TailKeeps DEF Drain, TypeOK, Tags, NewsOK
    <2>2. QueueOK'
        BY <1>19, <2>1, PushType DEF Drain, QueueOK
    <2>3. RoomOK'
        BY <1>19, SameRoomType DEF Drain
    <2>4. HandlerOK' /\ FlightsOK' /\ OrderOK'
        BY <1>19, UnchangedTypes DEF Drain
    <2> QED BY <2>1, <2>2, <2>3, <2>4 DEF TypeOK, QueueOK, HandlerOK, FlightsOK,
        NewsOK, RoomOK, OrderOK
<1>20. CASE TimerFires
    <2>1. QueueOK'
        BY <1>20, PushType DEF TimerFires, Tags, QueueOK
    <2>2. HandlerOK'
        BY <1>20 DEF TimerFires, Places, TypeOK, HandlerOK, handler, ladder
    <2>3. RoomOK'
        BY <1>20, SameRoomType DEF TimerFires
    <2>4. FlightsOK' /\ NewsOK' /\ OrderOK'
        BY <1>20, UnchangedTypes DEF TimerFires
    <2> QED BY <2>1, <2>2, <2>3, <2>4 DEF TypeOK, QueueOK, HandlerOK, FlightsOK,
        NewsOK, RoomOK, OrderOK
<1>21. CASE \E f \in Flight : Land(f)
    <2>1. QueueOK'
        <3>1. PICK f \in Flight : Push(DoneTag[f])
            BY <1>21 DEF Land
        <3>2. DoneTag[f] \in Tags
            BY <3>1, SourceAssumption DEF Tags, DoneTags
        <3> QED BY <3>1, <3>2, PushType DEF QueueOK
    <2>2. FlightsOK'
        BY <1>21 DEF Land, TypeOK, FlightsOK, flights
    <2>3. RoomOK'
        BY <1>21, SameRoomType DEF Land
    <2>4. HandlerOK' /\ NewsOK' /\ OrderOK'
        BY <1>21, UnchangedTypes DEF Land
    <2> QED BY <2>1, <2>2, <2>3, <2>4 DEF TypeOK, QueueOK, HandlerOK, FlightsOK,
        NewsOK, RoomOK, OrderOK
<1>22. CASE \E s \in Source : Arrive(s)
    <2>1. QueueOK'
        BY <1>22, PushType, SourceAssumption DEF Arrive, Tags, QueueOK
    <2>2. RoomOK'
        BY <1>22, SameRoomType DEF Arrive
    <2>3. OrderOK'
        BY <1>22 DEF Arrive, TypeOK, OrderOK
    <2>4. HandlerOK' /\ FlightsOK' /\ NewsOK'
        BY <1>22, UnchangedTypes DEF Arrive
    <2> QED BY <2>1, <2>2, <2>3, <2>4 DEF TypeOK, QueueOK, HandlerOK, FlightsOK,
        NewsOK, RoomOK, OrderOK
<1>23. CASE Die
    <2>1. NewsOK'
        BY <1>23, EmitType DEF Die, EngineNews, TypeOK, news, NewsOK
    <2>2. RoomOK'
        BY <1>23 DEF Die, TypeOK, RoomOK, session
    <2>3. OrderOK'
        BY <1>23 DEF Die, TypeOK, OrderOK
    <2>4. QueueOK' /\ HandlerOK' /\ FlightsOK'
        BY <1>23, UnchangedTypes DEF Die
    <2> QED BY <2>1, <2>2, <2>3, <2>4 DEF TypeOK, QueueOK, HandlerOK, FlightsOK,
        NewsOK, RoomOK, OrderOK
<1>24. CASE Connect
    <2>1. NewsOK'
        BY <1>24, EmitType DEF Connect, EngineNews, NewsOK
    <2>2. RoomOK'
        BY <1>24 DEF Connect, TypeOK, RoomOK, session
    <2>3. QueueOK' /\ HandlerOK' /\ FlightsOK' /\ OrderOK'
        BY <1>24, UnchangedTypes DEF Connect
    <2> QED BY <2>1, <2>2, <2>3 DEF TypeOK, QueueOK, HandlerOK, FlightsOK, NewsOK,
        RoomOK, OrderOK
<1>25. CASE Disconnect
    <2>1. NewsOK'
        BY <1>25, EmitType DEF Disconnect, EngineNews, NewsOK
    <2>2. RoomOK'
        BY <1>25, SameRoomType DEF Disconnect
    <2>3. OrderOK'
        BY <1>25 DEF Disconnect, TypeOK, OrderOK
    <2>4. QueueOK' /\ HandlerOK' /\ FlightsOK'
        BY <1>25, UnchangedTypes DEF Disconnect
    <2> QED BY <2>1, <2>2, <2>3, <2>4 DEF TypeOK, QueueOK, HandlerOK, FlightsOK,
        NewsOK, RoomOK, OrderOK
<1>26. CASE Poll
    <2>1. RoomOK'
        BY <1>26, CallEngineType DEF Poll
    <2>2. QueueOK' /\ HandlerOK' /\ FlightsOK' /\ NewsOK' /\ OrderOK'
        BY <1>26, UnchangedTypes DEF Poll
    <2> QED BY <2>1, <2>2 DEF TypeOK, QueueOK, HandlerOK, FlightsOK, NewsOK, RoomOK,
        OrderOK
<1>27. CASE TimePasses
    <2>1. RoomOK'
        BY <1>27 DEF TimePasses, TypeOK, RoomOK, process
    <2>2. QueueOK' /\ HandlerOK' /\ FlightsOK' /\ NewsOK' /\ OrderOK'
        BY <1>27, UnchangedTypes DEF TimePasses
    <2> QED BY <2>1, <2>2 DEF TypeOK, QueueOK, HandlerOK, FlightsOK, NewsOK, RoomOK,
        OrderOK
<1>28. CASE Open
    <2>1. RoomOK'
        BY <1>28 DEF Open, TypeOK, RoomOK, session
    <2>2. OrderOK'
        BY <1>28 DEF Open, TypeOK, OrderOK
    <2>3. QueueOK' /\ HandlerOK' /\ FlightsOK' /\ NewsOK'
        BY <1>28, UnchangedTypes DEF Open
    <2> QED BY <2>1, <2>2, <2>3 DEF TypeOK, QueueOK, HandlerOK, FlightsOK, NewsOK,
        RoomOK, OrderOK
<1>29. CASE Leave
    <2>1. RoomOK'
        BY <1>29 DEF Leave, EngineLeft, RoomCleared, TypeOK, RoomOK, session
    <2>2. OrderOK'
        BY <1>29 DEF Leave, EngineLeft, TypeOK, OrderOK, counts
    <2>3. QueueOK' /\ HandlerOK' /\ FlightsOK' /\ NewsOK'
        BY <1>29, UnchangedTypes DEF Leave
    <2> QED BY <2>1, <2>2, <2>3 DEF TypeOK, QueueOK, HandlerOK, FlightsOK, NewsOK,
        RoomOK, OrderOK
<1>30. CASE OpenKept
    <2>1. RoomOK'
        BY <1>30 DEF OpenKept, TypeOK, RoomOK, session
    <2>2. OrderOK'
        BY <1>30 DEF OpenKept, TypeOK, OrderOK, counts
    <2>3. QueueOK' /\ HandlerOK' /\ FlightsOK' /\ NewsOK'
        BY <1>30, UnchangedTypes DEF OpenKept
    <2> QED BY <2>1, <2>2, <2>3 DEF TypeOK, QueueOK, HandlerOK, FlightsOK, NewsOK,
        RoomOK, OrderOK
<1>31. CASE OpenBound
    <2>1. RoomOK'
        BY <1>31 DEF OpenBound, TypeOK, RoomOK, process
    <2>2. OrderOK'
        BY <1>31 DEF OpenBound, TypeOK, OrderOK, counts
    <2>3. QueueOK' /\ HandlerOK' /\ FlightsOK' /\ NewsOK'
        BY <1>31, UnchangedTypes DEF OpenBound
    <2> QED BY <2>1, <2>2, <2>3 DEF TypeOK, QueueOK, HandlerOK, FlightsOK, NewsOK,
        RoomOK, OrderOK
<1>32. CASE OpenDone
    <2>1. RoomOK'
        BY <1>32 DEF OpenDone, TypeOK, RoomOK, process
    <2>2. OrderOK'
        BY <1>32 DEF OpenDone, TypeOK, OrderOK, counts
    <2>3. QueueOK' /\ HandlerOK' /\ FlightsOK' /\ NewsOK'
        BY <1>32, UnchangedTypes DEF OpenDone
    <2> QED BY <2>1, <2>2, <2>3 DEF TypeOK, QueueOK, HandlerOK, FlightsOK, NewsOK,
        RoomOK, OrderOK
<1>33. CASE OpenFails
    <2>1. RoomOK'
        BY <1>33 DEF OpenFails, EngineLeft, RoomCleared, TypeOK, RoomOK, session
    <2>2. OrderOK'
        BY <1>33 DEF OpenFails, EngineLeft, TypeOK, OrderOK, counts
    <2>3. QueueOK' /\ HandlerOK' /\ FlightsOK' /\ NewsOK'
        BY <1>33, UnchangedTypes DEF OpenFails
    <2> QED BY <2>1, <2>2, <2>3 DEF TypeOK, QueueOK, HandlerOK, FlightsOK, NewsOK,
        RoomOK, OrderOK
<1>34. CASE LeaveSent
    <2>1. RoomOK'
        BY <1>34 DEF LeaveSent, RoomCleared, TypeOK, RoomOK
    <2>2. OrderOK'
        BY <1>34 DEF LeaveSent, TypeOK, OrderOK, counts
    <2>3. QueueOK' /\ HandlerOK' /\ FlightsOK' /\ NewsOK'
        BY <1>34, UnchangedTypes DEF LeaveSent
    <2> QED BY <2>1, <2>2, <2>3 DEF TypeOK, QueueOK, HandlerOK, FlightsOK, NewsOK,
        RoomOK, OrderOK
<1>35. CASE UNCHANGED vars
    BY <1>35, SameRoomType, UnchangedTypes, TypeParts DEF vars, TypeOK, QueueOK,
        HandlerOK, FlightsOK, NewsOK, RoomOK, OrderOK
<1> QED
    BY <1>1, <1>2, <1>3, <1>4, <1>5, <1>6, <1>7, <1>8, <1>9, <1>10, <1>11, <1>12,
        <1>13, <1>14, <1>15, <1>16, <1>17, <1>18, <1>19, <1>20, <1>21, <1>22, <1>23,
        <1>24, <1>25, <1>26, <1>27, <1>28, <1>29, <1>30, <1>31, <1>32, <1>33, <1>34,
        <1>35 DEF Next, Dispatch, Order

\* Whatever fails, the variables keep their types, and the clock of the tunnel
\* runs only in a room.
THEOREM TypeCorrect == Spec => []TypeOK
<1>1. Init => TypeOK
    BY TypeInit
<1>2. TypeOK /\ [Next]_vars => TypeOK'
    BY TypeStep
<1> QED BY <1>1, <1>2, PTL DEF Spec

(***************************************************************************)
(* One job of a kind at a time.                                            *)
(***************************************************************************)

\* s holds x at most once.
Once(s, x) == \A i, j \in 1..Len(s) : s[i] = x /\ s[j] = x => i = j

LEMMA AppendOnce ==
    ASSUME NEW T, NEW s \in Seq(T), NEW x \in T, NEW y, Once(s, y), x = y => ~Has(s, y)
    PROVE  Once(Append(s, x), y)
<1>1. Len(s) \in Nat /\ Len(Append(s, x)) = Len(s) + 1
    OBVIOUS
<1>2. \A i \in 1..(Len(s) + 1) : \/ i \in 1..Len(s) /\ Append(s, x)[i] = s[i]
                                 \/ i = Len(s) + 1 /\ Append(s, x)[i] = x
    BY <1>1
<1> QED BY <1>1, <1>2 DEF Once, Has

LEMMA TailOnce ==
    ASSUME NEW T, NEW s \in Seq(T), s # <<>>, NEW y, Once(s, y)
    PROVE  Once(Tail(s), y) /\ (Head(s) = y => ~Has(Tail(s), y))
<1>1. Len(s) \in Nat /\ Len(s) > 0 /\ Len(Tail(s)) = Len(s) - 1 /\ Head(s) = s[1]
    OBVIOUS
<1>2. \A i \in 1..Len(Tail(s)) : i \in Nat /\ i > 0 /\ i + 1 \in 1..Len(s)
                                 /\ Tail(s)[i] = s[i + 1]
    BY <1>1
<1>3. 1 \in 1..Len(s)
    BY <1>1
<1>4. Once(Tail(s), y)
    <2> SUFFICES ASSUME NEW i \in 1..Len(Tail(s)), NEW j \in 1..Len(Tail(s)),
                        Tail(s)[i] = y, Tail(s)[j] = y
                 PROVE  i = j
        BY DEF Once
    <2>1. i + 1 = j + 1
        BY <1>2 DEF Once
    <2> QED BY <1>2, <2>1
<1>5. Head(s) = y => ~Has(Tail(s), y)
    <2> SUFFICES ASSUME Head(s) = y, NEW i \in 1..Len(Tail(s)), Tail(s)[i] = y
                 PROVE  FALSE
        BY DEF Has
    <2>1. i + 1 = 1
        BY <1>1, <1>2, <1>3 DEF Once
    <2> QED BY <1>2, <2>1
<1> QED BY <1>4, <1>5

\* The job flies, or its end is in the queue, once; either way the flag is up.
Flown(f) ==
    /\ flying[f] \in {0, 1}
    /\ flying[f] = 1 \/ Has(work, DoneTag[f]) => flag[f]
    /\ flying[f] = 1 => ~Has(work, DoneTag[f])
    /\ Once(work, DoneTag[f])

FlightInv == \A f \in Flight : Flown(f)

LEMMA DoneTagsDiffer ==
    ASSUME NEW f \in Flight
    PROVE  /\ DoneTag[f] \in Tags
           /\ DoneTag[f] \notin Sources \cup EngineNews \cup {"restart"}
           /\ \A g \in Flight : DoneTag[g] = DoneTag[f] => g = f
BY SourceAssumption DEF DoneTag, DoneTags, Tags, Flights, Sources, EngineNews

LEMMA PushFlown ==
    ASSUME TypeOK, NEW f \in Flight, Flown(f), NEW tag \in Tags, tag # DoneTag[f],
           Push(tag), flying'[f] = flying[f], flag'[f] = flag[f]
    PROVE  Flown(f)'
<1>1. work \in Seq(Tags) /\ work' = Append(work, tag)
    BY DEF TypeOK, Push
<1>2. Once(work', DoneTag[f])
    BY <1>1, AppendOnce DEF Flown
<1>3. Has(work', DoneTag[f]) <=> Has(work, DoneTag[f])
    BY <1>1, AppendKeeps
<1> QED BY <1>2, <1>3 DEF Flown

\* An item less does no harm.
LEMMA TailFlown ==
    ASSUME TypeOK, NEW f \in Flight, Flown(f), work # <<>>, work' = Tail(work),
           flying'[f] = flying[f], flag'[f] = flag[f]
    PROVE  Flown(f)'
<1>1. work \in Seq(Tags)
    BY DEF TypeOK
<1>2. Once(work', DoneTag[f])
    BY <1>1, TailOnce DEF Flown
<1>3. Has(work', DoneTag[f]) => Has(work, DoneTag[f])
    BY <1>1, TailKeeps
<1> QED BY <1>2, <1>3 DEF Flown

LEMMA LaunchFlown ==
    ASSUME TypeOK, NEW f \in Flight, Flown(f), work # <<>>, work' = Tail(work),
           NEW jobs, Launch(jobs)
    PROVE  Flown(f)'
<1>1. work \in Seq(Tags) /\ flag[f] \in BOOLEAN
    BY DEF TypeOK
<1>2. Once(work', DoneTag[f])
    BY <1>1, TailOnce DEF Flown
<1>3. Has(work', DoneTag[f]) => Has(work, DoneTag[f])
    BY <1>1, TailKeeps
<1>4. CASE f \in jobs /\ ~flag[f]
    <2>1. flying[f] = 0 /\ ~Has(work, DoneTag[f])
        BY <1>4 DEF Flown
    <2>2. flying'[f] = 1
        BY <1>4, <2>1 DEF Launch
    <2>3. flag'[f]
        BY <1>4, Zenon DEF Launch
    <2> QED BY <1>2, <1>3, <2>1, <2>2, <2>3 DEF Flown
<1>5. CASE ~(f \in jobs /\ ~flag[f])
    <2>1. flying'[f] = flying[f] /\ (flag[f] => flag'[f])
        BY <1>5 DEF Launch
    <2> QED BY <1>2, <1>3, <2>1 DEF Flown
<1> QED BY <1>4, <1>5

LEMMA DoneFlown ==
    ASSUME TypeOK, NEW f \in Flight, Flown(f), NEW g \in Flight, OnDone(g)
    PROVE  Flown(f)'
<1>1. /\ work \in Seq(Tags) /\ work # <<>> /\ work' = Tail(work)
      /\ Head(work) = DoneTag[g]
    BY DEF TypeOK, OnDone, Take
<1>2. flying' = flying /\ flag' = [flag EXCEPT ![g] = FALSE] /\ flag \in [Flight -> BOOLEAN]
    BY DEF OnDone, TypeOK
<1>3. CASE g = f
    <2>1. Once(work', DoneTag[f]) /\ ~Has(work', DoneTag[f])
        BY <1>1, <1>3, TailOnce DEF Flown
    <2>2. Has(work, DoneTag[f])
        <3>1. Len(work) \in Nat /\ Len(work) > 0 /\ Head(work) = work[1]
            BY <1>1
        <3> QED BY <1>1, <1>3, <3>1 DEF Has
    <2> QED BY <1>2, <2>1, <2>2 DEF Flown
<1>4. CASE g # f
    <2>1. flying'[f] = flying[f] /\ flag'[f] = flag[f]
        BY <1>2, <1>4
    <2> QED BY <1>1, <2>1, TailFlown
<1> QED BY <1>3, <1>4

LEMMA LandFlown ==
    ASSUME TypeOK, NEW f \in Flight, Flown(f), NEW g \in Flight, Land(g)
    PROVE  Flown(f)'
<1>1. work \in Seq(Tags) /\ work' = Append(work, DoneTag[g]) /\ DoneTag[g] \in Tags
    BY DoneTagsDiffer DEF TypeOK, Land, Push
<1>2. /\ flying[g] > 0 /\ flying' = [flying EXCEPT ![g] = @ - 1] /\ flag' = flag
      /\ flying \in [Flight -> Nat]
    BY DEF Land, TypeOK
<1>3. CASE g = f
    <2>1. flying[f] = 1 /\ ~Has(work, DoneTag[f]) /\ flag[f]
        BY <1>2, <1>3 DEF Flown
    <2>2. Once(work', DoneTag[f])
        BY <1>1, <2>1, <1>3, AppendOnce DEF Flown
    <2>3. flying'[f] = 0
        BY <1>2, <1>3, <2>1
    <2> QED BY <1>2, <2>1, <2>2, <2>3 DEF Flown
<1>4. CASE g # f
    <2>1. flying'[f] = flying[f] /\ flag'[f] = flag[f] /\ DoneTag[g] # DoneTag[f]
        BY <1>2, <1>4, DoneTagsDiffer
    <2> QED BY <1>1, <2>1, PushFlown DEF Land
<1> QED BY <1>3, <1>4

LEMMA FlightInit == Init => FlightInv
<1> SUFFICES ASSUME Init, NEW f \in Flight PROVE Flown(f)
    BY DEF FlightInv
<1>1. work = <<>> /\ flying[f] = 0
    BY DEF Init
<1> QED BY <1>1 DEF Flown, Has, Once

LEMMA FlightStep == TypeOK /\ FlightInv /\ [Next]_vars => FlightInv'
<1> SUFFICES ASSUME TypeOK, FlightInv, [Next]_vars, NEW f \in Flight PROVE Flown(f)'
    BY DEF FlightInv
<1>0. Flown(f)
    BY DEF FlightInv
<1>1. CASE OnConnected \/ OnDisconnected \/ OnDied \/ OnRestart
           \/ OnResume \/ OnMesh
    BY <1>0, <1>1, TailFlown DEF OnConnected, OnDisconnected, OnDied, OnRestart,
        OnResume, OnMesh, Take, flights
<1>2. CASE OnBeat \/ OnNotice \/ OnCanary
    BY <1>0, <1>2, LaunchFlown DEF OnBeat, OnNotice, OnCanary, Take
<1>3. CASE \/ Schedule \/ GiveUp \/ RestartStop \/ RestartStart \/ RestartAwait
           \/ RestartBack \/ Reread \/ Die \/ Connect \/ Disconnect
           \/ Poll \/ TimePasses \/ Open \/ Leave \/ OpenKept
           \/ OpenBound \/ OpenDone \/ OpenFails \/ LeaveSent
           \/ UNCHANGED vars
    <2>1. UNCHANGED <<work, flag, flying>>
        BY <1>3 DEF Schedule, GiveUp, RestartStop, RestartStart, RestartAwait,
            RestartBack, Reread, Die, Connect, Disconnect, Poll, TimePasses, Open,
            Leave, OpenKept, OpenBound, OpenDone, OpenFails, LeaveSent, vars, flights,
            EngineLeft
    <2> QED BY <1>0, <2>1 DEF Flown
<1>4. CASE \E g \in Flight : OnDone(g)
    BY <1>0, <1>4, DoneFlown
<1>5. CASE Panic
    <2>1. CASE work # <<>> /\ work' = Tail(work)
        BY <1>0, <1>5, <2>1, TailFlown DEF Panic, flights
    <2>2. CASE UNCHANGED work
        <3>1. UNCHANGED <<work, flag, flying>>
            BY <1>5, <2>2 DEF Panic, flights
        <3> QED BY <1>0, <3>1 DEF Flown
    <2> QED BY <1>5, <2>1, <2>2 DEF Panic
<1>6. CASE Drain
    <2>1. Head(events) \in EngineNews
        BY <1>6, TailKeeps DEF Drain, TypeOK
    <2>2. Head(events) \in Tags /\ Head(events) # DoneTag[f]
        BY <2>1, DoneTagsDiffer DEF Tags
    <2> QED BY <1>0, <1>6, <2>2, PushFlown DEF Drain, flights
<1>7. CASE TimerFires
    <2>1. "restart" \in Tags /\ "restart" # DoneTag[f]
        BY DoneTagsDiffer DEF Tags
    <2> QED BY <1>0, <1>7, <2>1, PushFlown DEF TimerFires, flights
<1>8. CASE \E g \in Flight : Land(g)
    BY <1>0, <1>8, LandFlown
<1>9. CASE \E s \in Source : Arrive(s)
    <2>1. PICK s \in Source : Arrive(s)
        BY <1>9
    <2>2. s \in Tags /\ s # DoneTag[f]
        BY <2>1, SourceAssumption, DoneTagsDiffer DEF Tags
    <2> QED BY <1>0, <2>1, <2>2, PushFlown DEF Arrive, flights
<1> QED
    BY <1>1, <1>2, <1>3, <1>4, <1>5, <1>6, <1>7, <1>8, <1>9 DEF Next, Dispatch, Order

\* However full the queue, whoever panics and whatever else is going on, a job is
\* never run beside another of its kind, nor without its flag.
THEOREM JobsFlyAlone == Spec => []OneFlight
<1>1. Init => TypeOK /\ FlightInv
    BY TypeInit, FlightInit
<1>2. (TypeOK /\ FlightInv) /\ [Next]_vars => (TypeOK /\ FlightInv)'
    BY TypeStep, FlightStep
<1>3. FlightInv => OneFlight
    BY DEF FlightInv, Flown, OneFlight
<1> QED BY <1>1, <1>2, <1>3, PTL DEF Spec

(***************************************************************************)
(* The watchdog does not fall asleep, nor forget the gate, when handlers   *)
(* run to their end.                                                       *)
(***************************************************************************)

\* A death to hear of, or a restart before its last call.
Waking ==
    \/ Has(events, "died") \/ Has(work, "died") \/ Has(work, "restart")
    \/ timers > 0
    \/ at \in {"stop", "start", "await", "schedule"}

\* In a room, or about to be; orders know which.
InRoom == room \/ user = "opened"

OrderInv ==
    /\ (room /\ user # "leaving") \/ user \in {"awaiting", "opened"} => last
    /\ user \in {"starting", "awaiting", "opened"} => ~room

AwakeInv == InRoom /\ ~up => Waking \/ lost \/ user = "leaving"

GateInv == InRoom /\ up /\ ~bound => Waking \/ at = "back" \/ user = "leaving"

\* What most handlers do to the session: nothing that matters here, or its end.
Harmless ==
    /\ user' = user
    /\ \/ LeaveRoom /\ SessionFree
       \/ room' = room /\ last' = last /\ up' = up /\ (bound => bound')

LEMMA HarmlessKeeps ==
    ASSUME OrderInv, AwakeInv, Harmless, lost => lost', Waking => Waking'
    PROVE  OrderInv' /\ AwakeInv'
<1>1. CASE LeaveRoom /\ SessionFree
    <2>1. ~room' /\ user' = "idle"
        BY <1>1 DEF LeaveRoom, RoomCleared, SessionFree, Harmless
    <2> QED BY <2>1 DEF OrderInv, AwakeInv, InRoom
<1>2. CASE room' = room /\ last' = last /\ up' = up
    BY <1>2 DEF Harmless, OrderInv, AwakeInv, InRoom
<1> QED BY <1>1, <1>2 DEF Harmless

LEMMA HarmlessToGate ==
    ASSUME GateInv, Harmless, Waking => Waking', at = "back" => Waking' \/ at' = "back"
    PROVE  GateInv'
<1>1. CASE LeaveRoom /\ SessionFree
    <2>1. ~room' /\ user' = "idle"
        BY <1>1 DEF LeaveRoom, RoomCleared, SessionFree, Harmless
    <2> QED BY <2>1 DEF GateInv, InRoom
<1>2. CASE room' = room /\ up' = up /\ (bound => bound')
    BY <1>2 DEF Harmless, GateInv, InRoom
<1> QED BY <1>1, <1>2 DEF Harmless

\* Taking any item but these two leaves the watchdog what it had to do.
LEMMA TakeWaking ==
    ASSUME TypeOK, NEW tag, Take(tag), tag \notin {"died", "restart"},
           UNCHANGED <<events, timers>>
    PROVE  Waking => Waking'
<1>1. at = "idle" /\ \A y : Has(work, y) => Has(work', y) \/ tag = y
    BY TakeType DEF Take
<1> QED BY <1>1 DEF Waking

LEMMA PushWaking ==
    ASSUME TypeOK, NEW tag \in Tags, Push(tag), UNCHANGED <<events, timers, at>>
    PROVE  Waking => Waking'
BY PushType DEF Waking

\* The handlers of items, but the two that start a restart.
Ordinary ==
    \/ OnConnected \/ OnDisconnected \/ OnResume \/ OnMesh \/ OnBeat \/ OnNotice
    \/ OnCanary \/ \E f \in Flight : OnDone(f)

LEMMA OrdinaryHarmless == ASSUME TypeOK, Ordinary PROVE Harmless
<1>1. CASE OnConnected
    <2>1. CASE overdue
        BY <1>1, <2>1 DEF OnConnected, Harmless
    <2>2. CASE ~overdue /\ room
        BY <1>1, <2>2 DEF OnConnected, CallEngine, Harmless, TypeOK
    <2>3. CASE ~overdue /\ ~room
        BY <1>1, <2>3 DEF OnConnected, Harmless, session, process
    <2> QED BY <2>1, <2>2, <2>3
<1>2. CASE OnDisconnected
    BY <1>2 DEF OnDisconnected, TunnelDown, Harmless, process
<1>3. CASE OnResume
    BY <1>3 DEF OnResume, Deadlines, Harmless, session, process
<1>4. CASE OnMesh
    BY <1>4 DEF OnMesh, PeersRead, CallEngine, Harmless, session, process
<1>5. CASE OnBeat
    BY <1>5 DEF OnBeat, Deadlines, Harmless, session, process
<1>6. CASE OnNotice
    BY <1>6 DEF OnNotice, Harmless, session, process
<1>7. CASE OnCanary
    BY <1>7 DEF OnCanary, Harmless, session, process
<1>8. CASE \E f \in Flight : OnDone(f)
    BY <1>8 DEF OnDone, Harmless, session, process
<1> QED BY <1>1, <1>2, <1>3, <1>4, <1>5, <1>6, <1>7, <1>8 DEF Ordinary

LEMMA OrdinaryWaking ==
    ASSUME TypeOK, Ordinary
    PROVE  (Waking => Waking') /\ at = "idle" /\ lost' = lost
<1>1. \E tag : Take(tag) /\ tag \notin {"died", "restart"}
    <2>1. \A f \in Flight : DoneTag[f] \notin {"died", "restart"}
        BY DoneTagsDiffer DEF EngineNews
    <2> QED
        BY <2>1 DEF Ordinary, OnConnected, OnDisconnected, OnResume, OnMesh, OnBeat,
            OnNotice, OnCanary, OnDone
<1>2. UNCHANGED <<events, timers, lost>>
    BY DEF Ordinary, OnConnected, OnDisconnected, OnResume, OnMesh, OnBeat, OnNotice,
        OnCanary, OnDone, news, ladder
<1> QED BY <1>1, <1>2, TakeWaking DEF Take

\* The rest of the dispatcher's steps, and those who feed it: each is harmless to
\* the session, and what the watchdog had to do it has still to do, or is the
\* last call of a restart, or the room's end.
Feeding == Drain \/ TimerFires \/ (\E f \in Flight : Land(f)) \/ (\E s \in Source : Arrive(s))

LEMMA FeedingKeeps ==
    ASSUME TypeOK, Feeding
    PROVE  Harmless /\ (Waking => Waking') /\ at' = at /\ lost' = lost
<1>1. CASE Drain
    <2>1. /\ work \in Seq(Tags) /\ events \in Seq(EngineNews) /\ events # <<>>
          /\ work' = Append(work, Head(events)) /\ events' = Tail(events)
        BY <1>1 DEF Drain, Push, TypeOK
    <2>2. Head(events) \in Tags
        BY <2>1, TailKeeps DEF Tags
    <2>3. \A y : Has(work, y) => Has(work', y)
        BY <2>1, <2>2, AppendKeeps
    <2>4. Has(events, "died") => Has(events', "died") \/ Has(work', "died")
        BY <2>1, <2>2, TailKeeps, AppendKeeps
    <2>5. UNCHANGED <<at, timers>>
        BY <1>1 DEF Drain, handler, ladder
    <2>6. Waking => Waking'
        BY <2>3, <2>4, <2>5 DEF Waking
    <2> QED BY <1>1, <2>6 DEF Drain, Harmless, handler, session, process
<1>2. CASE TimerFires
    <2>1. Has(work', "restart")
        BY <1>2, PushType DEF TimerFires, Tags
    <2>2. Waking'
        BY <2>1 DEF Waking
    <2> QED BY <1>2, <2>2 DEF TimerFires, Harmless, handler, news, session, process
<1>3. CASE \E f \in Flight : Land(f)
    <2>1. PICK f \in Flight : Land(f)
        BY <1>3
    <2>2. Waking => Waking'
        BY <2>1, DoneTagsDiffer, PushWaking DEF Land, news, ladder, handler
    <2> QED BY <2>1, <2>2 DEF Land, Harmless, handler, news, session, process
<1>4. CASE \E s \in Source : Arrive(s)
    <2>1. PICK s \in Source : Arrive(s)
        BY <1>4
    <2>2. s \in Tags
        BY <2>1, SourceAssumption DEF Tags
    <2>3. Waking => Waking'
        BY <2>1, <2>2, PushWaking DEF Arrive, news, ladder, handler
    <2> QED BY <2>1, <2>3 DEF Arrive, Harmless, handler, news, session, process
<1> QED BY <1>1, <1>2, <1>3, <1>4 DEF Feeding

\* A death or its item starts something; a restart goes on to its last call.
Restarting == OnDied \/ Schedule \/ OnRestart \/ RestartStop \/ RestartStart

LEMMA RestartingWakes == ASSUME TypeOK, Restarting PROVE Waking'
<1>1. CASE Schedule
    <2>1. timers' > 0
        BY <1>1 DEF Schedule, TypeOK
    <2> QED BY <2>1 DEF Waking
<1>2. CASE OnDied \/ OnRestart \/ RestartStop \/ RestartStart
    <2>1. at' \in {"stop", "start", "await", "schedule"}
        BY <1>2 DEF OnDied, OnRestart, RestartStop, RestartStart
    <2> QED BY <2>1 DEF Waking
<1> QED BY <1>1, <1>2 DEF Restarting

\* What the session's room is after them: what it was, or none.
LEMMA RestartingOrder == ASSUME OrderInv, Restarting PROVE OrderInv'
<1>1. CASE OnDied
    <2>1. \/ ~room' /\ user' = "idle"
          \/ UNCHANGED <<room, last, user>>
        BY <1>1 DEF OnDied, TunnelDown, LeaveRoom, RoomCleared, SessionFree, process
    <2> QED BY <2>1 DEF OrderInv
<1>2. CASE Schedule \/ OnRestart \/ RestartStop \/ RestartStart
    <2>1. UNCHANGED <<room, last, user>>
        BY <1>2 DEF Schedule, OnRestart, RestartStop, RestartStart, session, process
    <2> QED BY <2>1 DEF OrderInv
<1> QED BY <1>1, <1>2 DEF Restarting

\* A death is news, or was one too many, when there is a room to tell.
LEMMA DieWakes ==
    ASSUME TypeOK, Die, last
    PROVE  Waking' \/ lost'
BY EmitType DEF Die, EngineNews, Waking

\* The other steps of the engine and of the clock.
LEMMA AsideKeeps ==
    ASSUME TypeOK, Connect \/ Disconnect \/ Poll \/ TimePasses \/ Reread
    PROVE  /\ Harmless /\ (Waking => Waking') /\ (lost => lost')
           /\ (at = "back" => at' = at)
<1>1. CASE Connect \/ Disconnect
    <2>1. (lost => lost') /\ (Has(events, "died") => Has(events', "died"))
        BY <1>1, EmitType DEF Connect, Disconnect, EngineNews
    <2>2. UNCHANGED <<work, at, timers>>
        BY <1>1 DEF Connect, Disconnect, handler, ladder
    <2>3. Harmless
        BY <1>1 DEF Connect, Disconnect, Harmless, session, process
    <2> QED BY <2>1, <2>2, <2>3 DEF Waking
<1>2. CASE Poll \/ TimePasses
    BY <1>2 DEF Poll, TimePasses, CallEngine, Harmless, Waking, handler, ladder, news,
        session, process
<1>3. CASE Reread
    <2>1. Harmless
        BY <1>3 DEF Reread, PeersRead, CallEngine, Harmless, session, process
    <2>2. at = "reread" /\ UNCHANGED <<work, timers, events, lost>>
        BY <1>3 DEF Reread, ladder, news
    <2> QED BY <2>1, <2>2 DEF Waking
<1> QED BY <1>1, <1>2, <1>3

\* When it gives up there is no room any more, and nobody is opening one.
LEMMA GiveUpEnds == ASSUME GiveUp PROVE ~room' /\ user' = "idle"
BY DEF GiveUp, LeaveRoom, RoomCleared, SessionFree, session

LEMMA NoRoomNoWorry ==
    ASSUME ~room', user' \in {"idle", "leaving"}
    PROVE  OrderInv' /\ AwakeInv' /\ GateInv'
BY DEF OrderInv, AwakeInv, GateInv, InRoom

\* Nothing of what is kept changes.
LEMMA StutterKeeps ==
    ASSUME UNCHANGED vars
    PROVE  (OrderInv => OrderInv') /\ (AwakeInv => AwakeInv') /\ (GateInv => GateInv')
BY DEF vars, handler, ladder, process, news, session, OrderInv, AwakeInv, GateInv, InRoom,
       Waking, Has

LEMMA AwakeStep ==
    ASSUME "panic" \notin Fault, TypeOK, OrderInv, AwakeInv, [Next]_vars
    PROVE  OrderInv' /\ AwakeInv'
<1>1. CASE Ordinary
    BY <1>1, OrdinaryHarmless, OrdinaryWaking, HarmlessKeeps
<1>2. CASE Restarting
    BY <1>2, RestartingWakes, RestartingOrder DEF AwakeInv
<1>3. CASE GiveUp
    BY <1>3, GiveUpEnds, NoRoomNoWorry
<1>4. CASE RestartAwait
    <2>1. UNCHANGED <<room, last, user, up>>
        BY <1>4 DEF RestartAwait, session, process
    <2>2. up \/ at' = "schedule"
        BY <1>4 DEF RestartAwait
    <2> QED BY <2>1, <2>2 DEF OrderInv, AwakeInv, Waking
<1>5. CASE RestartBack
    <2>1. UNCHANGED <<room, last, user, up, lost, work, events, timers>> /\ at = "back"
        BY <1>5 DEF RestartBack, process, news, ladder
    <2>2. Waking => Waking'
        BY <2>1 DEF Waking
    <2> QED BY <2>1, <2>2 DEF OrderInv, AwakeInv, InRoom
<1>6. CASE Feeding
    BY <1>6, FeedingKeeps, HarmlessKeeps
<1>7. CASE Connect \/ Disconnect \/ Poll \/ TimePasses \/ Reread
    BY <1>7, AsideKeeps, HarmlessKeeps
<1>8. CASE Die
    <2>1. UNCHANGED <<room, last, user>>
        BY <1>8 DEF Die, session
    <2>2. OrderInv'
        BY <2>1 DEF OrderInv
    <2>3. CASE last
        BY <1>8, <2>2, <2>3, DieWakes DEF AwakeInv
    <2>4. CASE ~last
        BY <2>1, <2>2, <2>4 DEF OrderInv, AwakeInv, InRoom
    <2> QED BY <2>3, <2>4
<1>9. CASE Open \/ OpenKept \/ OpenBound
    <2>1. OrderInv'
        BY <1>9 DEF Open, OpenKept, OpenBound, OrderInv, session, process
    <2>2. ~room' /\ (user' = "opened" => up')
        BY <1>9 DEF Open, OpenKept, OpenBound, OrderInv, session, process
    <2> QED BY <2>1, <2>2 DEF AwakeInv, InRoom
<1>10. CASE OpenDone
    <2>1. /\ user = "opened" /\ user' = "idle"
          /\ UNCHANGED <<last, up, at, work, timers, events, lost>>
        BY <1>10 DEF OpenDone, process, handler, ladder, news
    <2>2. Waking => Waking'
        BY <2>1 DEF Waking
    <2> QED BY <2>1, <2>2 DEF OrderInv, AwakeInv, InRoom
<1>11. CASE OpenFails \/ Leave
    <2>1. EngineLeft /\ up' = up
        BY <1>11 DEF OpenFails, Leave
    <2>2. CASE user' = "leaving"
        BY <2>2 DEF OrderInv, AwakeInv
    <2>3. CASE ~room' /\ user' = "idle"
        BY <2>3, NoRoomNoWorry
    <2> QED BY <2>1, <2>2, <2>3 DEF EngineLeft, RoomCleared
<1>12. CASE LeaveSent
    BY <1>12, NoRoomNoWorry DEF LeaveSent, RoomCleared
<1>13. CASE UNCHANGED vars
    BY <1>13, StutterKeeps
<1> QED
    BY <1>1, <1>2, <1>3, <1>4, <1>5, <1>6, <1>7, <1>8, <1>9, <1>10, <1>11, <1>12, <1>13
    DEF Next, Dispatch, Order, Ordinary, Restarting, Feeding, Panic

LEMMA GateStep ==
    ASSUME Fault \cap {"panic", "bind"} = {}, TypeOK, OrderInv, GateInv, [Next]_vars
    PROVE  GateInv'
<1>1. CASE Ordinary
    BY <1>1, OrdinaryHarmless, OrdinaryWaking, HarmlessToGate
<1>2. CASE Restarting
    BY <1>2, RestartingWakes DEF GateInv
<1>3. CASE GiveUp
    BY <1>3, GiveUpEnds, NoRoomNoWorry
<1>4. CASE RestartAwait
    <2>1. at' = "back" \/ at' = "schedule"
        BY <1>4 DEF RestartAwait
    <2> QED BY <2>1 DEF GateInv, Waking
<1>5. CASE RestartBack
    <2>1. UNCHANGED <<room, user, up>> /\ user = "idle"
        BY <1>5 DEF RestartBack, process, SessionFree
    <2>2. room /\ up => bound'
        BY <1>5 DEF RestartBack
    <2> QED BY <2>1, <2>2 DEF GateInv, InRoom
<1>6. CASE Feeding
    BY <1>6, FeedingKeeps, HarmlessToGate
<1>7. CASE Connect \/ Disconnect \/ Poll \/ TimePasses \/ Reread
    BY <1>7, AsideKeeps, HarmlessToGate
<1>8. CASE Die
    BY <1>8 DEF Die, GateInv
<1>9. CASE Open \/ OpenKept \/ OpenBound
    <2>1. ~room' /\ (user' = "opened" => bound')
        BY <1>9 DEF Open, OpenKept, OpenBound, OrderInv, session, process
    <2> QED BY <2>1 DEF GateInv, InRoom
<1>10. CASE OpenDone
    <2>1. /\ user = "opened" /\ user' = "idle"
          /\ UNCHANGED <<up, bound, at, work, timers, events>>
        BY <1>10 DEF OpenDone, process, handler, ladder, news
    <2>2. Waking => Waking'
        BY <2>1 DEF Waking
    <2> QED BY <2>1, <2>2 DEF GateInv, InRoom
<1>11. CASE OpenFails \/ Leave
    <2>1. EngineLeft
        BY <1>11 DEF OpenFails, Leave
    <2>2. CASE user' = "leaving"
        BY <2>2 DEF GateInv
    <2>3. CASE ~room' /\ user' = "idle"
        BY <2>3, NoRoomNoWorry
    <2> QED BY <2>1, <2>2, <2>3 DEF EngineLeft, RoomCleared
<1>12. CASE LeaveSent
    BY <1>12, NoRoomNoWorry DEF LeaveSent, RoomCleared
<1>13. CASE UNCHANGED vars
    BY <1>13, StutterKeeps
<1> QED
    BY <1>1, <1>2, <1>3, <1>4, <1>5, <1>6, <1>7, <1>8, <1>9, <1>10, <1>11, <1>12, <1>13
    DEF Next, Dispatch, Order, Ordinary, Restarting, Feeding, Panic

LEMMA AwakeInit == Init => OrderInv /\ AwakeInv /\ GateInv
BY DEF Init, OrderInv, AwakeInv, GateInv, InRoom

\* Without panics a room whose network no process carries is never forgotten,
\* whatever fails, dies, is programmed twice or fires in another room.
THEOREM WatchdogStaysAwake ==
    ASSUME "panic" \notin Fault
    PROVE  Spec => []WatchdogAwake
<1>1. Init => TypeOK /\ OrderInv /\ AwakeInv
    BY TypeInit, AwakeInit
<1>2. (TypeOK /\ OrderInv /\ AwakeInv) /\ [Next]_vars => (TypeOK /\ OrderInv /\ AwakeInv)'
    BY TypeStep, AwakeStep
<1>3. AwakeInv => WatchdogAwake
    BY DEF AwakeInv, InRoom, Waking, Has, WatchdogAwake, Awake, RestartUnderWay, Queued
<1> QED BY <1>1, <1>2, <1>3, PTL DEF Spec

\* Without panics and with a gate that can be bound, a network that is up on an
\* adapter the gate does not follow is on its way to OnEngineRestarted.
THEOREM GateIsNotForgotten ==
    ASSUME Fault \cap {"panic", "bind"} = {}
    PROVE  Spec => []GateFollows
<1>1. Init => TypeOK /\ OrderInv /\ AwakeInv /\ GateInv
    BY TypeInit, AwakeInit
<1>2. (TypeOK /\ OrderInv /\ AwakeInv /\ GateInv) /\ [Next]_vars
        => (TypeOK /\ OrderInv /\ AwakeInv /\ GateInv)'
    BY TypeStep, AwakeStep, GateStep
<1>3. GateInv => GateFollows
    BY DEF GateInv, InRoom, Waking, Has, GateFollows, Awake, RestartUnderWay, Queued
<1> QED BY <1>1, <1>2, <1>3, PTL DEF Spec
=============================================================================
