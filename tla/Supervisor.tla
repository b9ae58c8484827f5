----------------------------- MODULE Supervisor -----------------------------
(***************************************************************************)
(* What keeps the daemon running: the supervisor of daemon/service, which  *)
(* drains every channel into one queue and handles its items one at a      *)
(* time, with the engine adapter it restarts (adapter/engine/kanpachi) and *)
(* what it can see of the session's room.                                  *)
(*                                                                         *)
(* The dispatcher is one goroutine, but its handlers are not atomic: a     *)
(* restart takes a minute and holds neither Session.mu nor, between two    *)
(* orders, the adapter's mutex.  A user's order, the death of the engine,  *)
(* the watcher's polls and the timers all get in between.  What a handler  *)
(* does with Session.mu held is one step.                                  *)
(*                                                                         *)
(* The room's network is the only one here: a restart repeats the lobby's  *)
(* order after it and goes on when that fails.  The clock is the tunnel's: *)
(* a guest has others, and rejoins that repeat the order, which belong to  *)
(* the guest's session.  Channels are never closed or replaced before the  *)
(* daemon ends, so subscribing again changes nothing and is left out.      *)
(***************************************************************************)
EXTENDS Integers, Sequences

CONSTANTS
    WorkCap,      \* capacity of the work queue, 64 in the code
    EventCap,     \* engine events waiting to enter it: 32, and one in the drain's hand
    MaxRestarts,  \* the rungs of the ladder, 8 in the code
    Source,       \* the other channels that bring items, out of Sources
    Flight,       \* the long jobs run beside the dispatcher, out of Flights
    Fault,        \* what may fail in this instance, out of FaultKinds
    MaxUpset,     \* bound of the model: deaths and disconnections
    MaxOpen,      \* bound of the model: rooms opened
    MaxResume     \* bound of the model: wake-ups and network changes

Sources == {"beat", "sweep", "notice", "canary", "resume", "mesh"}
Flights == {"canary", "rejoin", "return"}
FaultKinds == {
    "start",      \* a network that is asked for does not come up
    "address",    \* it does, and its address is not seen in time
    "bind",       \* the gate cannot be bound to the new adapter
    "panic" }     \* a handler panics: its item, or its rest, is lost

ASSUME CapacityAssumption == WorkCap \in Nat \ {0} /\ EventCap \in Nat
ASSUME LadderAssumption   == MaxRestarts \in Nat
ASSUME SourceAssumption   == Source \subseteq Sources /\ Flight \subseteq Flights
ASSUME FaultAssumption    == Fault \subseteq FaultKinds
ASSUME BoundAssumption    == MaxUpset \in Nat /\ MaxOpen \in Nat /\ MaxResume \in Nat

VARIABLES
    work,      \* the queue of items
    at,        \* where the handler that is running is, "idle" without one
    resuming,  \* that handler is revalidar
    intentos,  \* rungs of the ladder climbed
    timers,    \* restarts programmed whose timer has not delivered yet
    flag,      \* canarioVivo, reingresoVivo, vueltaViva
    flying,    \* goroutines of each of these jobs
    alive,     \* e.proc: the adapter has an engine process
    up,        \* that process carries the room's network
    said,      \* it has emitted connected for that network
    last,      \* e.last: the adapter keeps the order that started the room
    events,    \* engine events the drain has not moved yet
    lost,      \* a death has been discarded because they were too many
    room,      \* the session is in a room: Conn.InRoom()
    down,      \* its TunnelDown(): ReconnectingSince is set
    overdue,   \* that was ReconnectLimit ago
    bound,     \* the gate is bound to the adapter the room has now
    user,      \* the order of the user that holds Session.mu
    upsets, opens, resumes

handler == <<at, resuming>>
ladder  == <<intentos, timers>>
flights == <<flag, flying>>
process == <<alive, up, said, last>>
news    == <<events, lost>>
session == <<room, down, overdue, bound>>
counts  == <<upsets, opens, resumes>>
vars    == <<work, handler, ladder, flights, process, news, session, user, counts>>
-----------------------------------------------------------------------------
(* Items, and the queue they go through.                                   *)

DoneTag == [canary |-> "canaryDone", rejoin |-> "rejoinDone", return |-> "returnDone"]
EngineNews == {"connected", "disconnected", "died"}
DoneTags == {DoneTag[f] : f \in Flights}
Tags == Sources \cup EngineNews \cup DoneTags \cup {"restart"}
Places == {"idle", "stop", "start", "await", "back", "schedule", "reread"}

Queued(tag) == \E i \in 1..Len(work) : work[i] = tag

Push(tag) == Len(work) < WorkCap /\ work' = Append(work, tag)

\* The dispatcher takes the next item.
Take(tag) == at = "idle" /\ work # <<>> /\ Head(work) = tag /\ work' = Tail(work)

\* No order of the user has Session.mu.
SessionFree == user = "idle"

Init ==
    /\ work = <<>> /\ at = "idle" /\ resuming = FALSE
    /\ intentos = 0 /\ timers = 0
    /\ flag = [f \in Flight |-> FALSE] /\ flying = [f \in Flight |-> 0]
    /\ alive = FALSE /\ up = FALSE /\ said = FALSE /\ last = FALSE
    /\ events = <<>> /\ lost = FALSE
    /\ room = FALSE /\ down = FALSE /\ overdue = FALSE /\ bound = FALSE
    /\ user = "idle"
    /\ upsets = 0 /\ opens = 0 /\ resumes = 0
-----------------------------------------------------------------------------
(* The session's room, as the supervisor's calls change it.                *)

\* Idle clears the room, and with it both clocks and the gate.
RoomCleared == room' = FALSE /\ down' = FALSE /\ overdue' = FALSE /\ bound' = FALSE

\* leaveLocked from a handler: Engine.Leave forgets the order and takes the
\* network down; without a process there is nothing to take down.
LeaveRoom == RoomCleared /\ last' = FALSE /\ up' = FALSE /\ UNCHANGED <<alive, said>>

\* Any order starts a process when there is none (ensureLocked).
CallEngine == alive' = TRUE /\ UNCHANGED <<up, said, last>>

\* enforceDeadlinesLocked: out of the room when the tunnel was away too long.
Deadlines ==
    IF overdue THEN LeaveRoom ELSE UNCHANGED <<session, process>>

\* OnPeersChanged: the deadlines, and the members read again.
PeersRead ==
    IF overdue THEN LeaveRoom
    ELSE /\ UNCHANGED session
         /\ IF room THEN CallEngine ELSE UNCHANGED process

\* Mutant of Launch: the flag is raised without being read.
Bug_Launch(jobs) ==
    /\ flag' = [f \in Flight |-> flag[f] \/ f \in jobs]
    /\ flying' = [f \in Flight |-> IF f \in jobs THEN flying[f] + 1 ELSE flying[f]]

\* A job is launched unless it is already flying; the flag is the dispatcher's.
Launch(jobs) ==
    /\ flag' = [f \in Flight |-> flag[f] \/ f \in jobs]
    /\ flying' = [f \in Flight |-> IF f \in jobs /\ ~flag[f] THEN flying[f] + 1
                                   ELSE flying[f]]

\* An event of the adapter, discarded when no more fit (emitLocked).
Emit(event) ==
    IF Len(events) < EventCap
    THEN events' = Append(events, event) /\ UNCHANGED lost
    ELSE lost' = (lost \/ event = "died") /\ UNCHANGED events
-----------------------------------------------------------------------------
(* The dispatcher: what it does with an item.                              *)

\* The handler is over; revalidar still has to read the members again.
HandlerOver == at' = (IF resuming THEN "reread" ELSE "idle") /\ UNCHANGED resuming

\* evento(EngineConnected): the ladder starts again and the tunnel is up.
OnConnected ==
    /\ Take("connected") /\ SessionFree
    /\ intentos' = 0
    /\ IF overdue THEN LeaveRoom
       ELSE IF room
       THEN /\ down' = FALSE /\ overdue' = FALSE
            /\ bound' \in {bound, bound \/ up}
            /\ CallEngine /\ UNCHANGED room
       ELSE UNCHANGED <<session, process>>
    /\ UNCHANGED <<handler, timers, flights, news, user, counts>>

\* tunnelDownLocked, unless a deadline or the lack of a room says otherwise.
TunnelDown ==
    IF overdue THEN LeaveRoom
    ELSE down' = room /\ UNCHANGED <<room, overdue, bound, process>>

\* The engine is alive and lost its network: the clock starts, nothing else.
OnDisconnected ==
    /\ Take("disconnected") /\ SessionFree /\ TunnelDown
    /\ UNCHANGED <<handler, ladder, flights, news, user, counts>>

\* evento(EngineDied): the same, and a restart is programmed.
OnDied ==
    /\ Take("died") /\ SessionFree /\ TunnelDown
    /\ at' = "schedule"
    /\ UNCHANGED <<resuming, ladder, flights, news, user, counts>>

\* Mutant of Schedule: the rung is taken and not counted.
Bug_Schedule ==
    /\ at = "schedule" /\ intentos < MaxRestarts
    /\ timers' = timers + 1
    /\ HandlerOver
    /\ UNCHANGED <<work, intentos, flights, process, news, session, user, counts>>

\* programarReinicio: a timer for the next rung.
Schedule ==
    /\ at = "schedule" /\ intentos < MaxRestarts
    /\ intentos' = intentos + 1 /\ timers' = timers + 1
    /\ HandlerOver
    /\ UNCHANGED <<work, flights, process, news, session, user, counts>>

\* rendirse: the ladder is used up, OnEngineGaveUp closes the room.
GiveUp ==
    /\ at = "schedule" /\ intentos >= MaxRestarts /\ SessionFree
    /\ IF room THEN LeaveRoom ELSE UNCHANGED <<session, process>>
    /\ intentos' = 0
    /\ HandlerOver
    /\ UNCHANGED <<work, timers, flights, news, user, counts>>

OnRestart ==
    /\ Take("restart")
    /\ at' = "stop"
    /\ UNCHANGED <<resuming, ladder, flights, process, news, session, user, counts>>

\* Engine.Restart under its mutex: the order is read and the process stopped,
\* whose death is then no news.
RestartStop ==
    /\ at = "stop"
    /\ IF last THEN /\ alive' = FALSE /\ up' = FALSE
                    /\ at' = "start"
               ELSE at' = "schedule" /\ UNCHANGED <<alive, up>>
    /\ UNCHANGED <<work, resuming, ladder, flights, said, last, news, session, user, counts>>

\* Mutant of RestartStart: a restart that fails programs no other one.
Bug_RestartStart ==
    /\ at = "start"
    /\ \/ /\ alive' = TRUE /\ up' = TRUE /\ said' = FALSE /\ bound' = FALSE
          /\ at' = "await" /\ UNCHANGED resuming
       \/ /\ "start" \in Fault
          /\ alive' \in {alive, TRUE} /\ HandlerOver
          /\ UNCHANGED <<up, said, bound>>
    /\ UNCHANGED <<work, ladder, flights, last, news, room, down, overdue, user, counts>>

\* The order that was read is repeated, to a new process or to whichever
\* process there is by now.
RestartStart ==
    /\ at = "start"
    /\ \/ /\ alive' = TRUE /\ up' = TRUE /\ said' = FALSE /\ bound' = FALSE
          /\ at' = "await"
       \/ /\ "start" \in Fault
          /\ alive' \in {alive, TRUE} /\ at' = "schedule"
          /\ UNCHANGED <<up, said, bound>>
    /\ UNCHANGED <<work, resuming, ladder, flights, last, news, room, down, overdue, user, counts>>

\* awaitAddress, over when the adapter has its address or the wait has failed.
RestartAwait ==
    /\ at = "await"
    /\ \/ up /\ at' = "back"
       \/ (~up \/ "address" \in Fault) /\ at' = "schedule"
    /\ UNCHANGED <<work, resuming, ladder, flights, process, news, session, user, counts>>

\* Mutant of RestartBack: the session is not told that the engine is back.
Bug_RestartBack ==
    /\ at = "back" /\ HandlerOver
    /\ UNCHANGED <<work, ladder, flights, process, news, session, user, counts>>

\* OnEngineRestarted: the gate is bound to the new adapter.
RestartBack ==
    /\ at = "back" /\ SessionFree
    /\ bound' \in (IF ~room THEN {bound}
                   ELSE {bound \/ up} \cup (IF "bind" \in Fault THEN {bound} ELSE {}))
    /\ HandlerOver
    /\ UNCHANGED <<work, ladder, flights, process, news, room, down, overdue, user, counts>>

\* revalidar, after a wake-up or a change of network: Tick, and the engine is
\* restarted when the tunnel is down.
OnResume ==
    /\ Take("resume") /\ SessionFree /\ Deadlines
    /\ at' = (IF down' THEN "stop" ELSE "reread")
    /\ resuming' = TRUE
    /\ UNCHANGED <<ladder, flights, news, user, counts>>

\* The last call of revalidar.
Reread ==
    /\ at = "reread" /\ SessionFree /\ PeersRead
    /\ at' = "idle" /\ resuming' = FALSE
    /\ UNCHANGED <<work, ladder, flights, news, user, counts>>

\* The watcher, or an event of the engine, says that the mesh moved.
OnMesh ==
    /\ Take("mesh") /\ SessionFree /\ PeersRead
    /\ UNCHANGED <<handler, ladder, flights, news, user, counts>>

\* Mutant of OnBeat: a beat only looks for what is due.
Bug_OnBeat ==
    /\ Take("beat") /\ SessionFree
    /\ \E due \in SUBSET (Flight \cap {IF room THEN "rejoin" ELSE "return"}) : Launch(due)
    /\ UNCHANGED <<handler, ladder, process, session, news, user, counts>>

\* latido: Tick first, and then the two ways of coming back, which the session
\* says are due only inside a room and only outside of one.
OnBeat ==
    /\ Take("beat") /\ SessionFree /\ Deadlines
    /\ \E due \in SUBSET (Flight \cap {IF room' THEN "rejoin" ELSE "return"}) : Launch(due)
    /\ UNCHANGED <<handler, ladder, news, user, counts>>

\* A notice of the host, which may be that this machine is out of the room.
OnNotice ==
    /\ Take("notice") /\ SessionFree
    /\ \/ room /\ LeaveRoom
       \/ UNCHANGED <<session, process>>
    /\ \E due \in SUBSET (Flight \cap (IF room' THEN {"rejoin"} ELSE {})) : Launch(due)
    /\ UNCHANGED <<handler, ladder, news, user, counts>>

\* The sweep, and the two requests for a round that come through a channel.
OnCanary ==
    /\ (Take("sweep") /\ SessionFree) \/ Take("canary")
    /\ Launch({"canary"})
    /\ UNCHANGED <<handler, ladder, process, news, session, user, counts>>

\* A job is over: its flag comes down where it went up.
OnDone(f) ==
    /\ Take(DoneTag[f])
    /\ flag' = [flag EXCEPT ![f] = FALSE]
    /\ UNCHANGED <<handler, ladder, flying, process, news, session, user, counts>>

\* atender's recover: what panics loses its item, or what was left of it.
\* Lowering a flag cannot panic.
Panic ==
    /\ "panic" \in Fault
    /\ \/ /\ at = "idle" /\ work # <<>> /\ Head(work) \notin DoneTags
          /\ work' = Tail(work) /\ UNCHANGED handler
       \/ /\ at # "idle" /\ at' = "idle" /\ resuming' = FALSE
          /\ UNCHANGED work
    /\ UNCHANGED <<ladder, flights, process, news, session, user, counts>>

Dispatch ==
    \/ OnConnected \/ OnDisconnected \/ OnDied \/ Schedule \/ GiveUp
    \/ OnRestart \/ RestartStop \/ RestartStart \/ RestartAwait \/ RestartBack
    \/ OnResume \/ Reread \/ OnMesh \/ OnBeat \/ OnNotice \/ OnCanary
    \/ \E f \in Flight : OnDone(f)
-----------------------------------------------------------------------------
(* The goroutines that feed the queue.  Each waits for a place in it.      *)

\* drenar, of the engine's channel.
Drain ==
    /\ events # <<>> /\ Push(Head(events)) /\ events' = Tail(events)
    /\ UNCHANGED <<handler, ladder, flights, process, lost, session, user, counts>>

\* The timer of a rung.
TimerFires ==
    /\ timers > 0 /\ Push("restart") /\ timers' = timers - 1
    /\ UNCHANGED <<handler, intentos, flights, process, news, session, user, counts>>

\* Mutant of Land: the end of a job is not told to a queue that is full.
Bug_Land(f) ==
    /\ flying[f] > 0
    /\ IF Len(work) < WorkCap THEN Push(DoneTag[f]) ELSE UNCHANGED work
    /\ flying' = [flying EXCEPT ![f] = @ - 1]
    /\ UNCHANGED <<handler, ladder, flag, process, news, session, user, counts>>

\* A job ends, with or without a panic of its own.
Land(f) ==
    /\ flying[f] > 0 /\ Push(DoneTag[f])
    /\ flying' = [flying EXCEPT ![f] = @ - 1]
    /\ UNCHANGED <<handler, ladder, flag, process, news, session, user, counts>>

\* The tickers, and the other drains.
Arrive(source) ==
    /\ Push(source)
    /\ IF source = "resume" THEN resumes < MaxResume /\ resumes' = resumes + 1
                            ELSE UNCHANGED resumes
    /\ UNCHANGED <<handler, ladder, flights, process, news, session, user, upsets, opens>>
-----------------------------------------------------------------------------
(* The engine's process, and the clock of the session.                     *)

\* Mutant of Die: only the death of an engine that had connected is news.
Bug_Die ==
    /\ alive /\ upsets < MaxUpset /\ upsets' = upsets + 1
    /\ alive' = FALSE /\ up' = FALSE
    /\ IF last /\ said THEN Emit("died") ELSE UNCHANGED news
    /\ UNCHANGED <<work, handler, ladder, flights, said, last, session, user, opens, resumes>>

\* reap: a death is news when there was a room to carry.
Die ==
    /\ alive /\ upsets < MaxUpset /\ upsets' = upsets + 1
    /\ alive' = FALSE /\ up' = FALSE
    /\ IF last THEN Emit("died") ELSE UNCHANGED news
    /\ UNCHANGED <<work, handler, ladder, flights, said, last, session, user, opens, resumes>>

\* read: the engine says that it has, or has lost, its network.
Connect ==
    /\ up /\ ~said /\ said' = TRUE /\ Emit("connected")
    /\ UNCHANGED <<work, handler, ladder, flights, alive, up, last, session, user, counts>>

Disconnect ==
    /\ up /\ upsets < MaxUpset /\ upsets' = upsets + 1
    /\ Emit("disconnected")
    /\ UNCHANGED <<work, handler, ladder, flights, process, session, user, opens, resumes>>

\* The mesh watcher asks for the members once per second, in a room or not.
Poll ==
    /\ ~alive /\ CallEngine
    /\ UNCHANGED <<work, handler, ladder, flights, news, session, user, counts>>

\* ReconnectLimit passes without a tunnel.
TimePasses ==
    /\ room /\ down /\ ~overdue /\ overdue' = TRUE
    /\ UNCHANGED <<work, handler, ladder, flights, process, news, room, down, bound, user, counts>>
-----------------------------------------------------------------------------
(* The user's orders, which hold Session.mu to their end.                  *)

\* HostNetwork or JoinWithCredential: the engine has answered the order.
Open ==
    /\ ~room /\ SessionFree /\ opens < MaxOpen /\ opens' = opens + 1
    /\ alive' = TRUE /\ up' = TRUE /\ said' = FALSE
    /\ user' = "starting"
    /\ UNCHANGED <<work, handler, ladder, flights, last, news, session, upsets, resumes>>

\* startCall keeps the order for Restart.
OpenKept ==
    /\ user = "starting" /\ last' = TRUE /\ user' = "awaiting"
    /\ UNCHANGED <<work, handler, ladder, flights, alive, up, said, news, session, counts>>

\* The adapter has its address and the gate is bound to it.
OpenBound ==
    /\ user = "awaiting" /\ up
    /\ bound' = TRUE /\ user' = "opened"
    /\ UNCHANGED <<work, handler, ladder, flights, process, news, room, down, overdue, counts>>

\* This machine is in a room, whatever its engine has done since.
OpenDone ==
    /\ user = "opened" /\ room' = TRUE /\ user' = "idle"
    /\ UNCHANGED <<work, handler, ladder, flights, process, news, down, overdue, bound, counts>>

\* Engine.Leave under its mutex: the order is forgotten, and without a process
\* that is all.
EngineLeft ==
    /\ last' = FALSE
    /\ IF alive THEN user' = "leaving" /\ UNCHANGED session
                ELSE user' = "idle" /\ RoomCleared

OpenFails ==
    /\ user = "awaiting" /\ (~up \/ "address" \in Fault) /\ EngineLeft
    /\ UNCHANGED <<work, handler, ladder, flights, alive, up, said, news, counts>>

Leave ==
    /\ room /\ SessionFree /\ EngineLeft
    /\ UNCHANGED <<work, handler, ladder, flights, alive, up, said, news, counts>>

\* The order to leave reaches the process there is, or starts one.
LeaveSent ==
    /\ user = "leaving" /\ user' = "idle"
    /\ alive' = TRUE /\ up' = FALSE /\ RoomCleared
    /\ UNCHANGED <<work, handler, ladder, flights, said, last, news, counts>>

Order == OpenKept \/ OpenBound \/ OpenDone \/ OpenFails \/ LeaveSent
-----------------------------------------------------------------------------
Next ==
    \/ Dispatch \/ Panic \/ Drain \/ TimerFires
    \/ \E f \in Flight : Land(f)
    \/ \E s \in Source : Arrive(s)
    \/ Die \/ Connect \/ Disconnect \/ Poll \/ TimePasses
    \/ Open \/ Leave \/ Order

Spec == Init /\ [][Next]_vars

\* The dispatcher, an order under way and the clock go on; those who wait for a
\* place in the queue get it, because Go serves them in their order.
Fairness ==
    /\ WF_vars(Dispatch) /\ WF_vars(Order) /\ WF_vars(TimePasses)
    /\ SF_vars(Drain) /\ SF_vars(TimerFires)
    /\ \A f \in Flight : SF_vars(Land(f))
    /\ \A s \in Source \cap {"beat"} : SF_vars(Arrive(s))

FairSpec == Spec /\ Fairness
-----------------------------------------------------------------------------
\* The types of the variables; a flag of the session stands only in a room.
TypeOK ==
    /\ work \in Seq(Tags) /\ Len(work) <= WorkCap
    /\ at \in Places /\ resuming \in BOOLEAN
    /\ intentos \in 0..MaxRestarts /\ timers \in Nat
    /\ flag \in [Flight -> BOOLEAN] /\ flying \in [Flight -> Nat]
    /\ alive \in BOOLEAN /\ up \in BOOLEAN /\ said \in BOOLEAN /\ last \in BOOLEAN
    /\ events \in Seq(EngineNews) /\ Len(events) <= EventCap /\ lost \in BOOLEAN
    /\ room \in BOOLEAN /\ down \in BOOLEAN /\ overdue \in BOOLEAN /\ bound \in BOOLEAN
    /\ user \in {"idle", "starting", "awaiting", "opened", "leaving"}
    /\ upsets \in Nat /\ opens \in Nat /\ resumes \in Nat
    /\ up => alive
    /\ (down => room) /\ (overdue => down)

\* A restart is programmed, on its way or running.
RestartUnderWay ==
    timers > 0 \/ Queued("restart") \/ at \in {"stop", "start", "await", "back", "schedule"}

\* The news of a death, or what follows from it, has not come to its end.
Awake ==
    \/ \E i \in 1..Len(events) : events[i] = "died"
    \/ Queued("died")
    \/ RestartUnderWay
    \/ user = "leaving"

\* The watchdog does not fall asleep: a room whose network no process carries
\* has a death, a timer, a restart or the end of the room still to come, however
\* restarts, stale timers and the user's orders interleave, unless the death was
\* one event too many (fuenteCerrada's comment, reap, programarReinicio).
WatchdogAwake == (room /\ ~up) => (Awake \/ lost)

\* The gate follows the adapter: while the room's network is up on an adapter
\* the gate is not bound to, a restart is still to end in OnEngineRestarted, or
\* in another restart, or in the room's end.
GateFollows == room /\ up /\ ~bound => Awake

\* One job of each kind flies at a time, and only under its flag.
OneFlight == \A f \in Flight : flying[f] <= (IF flag[f] THEN 1 ELSE 0)

\* A room whose engine is dead gets it back or is closed.
DeadEngineResolved == (room /\ ~up) ~> (~room \/ up \/ lost)

\* ReconnectLimit is enforced, whatever the watchdog is doing.
DeadlineKept == overdue ~> ~overdue

\* Restarts do not go on for ever: when engines stop dying and users stop asking,
\* also a ladder that outlived its room comes to its end.
WatchdogRests == <>[] ~RestartUnderWay

\* No flag stays up: the job it stands for may fly again, panics or not.
FlagComesDown == \A f \in Flight : flag[f] ~> ~flag[f]

\* The watchdog gives up when the retries it programmed have all been made.
GivesUpLast ==
    [][room /\ at = "schedule" /\ at' # at /\ intentos >= MaxRestarts
        => timers = 0 /\ ~Queued("restart")]_vars

\* Whoever has left the room has left its network.
LeaveLeavesAll == ~room /\ user = "idle" => ~up
=============================================================================
