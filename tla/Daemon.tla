------------------------------- MODULE Daemon -------------------------------
(***************************************************************************)
(* The process around the session: the order it starts and stops in        *)
(* (daemon/service/arranque.go, daemon/cmd/kanpachid), the conversations   *)
(* of the local API (daemon/transport/pipe, transport/protocol/server.go)  *)
(* and the interface it launches and keeps alive (daemon/adapter/uihost).  *)
(*                                                                         *)
(* A conversation has a goroutine that reads, handles and answers, and     *)
(* another that watches it, for closing the connection is the only way to  *)
(* end a read.  The stop runs once, whoever asks for it first: the door,   *)
(* the conversations there are, the room being reopened, the room, and     *)
(* what the start built, in reverse.  The interface is a process with a    *)
(* goroutine that waits for its death; showing it is launching it again,   *)
(* and the second one finds the first, tells it and ends.                  *)
(*                                                                         *)
(* An operation on the room holds the session's lock from end to end, so   *)
(* it is one step when it ends.  What is answered, the mailbox of the      *)
(* pending link, the token's file and the greetings that are refused are   *)
(* left out.  This is the product with an interface: the console and the   *)
(* headless variants are it with no process in UI ever launched.           *)
(***************************************************************************)
EXTENDS Naturals, FiniteSets

CONSTANTS
    Conn,            \* the seats of the local API: MaxConns of them
    UI,              \* processes of the interface that may be there at once
    Nobody,
    maxRelaunches,
    AutoReturn,      \* there is a last room to go back to
    Fault            \* a subset of FaultKinds

(***************************************************************************)
(* "accept": the listener fails on its own.  "launch": relaunching the     *)
(* interface fails.  "start": so does launching it first.  "job": the      *)
(* process is born in a job of somebody else's, as in the portable bundle. *)
(* "late": the listener is between taking a connection and seating it as   *)
(* it is closed.  "early": somebody is at the door before the start ends.  *)
(***************************************************************************)
FaultKinds == {"accept", "launch", "start", "job", "late", "early"}

ASSUME FaultAssumption == Fault \subseteq FaultKinds
ASSUME RelaunchAssumption == maxRelaunches \in Nat
ASSUME ReturnAssumption == AutoReturn \in BOOLEAN
ASSUME NobodyAssumption == Nobody \notin Conn /\ Nobody \notin UI

VARIABLES
    boot, ctxDone, end,        \* where the start is; what became of the process
    serve, got, cerrando,      \* Listener: its loop, what Accept gave, closed
    conv, link, guard,         \* each conversation, its connection, its watcher
    reopen, room,              \* the goroutine that reopens, and the session
    apagar, expired, leaver,   \* the stop; ApagadoMax; who leaves the room
    st, held, proc,            \* processes of the interface; Host.proc
    watch, seguidas, stop      \* Host.watch, its quick deaths in a row; stop

process == <<boot, ctxDone, end>>
door    == <<serve, got, cerrando>>
talk    == <<conv, link, guard>>
session == <<reopen, room>>
closing == <<apagar, expired, leaver>>
window  == <<st, held, proc>>
keeper  == <<watch, seguidas, stop>>
daemonVars == <<process, door, talk, session, closing, window, keeper>>
-----------------------------------------------------------------------------
Alive == end = "no"
Shown == {p \in UI : st[p] = "main"}
There == {p \in UI : st[p] \in {"fresh", "main"}}
Spare == {p \in UI : p \notin There /\ p # proc}

\* What a conversation may be handling: an order on the room, or a Show that
\* saw no process, or saw one.
Order == {"room", "kept", "loose"}

DaemonInit ==
    /\ boot = "built" /\ ctxDone = FALSE /\ end = "no"
    /\ serve = "off" /\ got = Nobody /\ cerrando = FALSE
    /\ conv = [c \in Conn |-> "free"]
    /\ link = [c \in Conn |-> "cut"]
    /\ guard = [c \in Conn |-> "off"]
    /\ reopen = "no" /\ room = "none"
    /\ apagar = "no" /\ expired = FALSE /\ leaver = "no"
    /\ st = [p \in UI |-> "none"] /\ held = [p \in UI |-> TRUE] /\ proc = Nobody
    /\ watch = "off" /\ seguidas = 0 /\ stop = FALSE
-----------------------------------------------------------------------------
\* The start.  The loop first, the door once the loop is up, and the reopening
\* behind it, for it takes about a minute.
Loop ==
    /\ Alive /\ boot = "built"
    /\ boot' = "loop"
    /\ UNCHANGED <<ctxDone, end, door, talk, session, closing, window, keeper>>

\* Cancelled before the loop came up: there was nothing to unwind.
Abort ==
    /\ Alive /\ boot = "built" /\ ctxDone
    /\ end' = "aborted"
    /\ UNCHANGED <<boot, ctxDone, door, talk, session, closing, window, keeper>>

Serve ==
    /\ Alive /\ boot = "loop"
    /\ boot' = "served" /\ serve' = "accept"
    /\ UNCHANGED <<ctxDone, end, got, cerrando, talk, session, closing, window,
                   keeper>>

ReabrirLaSala ==
    /\ Alive /\ boot = "served"
    /\ boot' = "started"
    /\ reopen' \in {"running", "done"}   \* there is a room on disk, or not
    /\ UNCHANGED <<ctxDone, end, door, talk, room, closing, window, keeper>>

\* host.apagar is nil until here.
Wire ==
    /\ Alive /\ boot = "started"
    /\ boot' = "wired"
    /\ UNCHANGED <<ctxDone, end, door, talk, session, closing, window, keeper>>

Signal ==
    /\ Alive /\ ~ctxDone
    /\ ctxDone' = TRUE
    /\ UNCHANGED <<boot, end, door, talk, session, closing, window, keeper>>
-----------------------------------------------------------------------------
\* What happens to the processes of the interface as this one dies.
JobCloses == st' = [p \in UI |-> IF held[p] THEN "none" ELSE st[p]]

\* Where a new process of the interface goes.  The one that is tracked takes
\* the place of the one before, if that is dead, and its handle is dropped.
Place(tracked) ==
    IF tracked /\ proc \in UI \ There THEN {proc} ELSE Spare

\* A new process of the interface: tracked is Host.proc's.  With the job closed
\* nobody holds it.
Launch(tracked) ==
    /\ Place(tracked) # {}
    /\ LET p == CHOOSE p \in Place(tracked) : TRUE IN
       /\ st' = [st EXCEPT ![p] = "fresh"]
       /\ \E h \in IF apagar = "done" THEN {FALSE}
                    ELSE IF "job" \in Fault THEN BOOLEAN ELSE {TRUE} :
              held' = [held EXCEPT ![p] = h]
       /\ proc' = IF tracked THEN p ELSE proc

\* The interface, last of all.  Not launching it does not undo the start, and
\* leaves nobody watching.
StartUI ==
    /\ Alive /\ boot = "wired"
    /\ boot' = "up"
    /\ \/ Launch(TRUE) /\ watch' = "wait"
       \/ "start" \in Fault /\ UNCHANGED <<window, watch>>
    /\ UNCHANGED <<ctxDone, end, door, talk, session, closing, seguidas, stop>>

\* Its first act: is there another of it?
Claim(p) ==
    /\ st[p] = "fresh"
    /\ st' = [st EXCEPT ![p] = IF Shown = {} THEN "main"
                               ELSE IF p = proc THEN "exited" ELSE "none"]
    /\ UNCHANGED <<process, door, talk, session, closing, held, proc, keeper>>

Falls(p) ==
    /\ st[p] = "main"
    /\ st' = [st EXCEPT ![p] = IF p = proc THEN "fallen" ELSE "none"]
    /\ UNCHANGED <<process, door, talk, session, closing, held, proc, keeper>>

\* One that told another and ended did not live long; one that was the window
\* may have.  The handle of a dead process is waited for in vain only once.
Murio ==
    /\ Alive /\ watch = "wait" /\ proc # Nobody /\ proc \notin There /\ ~stop
    /\ \E long \in IF st[proc] = "fallen" THEN BOOLEAN ELSE {FALSE} :
           LET n == IF long THEN 1 ELSE seguidas + 1 IN
           /\ seguidas' = n
           /\ watch' = IF n > maxRelaunches THEN "telling" ELSE "grace"
    /\ st' = [st EXCEPT ![proc] = "exited"]
    /\ UNCHANGED <<process, door, talk, session, closing, held, proc, stop>>

\* Mutant of Relaunch: one that could not be launched leaves nobody to go on.
Bug_Relaunch ==
    /\ Alive /\ watch = "grace"
    /\ \/ Launch(TRUE) /\ watch' = "wait"
       \/ "launch" \in Fault /\ watch' = "gone" /\ UNCHANGED window
    /\ UNCHANGED <<process, door, talk, session, closing, seguidas, stop>>

\* In silence after a moment; one that cannot be launched counts as a death.
Relaunch ==
    /\ Alive /\ watch = "grace"
    /\ watch' = "wait"
    /\ \/ Launch(TRUE)
       \/ "launch" \in Fault /\ UNCHANGED window
    /\ UNCHANGED <<process, door, talk, session, closing, seguidas, stop>>

WatchEnds ==
    /\ watch \in {"wait", "grace"} /\ stop
    /\ watch' = "gone"
    /\ UNCHANGED <<process, door, talk, session, closing, window, seguidas, stop>>
-----------------------------------------------------------------------------
\* Whoever asks first starts it, in a goroutine; the rest wait for it or not.
Begun == IF apagar = "no" THEN "door" ELSE apagar

\* The box was read or its time ran out: OnGiveUp, which does not wait.
OnGiveUp ==
    /\ Alive /\ watch = "telling"
    /\ watch' = "gone"
    /\ apagar' = Begun
    /\ UNCHANGED <<process, door, talk, session, expired, leaver, window, seguidas,
                   stop>>

\* An order of the interface.  Before the start has wired it, it is a go
\* statement on nil, which is the end of the process.
Shutdown(c) ==
    /\ Alive /\ conv[c] = "idle" /\ link[c] = "open"
    /\ IF boot \in {"wired", "up"}
       THEN apagar' = Begun /\ UNCHANGED <<end, st>>
       ELSE end' = "crashed" /\ JobCloses /\ UNCHANGED apagar
    /\ UNCHANGED <<boot, ctxDone, door, talk, session, expired, leaver, held, proc,
                   keeper>>

\* The service manager's order, and the wait that ends as the listener does.
OnSignal ==
    /\ Alive /\ boot = "up" /\ apagar = "no"
    /\ ctxDone \/ serve = "over"
    /\ apagar' = Begun
    /\ UNCHANGED <<process, door, talk, session, expired, leaver, window, keeper>>
-----------------------------------------------------------------------------
\* Only a caller that is there before the start ends needs the fault.
AtTheDoor == boot = "up" \/ "early" \in Fault

Seat(c) ==
    /\ conv' = [conv EXCEPT ![c] = "mute"]
    /\ link' = [link EXCEPT ![c] = "open"]
    /\ guard' = [guard EXCEPT ![c] = "hello"]

\* With no seat left the connection is closed and nothing changes.  Between
\* what Accept gives and wg.Add the door may be closed.
Accept(c) ==
    /\ Alive /\ serve = "accept"
    /\ \/ /\ got = Nobody /\ conv[c] = "free" /\ ~cerrando /\ AtTheDoor
          /\ IF "late" \in Fault THEN got' = c /\ UNCHANGED talk
                                 ELSE Seat(c) /\ UNCHANGED got
       \/ got = c /\ Seat(c) /\ got' = Nobody
    /\ UNCHANGED <<process, serve, cerrando, session, closing, window, keeper>>

AcceptEnds ==
    /\ Alive /\ serve = "accept" /\ got = Nobody
    /\ cerrando \/ "accept" \in Fault
    /\ serve' = "over"
    /\ UNCHANGED <<process, got, cerrando, talk, session, closing, window, keeper>>

Hello(c) ==
    /\ Alive /\ conv[c] = "mute" /\ link[c] = "open"
    /\ conv' = [conv EXCEPT ![c] = "idle"]
    /\ UNCHANGED <<process, door, link, guard, session, closing, window, keeper>>

\* The dispatcher of one conversation: one order at a time.
Dispatch(c) ==
    /\ Alive /\ conv[c] = "idle" /\ link[c] = "open"
    /\ \E o \in {"room", IF proc = Nobody THEN "kept" ELSE "loose"} :
           conv' = [conv EXCEPT ![c] = o]
    /\ UNCHANGED <<process, door, link, guard, session, closing, window, keeper>>

\* A conversation that ends gives the seat back and takes its watcher with it.
Ends(c) ==
    /\ conv' = [conv EXCEPT ![c] = "free"]
    /\ link' = [link EXCEPT ![c] = "cut"]
    /\ guard' = [guard EXCEPT ![c] = "off"]

\* The answer, and the next read, which fails at once on a closed connection.
Answered(c) ==
    IF link[c] = "cut" THEN Ends(c)
    ELSE conv' = [conv EXCEPT ![c] = "idle"] /\ UNCHANGED <<link, guard>>

RoomOp(c) ==
    /\ Alive /\ conv[c] = "room"
    /\ room' \in {"none", IF room = "none" /\ ~ctxDone THEN "open" ELSE room}
    /\ Answered(c)
    /\ UNCHANGED <<process, door, reopen, closing, window, keeper>>

\* Show looked at Host.proc before and launches by what it saw.
Show(c) ==
    /\ Alive /\ conv[c] \in {"kept", "loose"}
    /\ \/ Launch(conv[c] = "kept")
       \/ UNCHANGED window
    /\ Answered(c)
    /\ UNCHANGED <<process, door, session, closing, keeper>>

\* Only that connection falls.
Panic(c) ==
    /\ Alive /\ conv[c] \in Order
    /\ Ends(c)
    /\ UNCHANGED <<process, door, session, closing, window, keeper>>

\* The client closes, or dies without a word.
ClientGoes(c) ==
    /\ Alive /\ link[c] = "open" /\ conv[c] # "free"
    /\ \E l \in {"cut", "lost"} : link' = [link EXCEPT ![c] = l]
    /\ UNCHANGED <<process, door, conv, guard, session, closing, window, keeper>>

\* Mutant of HelloWait: the watcher ends with the wait, whoever greeted.
Bug_HelloWait(c) ==
    /\ Alive /\ guard[c] = "hello"
    /\ guard' = [guard EXCEPT ![c] = "off"]
    /\ link' = [link EXCEPT ![c] = IF conv[c] = "mute" THEN "cut" ELSE @]
    /\ UNCHANGED <<process, door, conv, session, closing, window, keeper>>

\* The five seconds of the greeting.  Who greeted is watched on.
HelloWait(c) ==
    /\ Alive /\ guard[c] = "hello"
    /\ IF conv[c] = "mute"
       THEN link' = [link EXCEPT ![c] = "cut"] /\ guard' = [guard EXCEPT ![c] = "off"]
       ELSE guard' = [guard EXCEPT ![c] = "on"] /\ UNCHANGED link
    /\ UNCHANGED <<process, door, conv, session, closing, window, keeper>>

WatchCloses(c) ==
    /\ Alive /\ guard[c] # "off" /\ (cerrando \/ ctxDone)
    /\ link' = [link EXCEPT ![c] = "cut"] /\ guard' = [guard EXCEPT ![c] = "off"]
    /\ UNCHANGED <<process, door, conv, session, closing, window, keeper>>

\* Mutant of ReadEnds: a read has no deadline.
Bug_ReadEnds(c) ==
    /\ Alive /\ conv[c] \in {"mute", "idle"} /\ link[c] = "cut"
    /\ Ends(c)
    /\ UNCHANGED <<process, door, session, closing, window, keeper>>

\* A read that ends gives the seat back: the connection is closed, or the ten
\* minutes of silence ran out.
ReadEnds(c) ==
    /\ Alive /\ conv[c] \in {"mute", "idle"}
    /\ Ends(c)
    /\ UNCHANGED <<process, door, session, closing, window, keeper>>
-----------------------------------------------------------------------------
\* ResumeRoom in the background; with the context gone it cuts itself short.
Reabierta ==
    /\ Alive /\ reopen = "running"
    /\ reopen' = "done"
    /\ room' \in IF room = "none" /\ ~ctxDone THEN {"none", "open"} ELSE {room}
    /\ UNCHANGED <<process, door, talk, closing, window, keeper>>

\* The heartbeat's way back.  Nothing but the context stops the supervisor.
Vuelta ==
    /\ Alive /\ AutoReturn /\ boot # "built" /\ ~ctxDone
    /\ room = "none" /\ reopen # "running"
    /\ room' = "back"
    /\ UNCHANGED <<process, door, talk, reopen, closing, window, keeper>>
-----------------------------------------------------------------------------
CloseDoor ==
    /\ Alive /\ apagar = "door"
    /\ cerrando' = TRUE /\ apagar' = "drain"
    /\ UNCHANGED <<process, serve, got, talk, session, expired, leaver, window, keeper>>

\* wg.Wait: whoever has a seat.
Drained ==
    /\ Alive /\ apagar = "drain" /\ \A c \in Conn : conv[c] = "free"
    /\ apagar' = "reopen"
    /\ UNCHANGED <<process, door, talk, session, expired, leaver, window, keeper>>

Expire ==
    /\ Alive /\ apagar \in {"drain", "reopen", "leave"} /\ ~expired
    /\ expired' = TRUE
    /\ UNCHANGED <<process, door, talk, session, apagar, leaver, window, keeper>>

\* Mutant of EsperarReapertura: the room is left with its reopening under way.
Bug_EsperarReapertura ==
    /\ Alive /\ apagar = "reopen"
    /\ apagar' = "leave" /\ leaver' = "going"
    /\ UNCHANGED <<process, door, talk, session, expired, window, keeper>>

EsperarReapertura ==
    /\ Alive /\ apagar = "reopen"
    /\ reopen # "running" \/ expired
    /\ apagar' = "leave" /\ leaver' = "going"
    /\ UNCHANGED <<process, door, talk, session, expired, window, keeper>>

\* With the context expired what closes the room may do nothing.
LeaveRoomOnShutdown ==
    /\ Alive /\ leaver = "going"
    /\ leaver' = "left"
    /\ room' \in IF expired THEN {"none", room} ELSE {"none"}
    /\ UNCHANGED <<process, door, talk, reopen, apagar, expired, window, keeper>>

Apagado ==
    /\ Alive /\ apagar = "leave"
    /\ leaver = "left" \/ expired
    /\ apagar' = "close"
    /\ UNCHANGED <<process, door, talk, session, expired, leaver, window, keeper>>

\* What the start built, in reverse: the token, the engine and the firewall,
\* and then the interface, whose watcher is told and waited for.
CerrarTodo ==
    /\ Alive /\ apagar = "close"
    /\ apagar' = "ui" /\ stop' = TRUE
    /\ UNCHANGED <<process, door, talk, session, expired, leaver, window, watch,
                   seguidas>>

\* Mutant of CloseHandles: the watcher is told and not waited for.
Bug_CloseHandles ==
    /\ Alive /\ apagar = "ui"
    /\ apagar' = "done"
    /\ st' = [p \in UI |-> IF held[p] \/ p = proc THEN "none" ELSE st[p]]
    /\ proc' = Nobody
    /\ UNCHANGED <<process, door, talk, session, expired, leaver, held, keeper>>

\* The job takes what it holds; the one that is tracked and outside is killed.
CloseHandles ==
    /\ Alive /\ apagar = "ui" /\ watch \in {"off", "gone"}
    /\ apagar' = "done"
    /\ st' = [p \in UI |-> IF held[p] \/ p = proc THEN "none" ELSE st[p]]
    /\ proc' = Nobody
    /\ UNCHANGED <<process, door, talk, session, expired, leaver, held, keeper>>

Exit ==
    /\ Alive /\ apagar = "done" /\ boot = "up" /\ (serve = "over" \/ ctxDone)
    /\ end' = "orderly"
    /\ JobCloses
    /\ UNCHANGED <<boot, ctxDone, door, talk, session, closing, held, proc, keeper>>
-----------------------------------------------------------------------------
Starting == Loop \/ Abort \/ Serve \/ ReabrirLaSala \/ Wire \/ StartUI
Keeping == Murio \/ Relaunch \/ WatchEnds \/ OnGiveUp
Stopping == OnSignal \/ CloseDoor \/ Drained \/ EsperarReapertura
            \/ LeaveRoomOnShutdown \/ Apagado \/ CerrarTodo \/ CloseHandles \/ Exit

DaemonNext ==
    \/ Starting \/ AcceptEnds \/ Keeping \/ Stopping
    \/ Signal \/ Reabierta \/ Vuelta \/ Expire
    \/ \E c \in Conn : \/ Accept(c) \/ Hello(c) \/ Dispatch(c) \/ RoomOp(c)
                       \/ Show(c) \/ Panic(c) \/ Shutdown(c) \/ ClientGoes(c)
                       \/ HelloWait(c) \/ WatchCloses(c) \/ ReadEnds(c)
    \/ \E p \in UI : Claim(p) \/ Falls(p)

DaemonSpec == DaemonInit /\ [][DaemonNext]_daemonVars

(***************************************************************************)
(* The goroutines of the stop and of the keeper run, an operation on the   *)
(* room ends, a launched process gets to its first act.  A read ends when  *)
(* its connection is closed and, that of a client that died, at its        *)
(* deadline; the deadline of one that is only silent is ten minutes away   *)
(* and nothing counts on it.  Nothing is asked of clients and signals, of  *)
(* the start, of a listener nobody closed, nor of ApagadoMax.              *)
(***************************************************************************)
DaemonFairness ==
    /\ WF_daemonVars(\/ Stopping \/ Reabierta \/ (cerrando /\ AcceptEnds)
                     \/ got # Nobody /\ Accept(got))
    /\ WF_daemonVars(Keeping)
    /\ WF_daemonVars(\E p \in UI : Claim(p))
    /\ \A c \in Conn : /\ WF_daemonVars(WatchCloses(c))
                       /\ WF_daemonVars(\/ RoomOp(c) \/ Show(c)
                                        \/ link[c] # "open" /\ ReadEnds(c))

DaemonFairSpec == DaemonSpec /\ DaemonFairness
-----------------------------------------------------------------------------
\* Types of every variable.
DaemonTypeOK ==
    /\ boot \in {"built", "loop", "served", "started", "wired", "up"}
    /\ ctxDone \in BOOLEAN /\ end \in {"no", "aborted", "crashed", "orderly"}
    /\ serve \in {"off", "accept", "over"} /\ got \in Conn \cup {Nobody}
    /\ cerrando \in BOOLEAN
    /\ conv \in [Conn -> {"free", "mute", "idle"} \cup Order]
    /\ link \in [Conn -> {"open", "lost", "cut"}]
    /\ guard \in [Conn -> {"hello", "on", "off"}]
    /\ reopen \in {"no", "running", "done"}
    /\ room \in {"none", "open", "back"}
    /\ apagar \in {"no", "door", "drain", "reopen", "leave", "close", "ui", "done"}
    /\ expired \in BOOLEAN /\ leaver \in {"no", "going", "left"}
    /\ st \in [UI -> {"none", "fresh", "main", "fallen", "exited"}]
    /\ held \in [UI -> BOOLEAN] /\ proc \in UI \cup {Nobody}
    /\ watch \in {"off", "wait", "grace", "telling", "gone"}
    /\ seguidas \in Nat /\ stop \in BOOLEAN

(***************************************************************************)
(* A stop that began ends the process, whatever the conversations, the     *)
(* reopening and the interface are at, and whoever asked for it: one of    *)
(* the conversations it waits for, or the goroutine it waits for.          *)
(***************************************************************************)
ShutdownEnds == apagar # "no" ~> ~Alive

(***************************************************************************)
(* "Hay bandeja si y solo si hay daemon", one way: a daemon that is up and *)
(* has no window gets one or is gone, however the interface falls and      *)
(* however often launching it fails.                                       *)
(***************************************************************************)
WindowOrEnd == boot = "up" /\ Shown = {} ~> Shown # {} \/ ~Alive

(***************************************************************************)
(* And the other: no window is left when the process is gone, by the stop  *)
(* or killed, nor one on its way up.                                       *)
(***************************************************************************)
NoWindowOutlives == ~Alive => There = {}

(***************************************************************************)
(* A stop that ended in its time left no room, of those that are opened,   *)
(* joined or reopened, whatever order or reopening was on its way when it  *)
(* began.  What the heartbeat goes back to may be there: nothing stops it. *)
(***************************************************************************)
CleanEnd == end = "orderly" /\ ~expired => room # "open"

(***************************************************************************)
(* A client that died without closing does not keep its seat.              *)
(***************************************************************************)
SeatsComeBack ==
    \A c \in Conn : link[c] = "lost" ~> conv[c] = "free" \/ link[c] # "lost" \/ ~Alive

(***************************************************************************)
(* The daemon gives up on its interface only with none in sight.           *)
(***************************************************************************)
GivesUpAlone == watch = "telling" => Shown = {}
=============================================================================
