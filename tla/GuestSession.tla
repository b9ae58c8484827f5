---------------------------- MODULE GuestSession ----------------------------
(***************************************************************************)
(* A guest's session: how a machine enters a room with a code, stays in    *)
(* it, goes back to it by itself when its host falls silent or its         *)
(* credential dies, leaves it, and returns to it after having lost it.     *)
(* (usecase: joinroom, rejoin, returnroom, leaveroom, announce, deadlines, *)
(* engineevent, gate, cancel, persist; domain: state.)                     *)
(*                                                                         *)
(* JoinRoom and Rejoin hold Session.mu for about a minute, and the world   *)
(* moves meanwhile: hosts fall and come back, revoke, kick, close, renew   *)
(* the code; the engine and the channel go on emitting, and what they emit *)
(* waits for the lock.  So each of those is one step per wait, and every   *)
(* other handler, which does not wait for anybody, is one step.            *)
(*                                                                         *)
(* Hosts are seen from outside: whether they answer, whether the registry  *)
(* knows their code, whether they trust the credential this guest holds.   *)
(* A clock is the phase it is in, and any clock may pass to its next phase *)
(* at any time, so what holds here holds for whatever limits timing.go     *)
(* has.  The machine hosts nothing: hosting, and the restarts of the       *)
(* engine that repeat an order, are in HostRoom and Supervisor.  The game  *)
(* the host announces, the quality of the paths and the rules that follow  *)
(* them are left out.                                                      *)
(***************************************************************************)
EXTENDS Naturals, Sequences

CONSTANTS
    Host,        \* hosts of rooms, one room each
    None,        \* no host, no room
    Fault,       \* what may go wrong in this instance, out of FaultKinds
    MaxStreak,   \* rejoins in a row before the room is given up, 8 in the code
    MaxUpset,    \* bound of the model: what the world does to the guest
    MaxOrder,    \* bound of the model: orders of the user
    MaxCode,     \* bound of the model: codes a room has, one after the other
    MaxMail      \* bound of the model: messages of the channel not handled yet

FaultKinds == {
    "registry",   \* the registry does not answer
    "engine",     \* a network that is asked for does not come up
    "settle",     \* connected, and the gate, the members or the rules fail
    "bind",       \* the gate cannot be bound when the tunnel comes up
    "firewall",   \* a foreign firewall blocks and there is no consent
    "expiry",     \* a credential expires while it is held
    "overtaken",  \* an order takes the lock where Return has let it go
    "crossed" }   \* what a room sent is still waiting when it is left

ASSUME HostAssumption   == None \notin Host /\ None \notin [host : Host, code : Nat]
ASSUME FaultAssumption  == Fault \subseteq FaultKinds
ASSUME StreakAssumption == MaxStreak \in Nat \ {0}
ASSUME BoundAssumption  == /\ MaxUpset \in Nat /\ MaxOrder \in Nat
                           /\ MaxCode \in Nat \ {0} /\ MaxMail \in Nat \ {0}

VARIABLES
    at,        \* where the order that holds Session.mu is waiting, or "free"
    by,        \* whose order it is
    goal,      \* the room it goes to
    cut,       \* its context has been cancelled
    gained,    \* the credential the host has just issued to it
    conn,      \* state.Conn and ReconnectingSince: see Conns
    room,      \* state.Room, with the host that keeps it
    held,      \* myCredential, and whether the host of the room trusts it
    dead,      \* credencialMuerta
    streak,    \* rejoinStreak
    calm,      \* the last rejoin that worked was longer ago than RejoinCalmAfter
    waiting,   \* lastRejoin was less than rejoinWait ago
    host,      \* HostPresent, HostLastHeard and HostGoneSince: see Seen
    last,      \* the saved room and its AutoReturn, in memory and on disk
    ret,       \* where Return is, "off" when none is running
    retGoal,   \* the room it goes to
    retCut,    \* stopReturning cancelled its context
    result,    \* what its JoinRoom answered
    retWait,   \* returnNextAt is still to come
    net,       \* the host whose network the engine is in
    carries,   \* that network has come up and not fallen
    lobby,     \* the engine is in a lobby
    gate,      \* the gate: not bound, bound to this adapter or to an old one
    events,    \* engine events not handled yet
    link,      \* the connection of the control channel to the room's host
    mail,      \* what it has brought and is not handled yet
    up,        \* hosts whose machine answers
    open,      \* hosts whose room is open
    code,      \* the code of each room
    want,      \* history: the host whose room the user last chose, if still so
    upsets, orders

order     == <<at, by, goal, cut, gained>>
place     == <<conn, room, host, held, dead>>
rejoins   == <<streak, calm, waiting>>
returning == <<ret, retGoal, retCut, result, retWait>>
engine    == <<net, carries, lobby, gate>>
channel   == <<link, mail>>
world     == <<up, open, code>>
counts    == <<upsets, orders>>
vars == <<order, place, rejoins, last, returning, engine, events,
          channel, world, want, counts>>
-----------------------------------------------------------------------------
Rooms == [host : Host, code : 1 .. MaxCode]
Kinds == {"kicked", "stale", "closed", "code", "announce", "present", "absent"}
Mails == [from : Host, kind : Kinds, code : 1 .. MaxCode]

\* The states of the connection, the established ones as one; "reconnecting"
\* and "overdue" are both StateReconnecting, before ReconnectLimit and after.
Conns == {"idle", "resolving", "connecting", "up", "reconnecting", "overdue"}

\* What is known of the host: it is here and was heard of, or has been silent for
\* HostSilenceLimit; or it is absent, since now, for RejoinAfter or for
\* HostAbsenceLimit.
Seen == {"none", "here", "silent", "away", "rejoin", "limit"}

Free    == at = "free"
InRoom  == conn # "idle"
AutoReturn    == last # None /\ last.auto
Return_ == ~InRoom /\ AutoReturn       \* returningLocked().Returning()

\* The registry knows the code, and the host of the room answers at its door.
Known(r)   == r.host \in open /\ code[r.host] = r.code
Answers(r) == Known(r) /\ r.host \in up

\* The classes of messages that go through one channel of the client: within
\* each the order is kept, between two of them it is not.
Class(k) == CASE k \in {"kicked", "stale", "closed"} -> "notice"
              [] k \in {"present", "absent"} -> "presence"
              [] OTHER -> k

Sent(m, h, k) == IF Len(m) < MaxMail
                 THEN Append(m, [from |-> h, kind |-> k, code |-> code[h]]) ELSE m

Without(s, i) == [j \in 1 .. Len(s) - 1 |-> IF j < i THEN s[j] ELSE s[j + 1]]

Init ==
    /\ at = "free" /\ by = "user" /\ goal = None /\ cut = FALSE /\ gained = "none"
    /\ conn = "idle" /\ room = None /\ held = "none" /\ dead = FALSE
    /\ streak = 0 /\ calm = TRUE /\ waiting = FALSE
    /\ host = "none"
    /\ last \in {None} \cup {[room |-> [host |-> h, code |-> 1], auto |-> TRUE] : h \in Host}
    /\ want = (IF last = None THEN None ELSE last.room.host)
    /\ ret = "off" /\ retGoal = None /\ retCut = FALSE /\ result = "ok" /\ retWait = FALSE
    /\ net = None /\ carries = FALSE /\ lobby = FALSE /\ gate = "none" /\ events = <<>>
    /\ link = "none" /\ mail = <<>>
    /\ up = Host /\ open = Host /\ code = [h \in Host |-> 1]
    /\ upsets = 0 /\ orders = 0
-----------------------------------------------------------------------------
(* What several handlers do.                                               *)

Present == host \in {"here", "silent"}

\* NoteHostAlive, SetHostPresent(true).
NoteHostAlive == host' = "here"

\* Mutant of Absent: every new word of the absence dates it again.
Bug_Absent == "away"

\* SetHostPresent(false): an absence already dated keeps its date.
Absent == IF Present THEN "away" ELSE host

\* A host that is thought to be here and is silent is absent since it was last
\* heard of, and not since now.
Overheard == IF host = "silent" THEN "rejoin" ELSE host

\* ShouldLeaveForHostAbsence or ShouldLeaveForReconnectTimeout.
Expired == host = "limit" \/ conn = "overdue"

\* clearRoom, and the state the connection is left in.
ClearRoom(next) == conn' = next /\ room' = None /\ host' = "none"

\* teardown: the gate, the channel and the engine, in whatever they were.  What
\* the channel had brought and nobody had handled is not called back.
Teardown(unhandled) ==
    /\ gate' = "none" /\ net' = None /\ carries' = FALSE /\ lobby' = FALSE
    /\ link' = "none"
    /\ mail' = IF "crossed" \in Fault THEN unhandled ELSE <<>>

\* leaveLocked: the room is saved first, and whether to come back to it.
LeaveLocked(auto, next, unhandled) ==
    /\ last' = [room |-> room, auto |-> auto]
    /\ Teardown(unhandled) /\ ClearRoom(next)
    /\ held' = "none" /\ dead' = FALSE
    /\ streak' = 0 /\ calm' = TRUE /\ UNCHANGED waiting

\* Mutant of StopReturning: the attempt that is out is not cancelled.
Bug_StopReturning ==
    /\ retWait' = FALSE
    /\ last' = [last EXCEPT !.auto = FALSE]
    /\ UNCHANGED <<ret, retGoal, retCut, result>>

\* stopReturningLocked: the attempt that is out is cancelled, and no other made.
StopReturning ==
    /\ retCut' = (retCut \/ ret # "off")
    /\ retWait' = FALSE
    /\ last' = [last EXCEPT !.auto = FALSE]
    /\ UNCHANGED <<ret, retGoal, result>>
-----------------------------------------------------------------------------
(* Orders of the user.  Return lets the lock go twice, and an order that   *)
(* waits for it may get in there; the ones that would leave the attempt    *)
(* acting on what is no longer so do it only with the fault "overtaken".   *)

Turn(cancels) ==
    \/ ret = "off"
    \/ ret = "launched" /\ (retCut \/ cancels)
    \/ ret # "joining" /\ "overtaken" \in Fault

\* clearTheWayLocked, with `replace`: out of the room there is, or of the
\* return to another one.
ClearTheWay(r, next) ==
    \/ InRoom /\ LeaveLocked(FALSE, next, mail) /\ UNCHANGED <<events, returning>>
    \/ /\ Return_ /\ last.room # r /\ StopReturning
       /\ conn' = next
       /\ UNCHANGED <<room, host, held, dead, rejoins, engine, events, channel>>
    \/ /\ ~InRoom /\ ~(Return_ /\ last.room # r)
       /\ conn' = next
       /\ UNCHANGED <<room, host, held, dead, rejoins, last, returning, engine, events, channel>>

\* JoinRoom up to its first wait.  Without `replace` it is refused where the
\* way is not clear, and changes nothing.
JoinRoom(r) ==
    /\ Free /\ orders < MaxOrder /\ r.code <= code[r.host]
    /\ Turn(Return_ /\ last.room # r)
    /\ \/ /\ ClearTheWay(r, "resolving")
          /\ at' = "lookup" /\ by' = "user" /\ goal' = r /\ cut' = FALSE /\ UNCHANGED gained
       \/ /\ "firewall" \in Fault
          /\ ClearTheWay(r, "idle") /\ UNCHANGED order
    /\ want' = r.host
    /\ orders' = orders + 1
    /\ UNCHANGED <<world, upsets>>

LeaveRoom ==
    /\ Free /\ orders < MaxOrder /\ Turn(Return_)
    /\ \/ InRoom /\ LeaveLocked(FALSE, "idle", mail) /\ UNCHANGED <<events, returning>>
       \/ Return_ /\ StopReturning /\ UNCHANGED <<place, rejoins, engine, events, channel>>
    /\ want' = None
    /\ orders' = orders + 1
    /\ UNCHANGED <<order, world, upsets>>

ForgetLastRoom ==
    /\ Free /\ orders < MaxOrder /\ Turn(FALSE)
    /\ last # None /\ last' = None
    /\ retWait' = FALSE
    /\ want' = IF InRoom THEN want ELSE None
    /\ orders' = orders + 1
    /\ UNCHANGED <<order, place, rejoins, ret, retGoal, retCut, result,
                   engine, events, channel, world, upsets>>

\* Cancel does not need the lock: it cuts whatever JoinRoom is out.
Cancel ==
    /\ ~Free /\ by # "rejoin" /\ ~cut /\ orders < MaxOrder
    /\ cut' = TRUE
    /\ orders' = orders + 1
    /\ UNCHANGED <<at, by, goal, gained, place, rejoins, last, returning,
                   engine, events, channel, world, want, upsets>>
-----------------------------------------------------------------------------
(* The way into a room, which JoinRoom and Rejoin share from the lobby on. *)

Released == at' = "free" /\ goal' = None /\ cut' = FALSE /\ gained' = "none"
            /\ by' = "user"

\* JoinRoom fails: everything down, and what it had put in the session with it.
JoinFails(answer) ==
    /\ by # "rejoin"
    /\ Released /\ Teardown(mail) /\ ClearRoom("idle")
    /\ IF by = "return" THEN ret' = "landed" /\ result' = answer
                        ELSE UNCHANGED <<ret, result>>
    /\ UNCHANGED <<held, dead, rejoins, last, retGoal, retCut, retWait, events, world, want, counts>>

\* Mutant of RejoinFails: a rejoin that fails forgets it was in the lobby.
Bug_RejoinFails ==
    /\ by = "rejoin" /\ Released
    /\ link' = IF at = "door" THEN link ELSE "none"
    /\ UNCHANGED <<lobby, place, rejoins, last, returning, net, carries, gate, events,
                   mail, world, want, counts>>

\* Rejoin fails: out of the lobby, still in the room.
RejoinFails ==
    /\ by = "rejoin" /\ Released
    /\ lobby' = FALSE
    /\ link' = IF at = "door" THEN link ELSE "none"
    /\ UNCHANGED <<place, rejoins, last, returning, net, carries, gate, events,
                   mail, world, want, counts>>

Fail == JoinFails("failed") \/ RejoinFails

\* checkRoomExists: only JoinRoom asks whether the code exists.
Lookup ==
    /\ at = "lookup"
    /\ \/ /\ ~cut /\ Known(goal)
          /\ at' = "door" /\ conn' = "connecting"
          /\ UNCHANGED <<by, goal, cut, gained, room, host, held, dead, rejoins, last,
                         returning, engine, events, channel, world, want, counts>>
       \/ ~cut /\ ~Known(goal) /\ JoinFails("gone")
       \/ (cut \/ "registry" \in Fault) /\ JoinFails("failed")

\* JoinRendezvous.
EnterLobby ==
    /\ at = "door"
    /\ \/ /\ ~cut
          /\ lobby' = TRUE /\ at' = "ask"
          /\ UNCHANGED <<by, goal, cut, gained, place, rejoins, last, returning,
                         net, carries, gate, events, channel, world, want, counts>>
       \/ (cut \/ "engine" \in Fault) /\ Fail

\* exchangeForCredential: the client has one connection, so the one to the room
\* goes.  The host gives this member's seat a new credential: the old one is off.
Ask ==
    /\ at = "ask"
    /\ \/ /\ ~cut /\ Answers(goal)
          /\ link' = "none" /\ gained' = "good"
          /\ held' = (IF held = "good" THEN "bad" ELSE held)
          /\ at' = "enter"
          /\ UNCHANGED <<by, goal, cut, conn, room, host, dead, rejoins, last, returning,
                         engine, events, mail, world, want, counts>>
       \/ (cut \/ ~Answers(goal) \/ "engine" \in Fault) /\ Fail

\* A network comes up on an adapter that is new: a gate that was bound follows
\* the old one.
NewNetwork(h) ==
    /\ net' = h /\ carries' = FALSE
    /\ gate' = IF gate = "none" THEN "none" ELSE "old"
    /\ UNCHANGED events

\* LeaveRendezvous and JoinWithCredential.
EnterRoom ==
    /\ at = "enter"
    /\ \/ /\ ~cut
          /\ lobby' = FALSE /\ NewNetwork(goal.host)
          /\ held' = gained /\ room' = goal
          /\ at' = "dial"
          /\ UNCHANGED <<by, goal, cut, gained, conn, host, dead, rejoins, last, returning,
                         channel, world, want, counts>>
       \/ (cut \/ "engine" \in Fault) /\ Fail

\* The connection to the host in the room, once its network lets it through.
Reaches == room.host \in up \cap open /\ held = "good"

Opened == link' = "up" /\ mail' = Sent(mail, room.host, "present")

\* The rejoin worked: the credential is not dead, and one more in a row.
RejoinWorked ==
    /\ dead' = FALSE
    /\ streak' = (IF calm THEN 1 ELSE streak + 1) /\ calm' = FALSE
    /\ UNCHANGED waiting

\* What follows the connection: the clock, the gate, the members, the rules and
\* the saved room.  A rejoin does not touch the state of the connection, and the
\* members may not show the host yet.
Settle ==
    /\ at \in {"dial", "redial"} /\ ~cut /\ Reaches
    /\ Opened /\ Released
    /\ \/ NoteHostAlive
       \/ by = "rejoin" /\ conn = "up" /\ host' = "away"
    /\ gate' = "this"
    /\ IF by = "rejoin"
       THEN RejoinWorked /\ UNCHANGED <<conn, last>>
       ELSE conn' = "up" /\ last' = [room |-> room, auto |-> TRUE] /\ UNCHANGED <<dead, rejoins>>
    /\ IF by = "return" THEN ret' = "landed" /\ result' = "ok" ELSE UNCHANGED <<ret, result>>
    /\ UNCHANGED <<room, held, retGoal, retCut, retWait, net, carries, lobby, events,
                   world, want, counts>>

\* The connection is there and the gate, the members or the rules are not.
SettleFails ==
    /\ at \in {"dial", "redial"} /\ ~cut /\ Reaches /\ "settle" \in Fault
    /\ \/ JoinFails("failed")
       \/ /\ by = "rejoin"
          /\ Opened /\ NoteHostAlive
          /\ IF at = "dial" THEN Released
             ELSE at' = "door" /\ UNCHANGED <<by, goal, cut, gained>>
          /\ UNCHANGED <<conn, room, held, dead, rejoins, last, returning, engine, events, world,
                         want, counts>>

\* Mutant of DialFails: reattaching is taken for done, whatever the dial answered.
Bug_DialFails ==
    /\ at \in {"dial", "redial"}
    /\ cut \/ ~Reaches \/ "engine" \in Fault
    /\ \/ at = "dial" /\ Fail
       \/ /\ at = "redial"
          /\ Released /\ NoteHostAlive /\ link' = "none"
          /\ UNCHANGED <<conn, room, held, dead, rejoins, last, returning, engine, events, mail,
                         world, want, counts>>

\* The connection does not come up.  After reattaching, the lobby is still left.
DialFails ==
    /\ at \in {"dial", "redial"}
    /\ cut \/ ~Reaches \/ "engine" \in Fault
    /\ \/ at = "dial" /\ Fail
       \/ /\ at = "redial"
          /\ at' = "door" /\ link' = "none"
          /\ UNCHANGED <<by, goal, cut, gained, place, rejoins, last, returning,
                         engine, events, mail, world, want, counts>>
-----------------------------------------------------------------------------
(* Rejoin.                                                                 *)

\* rejoinDueLocked.
RejoinDue ==
    /\ InRoom /\ ~waiting
    /\ dead \/ host \in {"rejoin", "limit"}

\* Mutant of TooMany: one more than the limit.
Bug_TooMany == streak > MaxStreak

TooMany == streak >= MaxStreak

\* Rejoin up to its first wait: reattaching where the credential may still be
\* good, by the lobby where it is not; out of the room after too many.
Rejoin ==
    /\ Free /\ RejoinDue
    /\ \/ /\ TooMany
          /\ LeaveLocked(TRUE, "idle", mail) /\ UNCHANGED <<order, events>>
       \/ /\ ~TooMany
          /\ by' = "rejoin" /\ goal' = room /\ cut' = FALSE /\ UNCHANGED gained
          /\ \/ ~dead /\ held # "none" /\ at' = "reattach"
             \/ (dead \/ held = "none" \/ "expiry" \in Fault) /\ at' = "door"
          /\ waiting' = TRUE
          /\ UNCHANGED <<place, streak, calm, last, engine, events, channel>>
    /\ UNCHANGED <<returning, world, want, counts>>

\* reattachLocked: the network again with the credential that is held.
Reattach ==
    /\ at = "reattach"
    /\ \/ at' = "redial" /\ NewNetwork(room.host) /\ UNCHANGED lobby
       \/ "engine" \in Fault /\ at' = "door" /\ UNCHANGED <<engine, events>>
    /\ UNCHANGED <<by, goal, cut, gained, place, rejoins, last, returning, channel,
                   world, want, counts>>
-----------------------------------------------------------------------------
(* Return, which takes the lock three times.                               *)

\* Its turn is claimed and the lock let go.
Return ==
    /\ Free /\ Return_ /\ ret = "off" /\ ~retWait
    /\ ret' = "launched" /\ retGoal' = last.room /\ retCut' = FALSE
    /\ UNCHANGED <<order, place, rejoins, last, result, retWait, engine, events, channel,
                   world, want, counts>>

\* An automatic return never displaces: JoinRoom is called without `replace`.
GivesWay == InRoom \/ (AutoReturn /\ last.room # retGoal)

\* JoinRoom, for Return.
ReturnJoins ==
    /\ Free /\ ret = "launched"
    /\ \/ /\ GivesWay
          /\ ret' = "landed" /\ result' = "busy"
          /\ UNCHANGED <<order, conn>>
       \/ /\ ~GivesWay
          /\ ret' = "joining" /\ conn' = "resolving"
          /\ at' = "lookup" /\ by' = "return" /\ goal' = retGoal /\ cut' = retCut
          /\ UNCHANGED <<result, gained>>
       \/ /\ ~GivesWay /\ "firewall" \in Fault
          /\ ret' = "landed" /\ result' = "failed"
          /\ UNCHANGED <<order, conn>>
    /\ UNCHANGED <<room, host, held, dead, rejoins, last, retGoal, retCut, retWait, engine, events,
                   channel, world, want, counts>>

\* Mutant of ReturnLands: the turn is given back only by a return that worked.
Bug_ReturnLands ==
    /\ Free /\ ret = "landed" /\ result = "ok"
    /\ ret' = "off" /\ retGoal' = None /\ retCut' = FALSE
    /\ UNCHANGED <<order, place, rejoins, last, result, retWait, engine, events, channel, world,
                   want, counts>>

\* What is made of JoinRoom's answer.
ReturnLands ==
    /\ Free /\ ret = "landed"
    /\ ret' = "off" /\ retGoal' = None /\ retCut' = FALSE /\ result' = "ok"
    /\ last' = IF result = "gone" THEN None ELSE last
    /\ retWait' = (result = "failed" \/ (retWait /\ result # "gone"))
    /\ UNCHANGED <<order, place, rejoins, engine, events, channel, world, want, counts>>
-----------------------------------------------------------------------------
(* Handlers the supervisor calls.  They wait for nothing but the lock.     *)

\* Tick.
Beat ==
    /\ Free /\ InRoom
    /\ IF Expired THEN LeaveLocked(TRUE, "idle", mail)
       ELSE host' = Overheard /\ UNCHANGED <<conn, room, held, dead, rejoins, last, engine, channel>>
    /\ UNCHANGED <<order, events, returning, world, want, counts>>

\* The members as the engine tells them, without the host among them
\* (inferHostPresence); with the host, nothing of this module changes.
OnPeersChanged ==
    /\ Free /\ InRoom
    /\ ~(room.host \in up /\ held = "good")
    /\ IF Expired THEN LeaveLocked(TRUE, "idle", mail)
       ELSE /\ host' = (IF conn = "up" /\ host # "silent" THEN Absent ELSE Overheard)
            /\ UNCHANGED <<conn, room, held, dead, rejoins, last, engine, channel>>
    /\ UNCHANGED <<order, events, returning, world, want, counts>>

TakeEvent(e) == Free /\ events # <<>> /\ Head(events) = e /\ events' = Tail(events)

\* Mutant of Bound: the gate stays on the adapter it was on.
Bug_Bound == UNCHANGED gate

\* bindGateLocked.
Bound == gate' = "this" \/ ("bind" \in Fault /\ UNCHANGED gate)

\* tunnelUpLocked: the gate follows the adapter there is.
OnConnected ==
    /\ TakeEvent("up")
    /\ IF InRoom /\ Expired THEN LeaveLocked(TRUE, "idle", mail)
       ELSE IF InRoom
       THEN /\ conn' = "up" /\ host' = Overheard
            /\ Bound
            /\ UNCHANGED <<room, held, dead, rejoins, last, net, carries, lobby, channel>>
       ELSE UNCHANGED <<place, rejoins, last, engine, channel>>
    /\ UNCHANGED <<order, returning, world, want, counts>>

\* tunnelDownLocked: without a tunnel there is no host either, and the date the
\* absence already had stays.
OnDisconnected ==
    /\ TakeEvent("down")
    /\ IF InRoom /\ Expired THEN LeaveLocked(TRUE, "idle", mail)
       ELSE IF InRoom
       THEN /\ conn' = "reconnecting"
            /\ host' = (IF host = "silent" THEN Overheard ELSE Absent)
            /\ UNCHANGED <<room, held, dead, rejoins, last, engine, channel>>
       ELSE UNCHANGED <<place, rejoins, last, engine, channel>>
    /\ UNCHANGED <<order, returning, world, want, counts>>

\* A message reaches its handler: none of its class is before it.
TakeMail(i) ==
    /\ Free /\ i \in 1 .. Len(mail)
    /\ \A j \in 1 .. i - 1 : Class(mail[j].kind) # Class(mail[i].kind)

Handled(i) == mail' = Without(mail, i) /\ UNCHANGED link

\* SetHostPresent, of the client's presence channel.
OnPresence(i) ==
    /\ TakeMail(i) /\ mail[i].kind \in {"present", "absent"}
    /\ Handled(i)
    /\ IF ~InRoom THEN UNCHANGED host
       ELSE IF mail[i].kind = "present" THEN NoteHostAlive ELSE host' = Absent
    /\ UNCHANGED <<order, conn, room, held, dead, rejoins, last, returning, engine, events, world, want, counts>>

\* OnRoomAnnounce: the host is alive, and then the deadlines, of which only the
\* tunnel's can be over.
OnAnnounce(i) ==
    /\ TakeMail(i) /\ mail[i].kind = "announce"
    /\ IF conn = "overdue" THEN LeaveLocked(TRUE, "idle", Without(mail, i))
       ELSE /\ Handled(i)
            /\ IF InRoom THEN NoteHostAlive ELSE UNCHANGED host
            /\ UNCHANGED <<conn, room, held, dead, rejoins, last, engine>>
    /\ UNCHANGED <<order, events, returning, world, want, counts>>

\* OnRoomNotice, kicked or closed: the room is over; only after the second the
\* guest tries to return.
OnNotice(i) ==
    /\ TakeMail(i) /\ mail[i].kind \in {"kicked", "closed"} /\ InRoom
    /\ LeaveLocked(mail[i].kind = "closed", "idle", Without(mail, i))
    /\ want' = IF mail[i].kind = "kicked" THEN None ELSE want
    /\ UNCHANGED <<order, events, returning, world, counts>>

\* OnRoomNotice, stale: the credential is dead, and asking for another waits for
\* nothing.
OnStale(i) ==
    /\ TakeMail(i) /\ mail[i].kind = "stale" /\ InRoom
    /\ Handled(i)
    /\ NoteHostAlive
    /\ dead' = TRUE /\ held' = "none" /\ waiting' = FALSE
    /\ UNCHANGED <<order, conn, room, streak, calm, last, returning, engine, events, world,
                   want, counts>>

\* Mutant of OnCodeRotated: the new code is not saved.
Bug_OnCodeRotated(i) ==
    /\ TakeMail(i) /\ mail[i].kind = "code" /\ InRoom
    /\ Handled(i)
    /\ NoteHostAlive
    /\ room' = [host |-> mail[i].from, code |-> mail[i].code]
    /\ UNCHANGED <<order, conn, held, dead, rejoins, last, returning, engine, events, world,
                   want, counts>>

\* OnCodeRotated: the room is the one of the new code, here and on disk.
OnCodeRotated(i) ==
    /\ TakeMail(i) /\ mail[i].kind = "code" /\ InRoom
    /\ Handled(i)
    /\ NoteHostAlive
    /\ room' = [host |-> mail[i].from, code |-> mail[i].code]
    /\ last' = IF room' = room THEN last ELSE [room |-> room', auto |-> TRUE]
    /\ UNCHANGED <<order, conn, held, dead, rejoins, returning, engine, events, world,
                   want, counts>>

\* Without a room, notices and codes are nothing.
IgnoreMail(i) ==
    /\ TakeMail(i) /\ mail[i].kind \in {"kicked", "closed", "stale", "code"} /\ ~InRoom
    /\ Handled(i)
    /\ UNCHANGED <<order, place, rejoins, last, returning, engine, events, world,
                   want, counts>>
-----------------------------------------------------------------------------
(* The clocks.                                                             *)

HostLater ==
    /\ host \in {"here", "away", "rejoin"}
    /\ host' = [here |-> "silent", away |-> "rejoin", rejoin |-> "limit"][host]
    /\ UNCHANGED <<order, conn, room, held, dead, rejoins, last, returning, engine, events,
                   channel, world, want, counts>>

TunnelLater ==
    /\ conn = "reconnecting" /\ conn' = "overdue"
    /\ UNCHANGED <<order, room, host, held, dead, rejoins, last, returning, engine, events,
                   channel, world, want, counts>>

RejoinWaited ==
    /\ waiting /\ waiting' = FALSE
    /\ UNCHANGED <<streak, calm, order, place, last, returning, engine, events, channel,
                   world, want, counts>>

RejoinCalm ==
    /\ ~calm /\ calm' = TRUE
    /\ UNCHANGED <<streak, waiting, order, place, last, returning, engine, events, channel,
                   world, want, counts>>

ReturnWaited ==
    /\ retWait /\ retWait' = FALSE
    /\ UNCHANGED <<order, place, rejoins, last, ret, retGoal, retCut, result, engine,
                   events, channel, world, want, counts>>
-----------------------------------------------------------------------------
(* The world: the hosts, their channel and the network under it.           *)

guest == <<order, place, rejoins, last, returning, want, orders>>

Upset == upsets < MaxUpset /\ upsets' = upsets + 1

HostFalls(h) == /\ Upset /\ h \in up /\ up' = up \ {h}
                /\ UNCHANGED <<guest, engine, events, channel, open, code>>

HostRises(h) == /\ h \notin up /\ up' = up \cup {h}
                /\ UNCHANGED <<guest, engine, events, channel, open, code, upsets>>

\* The credentials of the room of h that this guest has are no longer trusted:
\* the host came back without its book, or gave the seat up.
Distrusted(h) ==
    /\ held' = (IF room # None /\ room.host = h /\ held = "good" THEN "bad" ELSE held)
    /\ gained' = (IF gained = "good" /\ goal.host = h THEN "bad" ELSE gained)

Linked(h) == link = "up" /\ room.host = h

HostForgets(h) ==
    /\ Upset /\ h \in up /\ Distrusted(h)
    /\ UNCHANGED <<at, by, goal, cut, conn, room, host, dead, rejoins, last, returning,
                   engine, events, channel, world, want, orders>>

HostKicks(h) ==
    /\ Upset /\ h \in up /\ Linked(h) /\ Distrusted(h)
    /\ mail' = Sent(mail, h, "kicked") /\ UNCHANGED link
    /\ UNCHANGED <<at, by, goal, cut, conn, room, host, dead, rejoins, last, returning,
                   engine, events, world, want, orders>>

HostCloses(h) ==
    /\ Upset /\ h \in up \cap open /\ Distrusted(h)
    /\ open' = open \ {h}
    /\ mail' = (IF Linked(h) THEN Sent(mail, h, "closed") ELSE mail) /\ UNCHANGED link
    /\ UNCHANGED <<at, by, goal, cut, conn, room, host, dead, rejoins, last, returning,
                   engine, events, up, code, want, orders>>

HostRotates(h) ==
    /\ Upset /\ h \in up \cap open /\ code[h] < MaxCode
    /\ code' = [code EXCEPT ![h] = @ + 1]
    /\ mail' = (IF Linked(h) /\ Len(mail) < MaxMail
                THEN Append(mail, [from |-> h, kind |-> "code", code |-> code[h] + 1])
                ELSE mail)
    /\ UNCHANGED <<guest, engine, events, link, up, open>>

\* The host's channel speaks to a member it has no credential of, again and again.
HostTellsStale(h) ==
    /\ h \in up \cap open /\ Linked(h) /\ held = "bad"
    /\ Len(mail) < MaxMail /\ \A j \in 1 .. Len(mail) : mail[j].kind # "stale"
    /\ mail' = Sent(mail, h, "stale")
    /\ UNCHANGED <<guest, engine, events, link, world, upsets>>

HostAnnounces(h) ==
    /\ h \in up \cap open /\ Linked(h)
    /\ Len(mail) < MaxMail /\ \A j \in 1 .. Len(mail) : mail[j].kind # "announce"
    /\ mail' = Sent(mail, h, "announce")
    /\ UNCHANGED <<guest, engine, events, link, world, upsets>>

\* The connection falls, and the client dials the same address again.
LinkLost ==
    /\ link = "up" /\ ~(Reaches /\ carries)
    /\ link' = "lost" /\ mail' = Sent(mail, room.host, "absent")
    /\ UNCHANGED <<guest, engine, events, world, upsets>>

LinkBack ==
    /\ link = "lost" /\ Reaches /\ carries
    /\ Opened
    /\ UNCHANGED <<guest, engine, events, world, upsets>>

\* An event equal to the last one adds nothing to it.
Emitted(e) == IF events # <<>> /\ events[Len(events)] = e THEN events ELSE Append(events, e)

TunnelFalls ==
    /\ Upset /\ carries /\ carries' = FALSE
    /\ events' = Emitted("down")
    /\ UNCHANGED <<guest, net, lobby, gate, channel, world>>

TunnelRises ==
    /\ net # None /\ ~carries /\ carries' = TRUE
    /\ events' = Emitted("up")
    /\ UNCHANGED <<guest, net, lobby, gate, channel, world, upsets>>

\* The daemon stops and starts: what is on disk is left.
Restart ==
    /\ Upset
    /\ at' = "free" /\ by' = "user" /\ goal' = None /\ cut' = FALSE /\ gained' = "none"
    /\ held' = "none" /\ dead' = FALSE /\ streak' = 0 /\ calm' = TRUE /\ waiting' = FALSE
    /\ ClearRoom("idle") /\ Teardown(<<>>) /\ events' = <<>>
    /\ ret' = "off" /\ retGoal' = None /\ retCut' = FALSE /\ result' = "ok" /\ retWait' = FALSE
    /\ UNCHANGED <<last, world, want, orders>>
-----------------------------------------------------------------------------
Order == (\E r \in Rooms : JoinRoom(r)) \/ LeaveRoom \/ ForgetLastRoom \/ Cancel

Step == Lookup \/ EnterLobby \/ Ask \/ EnterRoom \/ Settle \/ SettleFails \/ DialFails \/ Reattach

OnMail(i) == \/ OnPresence(i) \/ OnAnnounce(i) \/ OnNotice(i)
             \/ OnStale(i) \/ OnCodeRotated(i) \/ IgnoreMail(i)

OnEvent == OnConnected \/ OnDisconnected

Handler == Beat \/ OnPeersChanged \/ OnEvent \/ \E i \in 1 .. Len(mail) : OnMail(i)

ReturnTurn == Return \/ ReturnJoins \/ ReturnLands

Automatic == Rejoin \/ ReturnTurn

Link == LinkLost \/ LinkBack

Time == HostLater \/ TunnelLater \/ RejoinWaited \/ RejoinCalm \/ ReturnWaited

World ==
    \/ \E h \in Host : \/ HostFalls(h) \/ HostRises(h) \/ HostForgets(h) \/ HostKicks(h)
                       \/ HostCloses(h) \/ HostRotates(h) \/ HostTellsStale(h) \/ HostAnnounces(h)
    \/ Link \/ TunnelFalls \/ TunnelRises \/ Restart

Next == Order \/ Step \/ Handler \/ Automatic \/ Time \/ World

Spec == Init /\ [][Next]_vars

\* Whoever waits for Session.mu gets it in the end: Go hands it over to a waiter
\* of a millisecond.  The supervisor beats, drains its channels and launches what
\* is due, a call to the engine or to the network ends one way or the other, the
\* client dials again and the clocks go on.  Hosts owe nothing, except that one
\* that is there goes on telling a member that it has no credential of it.
Fairness ==
    /\ WF_vars(Step)
    /\ SF_vars(Beat) /\ SF_vars(OnEvent) /\ SF_vars(OnMail(1))
    /\ SF_vars(Rejoin) /\ SF_vars(ReturnTurn)
    /\ WF_vars(HostLater) /\ WF_vars(TunnelLater)
    /\ WF_vars(RejoinWaited) /\ WF_vars(ReturnWaited)
    /\ WF_vars(Link) /\ WF_vars(TunnelRises)
    /\ \A h \in Host : WF_vars(HostTellsStale(h))

FairSpec == Spec /\ Fairness
-----------------------------------------------------------------------------
(* Properties.                                                             *)

Creds  == {"none", "good", "bad"}
RoomsN == Rooms \cup {None}

\* Types of every variable.
TypeOK ==
    /\ at \in {"free", "lookup", "door", "ask", "enter", "dial", "reattach", "redial"}
    /\ by \in {"user", "return", "rejoin"} /\ goal \in RoomsN /\ cut \in BOOLEAN
    /\ gained \in Creds
    /\ conn \in Conns /\ host \in Seen /\ room \in RoomsN /\ held \in Creds /\ dead \in BOOLEAN
    /\ streak \in 0 .. MaxStreak /\ calm \in BOOLEAN /\ waiting \in BOOLEAN
    /\ last \in {None} \cup [room : Rooms, auto : BOOLEAN]
    /\ ret \in {"off", "launched", "joining", "landed"} /\ retGoal \in RoomsN
    /\ retCut \in BOOLEAN /\ result \in {"ok", "gone", "busy", "failed"} /\ retWait \in BOOLEAN
    /\ net \in Host \cup {None} /\ carries \in BOOLEAN /\ lobby \in BOOLEAN
    /\ gate \in {"none", "old", "this"} /\ events \in Seq({"up", "down"})
    /\ link \in {"none", "up", "lost"} /\ mail \in Seq(Mails) /\ Len(mail) <= MaxMail
    /\ up \subseteq Host /\ open \subseteq Host /\ code \in [Host -> 1 .. MaxCode]
    /\ want \in Host \cup {None} /\ upsets \in 0 .. MaxUpset /\ orders \in 0 .. MaxOrder

\* A guest is only ever in a room of the host its user last chose and has not
\* since left, forgotten or been thrown out of: whatever Rejoin and Return do on
\* their own, at whatever point the user's order finds them.
InWantedRoom == Free /\ InRoom => room.host = want

\* Whatever an order was doing when it failed, was cancelled or lost its room,
\* nothing of it is left: outside an order the machine is in no lobby, and out
\* of a room in no network, behind no gate and on no channel.
NothingLeftBehind ==
    /\ Free => ~lobby
    /\ Free /\ ~InRoom => net = None /\ gate = "none" /\ link = "none"

\* A network that comes up on a new adapter takes the gate with it: the gate is
\* on the adapter there is, or the event that will bind it is still to come.
\* What can leave it behind is a rejoin that fails half way.
GateFollows ==
    Free /\ InRoom /\ gate # "this" =>
        ~carries \/ \E i \in 1 .. Len(events) : events[i] = "up"

\* The room a guest is in is the one saved to come back to, whatever its code has
\* become since and however it was entered; only the user's word forgets it.
Settled == InRoom /\ (Free \/ by = "rejoin")
LastIsThisRoom == Settled => last = [room |-> room, auto |-> TRUE]
LastKept == [][LastIsThisRoom => LastIsThisRoom' \/ ForgetLastRoom]_vars

\* What a room sends ends no other room.
NoticeEndsItsRoom ==
    [][\A i \in 1 .. Len(mail) : OnNotice(i) => mail[i].from = room.host]_vars

\* Nobody stays in the room of a host that is gone: not through the rejoins that
\* go on failing, nor through what reports the absence again and again.
AbandonedRoomLeft ==
    \A h \in Host : <>[](h \notin up) => <>[](room = None \/ room.host # h)

\* A guest whose credential its host no longer has gets another, or is out.
CredentialRepaired ==
    \A h \in Host :
        (room # None /\ room.host = h /\ held = "bad")
            ~> (held = "good" \/ room = None \/ room.host # h \/ h \notin up \cap open)

\* A guest that lost its room without leaving it is back in it while that room
\* is there to come back to.
ComesBack ==
    \A r \in Rooms :
        (Return_ /\ last.room = r)
            ~> (Settled \/ ~AutoReturn \/ last.room # r \/ ~Answers(r) \/ want # r.host)
=============================================================================
