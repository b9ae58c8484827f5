--------------------------- MODULE ControlChannel ---------------------------
(***************************************************************************)
(* The control channel of a room: one TCP connection from each guest to    *)
(* the host, over which the host speaks and the guest acknowledges, and    *)
(* whose being there or not is what the guest knows of its host.           *)
(* (daemon/transport/control: server, client, control.)                    *)
(*                                                                         *)
(* On the host, Serve, Notify and Close come one at a time, under the      *)
(* session's lock; each connection that is accepted is a goroutine that    *)
(* checks the address, registers the connection and reads it, letting the  *)
(* server's mutex go in between.  On the guest, Dial and Close replace the *)
(* client there is, and its goroutines (one reads, or one dials again)     *)
(* find out later.  Each step is what is done between two locks, or        *)
(* between a lock and a message sent without it.                           *)
(*                                                                         *)
(* A connection is a slot, used again once neither end has a goroutine on  *)
(* it.  Messages are notices; announcements and codes go the same way and  *)
(* nobody acknowledges them.  The door, where credentials are asked for,   *)
(* and the sealing of codes are left out.                                  *)
(***************************************************************************)
EXTENDS Naturals, Sequences, FiniteSets

CONSTANTS
    Member,      \* virtual addresses of guests
    Slots,       \* bound of the model: connections of a guest at a time
    MaxNotice,   \* bound of the model: notices the host sends
    MaxCut,      \* bound of the model: connections the network loses
    Backlog      \* notices a connection holds before a write to it blocks

ASSUME SlotsAssumption == Slots \in Nat \ {0}
ASSUME BoundAssumption == MaxNotice \in Nat /\ MaxCut \in Nat /\ Backlog \in Nat \ {0}

VARIABLES
    serving,     \* the room's listener is up
    members,     \* server.members
    conns,       \* server.conns: the slot registered for an address, 0 if none
    conn,        \* the connections: see Conn
    cli,         \* Channel.cli of each guest: "none", "dialling" or "live"
    redials,     \* goroutines of the current client that wait to dial again
    said,        \* the last word on presence each guest's session was given,
                 \* "nothing" if it was not of the client that is current
    seq,         \* server.seq
    waiting,     \* a Notify waits for its acknowledgement
    acked,       \* which has come
    sent,        \* history: notices sent, each known by its place among them
    read,        \* history: guests that have read the one that waits
    cuts

host  == <<serving, members, conns>>
guest == <<cli, redials, said>>
talk  == <<seq, waiting, acked, sent, read>>
vars  == <<host, conn, guest, talk, cuts>>
-----------------------------------------------------------------------------
Notices == 1 .. MaxNotice
Message == [id : Notices, seq : Notices]

\* sv: the goroutine of the host's end; far, near: either end is not closed;
\* lp: the goroutine of the guest's end; mine: of the client that is current;
\* cut: the network lost it; down, up: what is on its way.
Conn == [sv : {"none", "accepted", "checked", "open", "ended"}, far : BOOLEAN,
         lp : {"none", "dialled", "back", "read", "lost"}, near : BOOLEAN,
         mine : BOOLEAN, cut : BOOLEAN, down : Seq(Message), up : Seq(Notices)]

Blank == [sv |-> "none", far |-> FALSE, lp |-> "none", near |-> FALSE, mine |-> FALSE,
          cut |-> FALSE, down |-> <<>>, up |-> <<>>]

\* A slot nobody has a goroutine on is free again, and what is on its way to a
\* closed end is read by nobody.
Tidy(c) ==
    IF c.sv = "none" /\ c.lp = "none" THEN Blank
    ELSE [c EXCEPT !.down = IF c.near THEN @ ELSE <<>>, !.up = IF c.far THEN @ ELSE <<>>,
                   !.cut = @ /\ c.near /\ c.far]

Set(m, n, c) == conn' = [conn EXCEPT ![m][n] = Tidy(c)]

Slot == 1 .. Slots

Registered(m) == conns[m] # 0

Init ==
    /\ serving = TRUE /\ members = Member /\ conns = [m \in Member |-> 0]
    /\ conn = [m \in Member |-> [n \in Slot |-> Blank]]
    /\ cli = [m \in Member |-> "none"] /\ redials = [m \in Member |-> 0]
    /\ said = [m \in Member |-> "nothing"]
    /\ seq = 0 /\ sent = 0 /\ waiting = FALSE /\ acked = FALSE /\ read = {}
    /\ cuts = 0
-----------------------------------------------------------------------------
(* The guest.                                                              *)

\* Mutant of Stopped: the connection is closed, and the client is not marked.
Bug_Stopped(c) == Tidy([c EXCEPT !.near = @ /\ c.lp = "dialled"])

\* client.stop: its connection is closed, its goroutines find out by themselves.
Stopped(c) ==
    Tidy([c EXCEPT !.mine = FALSE, !.near = @ /\ c.lp = "dialled"])

StopClient(m, next) ==
    /\ cli' = [cli EXCEPT ![m] = next]
    /\ redials' = [redials EXCEPT ![m] = 0]
    /\ said' = [said EXCEPT ![m] = "nothing"]
    /\ conn' = [conn EXCEPT ![m] = [n \in Slot |-> Stopped(@[n])]]
    /\ UNCHANGED <<host, talk, cuts>>

\* Dial, up to its wait: another client takes the place of the one there is.  The
\* session holds its lock while it waits, so nothing else is asked meanwhile.
Dial(m) == cli[m] # "dialling" /\ StopClient(m, "dialling")

\* No attempt of a Dial connected, or it was cancelled.
DialFails(m) ==
    /\ cli[m] = "dialling" /\ \A n \in Slot : ~conn[m][n].mine
    /\ StopClient(m, "none")

\* Close; a Dial to a lobby's door leaves a client that says nothing of the host.
Close(m) == cli[m] = "live" /\ StopClient(m, "none")

\* The connection that a Dial or a redial has been waiting for.
Connect(m) ==
    /\ serving
    /\ \E n \in Slot :
        /\ conn[m][n] = Blank
        /\ Set(m, n, [Blank EXCEPT !.sv = "accepted", !.far = TRUE, !.lp = "dialled",
                                   !.near = TRUE, !.mine = TRUE])
    /\ \/ /\ cli[m] = "dialling" /\ \A n \in Slot : ~conn[m][n].mine
          /\ UNCHANGED redials
       \/ /\ redials[m] > 0
          /\ redials' = [redials EXCEPT ![m] = @ - 1]
    /\ UNCHANGED <<host, cli, said, talk, cuts>>

\* Mutant of RedialFails: an attempt that fails is the last.
Bug_RedialFails(m) ==
    /\ redials[m] > 0 /\ redials' = [redials EXCEPT ![m] = @ - 1]
    /\ UNCHANGED <<host, conn, cli, said, talk, cuts>>

\* A redial that fails goes on to the next rung of its ladder.
RedialFails(m) == redials[m] > 0 /\ UNCHANGED vars

\* adopt, or the same in redial, where a client that was stopped meanwhile closes
\* the connection it got.
Adopt(m, n) ==
    /\ conn[m][n].lp = "dialled"
    /\ Set(m, n, IF conn[m][n].mine THEN [conn[m][n] EXCEPT !.lp = "back"]
                 ELSE [conn[m][n] EXCEPT !.lp = "none", !.near = FALSE])
    /\ UNCHANGED <<host, guest, talk, cuts>>

\* The host is there: it is said after the client's mutex was let go, so perhaps
\* when another client is in its place.
SayPresent(m, n) ==
    /\ conn[m][n].lp = "back"
    /\ Set(m, n, [conn[m][n] EXCEPT !.lp = "read"])
    /\ said' = [said EXCEPT ![m] = IF conn[m][n].mine THEN "present" ELSE "nothing"]
    /\ cli' = [cli EXCEPT ![m] = IF conn[m][n].mine THEN "live" ELSE @]
    /\ UNCHANGED <<host, redials, talk, cuts>>

\* read and reparte, of a notice: acknowledged and handed over.
ReadNotice(m, n) ==
    LET c == conn[m][n] IN
    /\ c.lp = "read" /\ c.near /\ c.down # <<>>
    /\ Set(m, n, [c EXCEPT !.down = Tail(@),
                           !.up = IF c.far /\ ~c.cut THEN Append(@, Head(c.down).seq) ELSE @])
    /\ read' = IF waiting /\ Head(c.down).id = sent THEN read \cup {m} ELSE read
    /\ UNCHANGED <<host, guest, seq, waiting, acked, sent, cuts>>

\* read ends, and perdió asks whether this is still the connection there is.
ReadEnds(m, n) ==
    LET c == conn[m][n] IN
    /\ c.lp = "read" /\ (~c.near \/ c.cut \/ (~c.far /\ c.down = <<>>))
    /\ Set(m, n, [c EXCEPT !.near = FALSE, !.lp = IF c.mine THEN "lost" ELSE "none"])
    /\ UNCHANGED <<host, guest, talk, cuts>>

\* Mutant of SayAbsent: the loss is not told.
Bug_SayAbsent(m, n) ==
    /\ conn[m][n].lp = "lost"
    /\ Set(m, n, [conn[m][n] EXCEPT !.lp = "none", !.mine = FALSE])
    /\ redials' = [redials EXCEPT ![m] = IF conn[m][n].mine THEN @ + 1 ELSE @]
    /\ UNCHANGED <<host, cli, said, talk, cuts>>

\* The rest of perdió: it is told, and somebody dials again; a client that was
\* stopped in between tells it all the same, and dials nobody.
SayAbsent(m, n) ==
    /\ conn[m][n].lp = "lost"
    /\ Set(m, n, [conn[m][n] EXCEPT !.lp = "none", !.mine = FALSE])
    /\ said' = [said EXCEPT ![m] = IF conn[m][n].mine THEN "absent" ELSE "nothing"]
    /\ redials' = [redials EXCEPT ![m] = IF conn[m][n].mine THEN @ + 1 ELSE @]
    /\ UNCHANGED <<host, cli, talk, cuts>>
-----------------------------------------------------------------------------
(* The host.                                                               *)

\* Mutant of Check: whoever reaches the listener is let through.
Bug_Check(m, n) ==
    /\ conn[m][n].sv = "accepted"
    /\ Set(m, n, [conn[m][n] EXCEPT !.sv = "checked"])
    /\ UNCHANGED <<host, guest, talk, cuts>>

\* accept and the first half of serveRoom: who is not a member is not read.
Check(m, n) ==
    /\ conn[m][n].sv = "accepted"
    /\ \/ m \in members /\ Set(m, n, [conn[m][n] EXCEPT !.sv = "checked"])
       \/ /\ m \notin members \/ ~serving
          /\ Set(m, n, [conn[m][n] EXCEPT !.sv = "none", !.far = FALSE])
    /\ UNCHANGED <<host, guest, talk, cuts>>

\* The second half: it is the connection of its address, and the one there was
\* is closed.
Register(m, n) ==
    /\ conn[m][n].sv = "checked"
    /\ conn' = [conn EXCEPT ![m] = [i \in Slot |->
                  IF i = n THEN [@[i] EXCEPT !.sv = "open"]
                  ELSE IF i = conns[m] THEN Tidy([@[i] EXCEPT !.far = FALSE]) ELSE @[i]]]
    /\ conns' = [conns EXCEPT ![m] = n]
    /\ UNCHANGED <<serving, members, guest, talk, cuts>>

\* deliverAck: of the notice that waits, or of nobody's.
TakeAck(m, n) ==
    LET c == conn[m][n] IN
    /\ c.sv = "open" /\ c.far /\ c.up # <<>>
    /\ Set(m, n, [c EXCEPT !.up = Tail(@)])
    /\ acked' = (acked \/ (waiting /\ Head(c.up) = seq))
    /\ UNCHANGED <<host, guest, seq, waiting, sent, read, cuts>>

ServerReadEnds(m, n) ==
    LET c == conn[m][n] IN
    /\ c.sv = "open" /\ (~c.far \/ c.cut \/ (~c.near /\ c.up = <<>>))
    /\ Set(m, n, [c EXCEPT !.far = FALSE, !.sv = "ended"])
    /\ UNCHANGED <<host, guest, talk, cuts>>

\* Mutant of Remove: whatever is registered for the address goes.
Bug_Remove(m, n) ==
    /\ conn[m][n].sv = "ended"
    /\ Set(m, n, [conn[m][n] EXCEPT !.sv = "none"])
    /\ conns' = [conns EXCEPT ![m] = 0]
    /\ UNCHANGED <<serving, members, guest, talk, cuts>>

\* The end of read: the connection leaves the table if it is still its own.
Remove(m, n) ==
    /\ conn[m][n].sv = "ended"
    /\ Set(m, n, [conn[m][n] EXCEPT !.sv = "none"])
    /\ conns' = [conns EXCEPT ![m] = IF @ = n THEN 0 ELSE @]
    /\ UNCHANGED <<serving, members, guest, talk, cuts>>

\* Connections of addresses that are not in S, closed and out of the table.
Dropped(S) ==
    /\ conns' = [m \in Member |-> IF m \in S THEN conns[m] ELSE 0]
    /\ conn' = [m \in Member |-> [n \in Slot |->
                  IF m \notin S /\ n = conns[m] THEN Tidy([conn[m][n] EXCEPT !.far = FALSE])
                  ELSE conn[m][n]]]

\* Serve with a scope: rescope.
Rescope(S) ==
    /\ serving /\ ~waiting /\ S # members
    /\ members' = S /\ Dropped(S)
    /\ UNCHANGED <<serving, guest, talk, cuts>>

\* Close, on the host: stop.
Stop ==
    /\ serving /\ ~waiting
    /\ serving' = FALSE /\ Dropped({})
    /\ UNCHANGED <<members, guest, talk, cuts>>

\* Mutant of NextAck: the number of a notice is given again.
Bug_NextAck == seq' = IF seq = 0 THEN 1 ELSE seq

\* nextAck.
NextAck == seq' = seq + 1

\* peerConn.write: a connection that takes no more is closed when the write's
\* deadline is over.
Written(c, message) ==
    IF Len(c.down) = Backlog THEN Tidy([c EXCEPT !.far = FALSE])
    ELSE [c EXCEPT !.down = Append(@, message)]

\* Notify, up to its wait: to one, or to all that are registered.
Notify(D) ==
    /\ serving /\ ~waiting /\ sent < MaxNotice
    /\ D # {} /\ \A m \in D : Registered(m)
    /\ Cardinality(D) = 1 \/ \A m \in Member : Registered(m) => m \in D
    /\ NextAck /\ sent' = sent + 1
    /\ waiting' = TRUE /\ acked' = FALSE /\ read' = {}
    /\ conn' = [m \in Member |-> [n \in Slot |->
                  IF m \in D /\ n = conns[m] /\ conn[m][n].far /\ conn[m][n].near /\ ~conn[m][n].cut
                  THEN Written(conn[m][n], [id |-> sent', seq |-> seq'])
                  ELSE conn[m][n]]]
    /\ UNCHANGED <<host, guest, cuts>>

\* Its end: acknowledged, or NoticeAckWait is over; dropAck.
NotifyEnds ==
    /\ waiting /\ waiting' = FALSE
    /\ acked' = FALSE /\ read' = {}
    /\ UNCHANGED <<host, conn, guest, seq, sent, cuts>>
-----------------------------------------------------------------------------
\* The network loses a connection: each end finds out by itself, if ever it
\* reads or writes, and what was on its way does not arrive.
Cut(m, n) ==
    LET c == conn[m][n] IN
    /\ cuts < MaxCut /\ c.near /\ c.far /\ ~c.cut
    /\ Set(m, n, [c EXCEPT !.cut = TRUE, !.down = <<>>, !.up = <<>>])
    /\ cuts' = cuts + 1
    /\ UNCHANGED <<host, guest, talk>>

GuestTurn(m) ==
    \/ Connect(m) \/ RedialFails(m)
    \/ \E n \in Slot : \/ Adopt(m, n) \/ SayPresent(m, n) \/ ReadNotice(m, n)
                       \/ ReadEnds(m, n) \/ SayAbsent(m, n)

ServerTurn(m) ==
    \E n \in Slot : \/ Check(m, n) \/ Register(m, n) \/ TakeAck(m, n)
                    \/ ServerReadEnds(m, n) \/ Remove(m, n)

Session(m) == Dial(m) \/ DialFails(m) \/ Close(m)

HostSession ==
    \/ \E S \in SUBSET Member : Rescope(S)
    \/ Stop
    \/ \E D \in SUBSET Member : Notify(D)
    \/ NotifyEnds

Next ==
    \/ \E m \in Member : GuestTurn(m) \/ ServerTurn(m) \/ Session(m)
    \/ HostSession
    \/ \E m \in Member, n \in Slot : Cut(m, n)

Spec == Init /\ [][Next]_vars

\* Goroutines run, a closed or lost connection ends the read of it, and whoever
\* waits to dial again dials.  Sessions and the network owe nothing.
Fairness ==
    /\ \A m \in Member :
        /\ WF_vars(Connect(m))
        /\ \A n \in Slot :
            /\ WF_vars(Adopt(m, n)) /\ WF_vars(SayPresent(m, n)) /\ WF_vars(SayAbsent(m, n))
            /\ WF_vars(ReadEnds(m, n)) /\ WF_vars(ReadNotice(m, n))
            /\ WF_vars(Check(m, n)) /\ WF_vars(Register(m, n)) /\ WF_vars(TakeAck(m, n))
            /\ WF_vars(ServerReadEnds(m, n)) /\ WF_vars(Remove(m, n))
    /\ WF_vars(NotifyEnds)

FairSpec == Spec /\ Fairness
-----------------------------------------------------------------------------
(* Properties.                                                             *)

\* Types of every variable; a registered slot is one of the bound.
TypeOK ==
    /\ serving \in BOOLEAN /\ members \subseteq Member /\ conns \in [Member -> 0 .. Slots]
    /\ conn \in [Member -> [Slot -> Conn]]
    /\ cli \in [Member -> {"none", "dialling", "live"}]
    /\ redials \in [Member -> 0 .. 1]
    /\ said \in [Member -> {"nothing", "present", "absent"}]
    /\ seq \in 0 .. MaxNotice /\ sent \in 0 .. MaxNotice /\ waiting \in BOOLEAN
    /\ acked \in BOOLEAN /\ read \subseteq Member /\ cuts \in 0 .. MaxCut

\* A connection that the host goes on reading is the one registered for its
\* address, the one notices go to: neither the end of an older one, nor the
\* arrival of a newer one, leaves a member connected and unreachable.
Reachable ==
    \A m \in Member, n \in Slot :
        conn[m][n].sv = "open" /\ conn[m][n].far => conns[m] = n

\* Exactly one goroutine of a client looks after its connection, whatever was
\* lost, dialled again or replaced: none would never come back, and two would
\* fight for the same seat.
Watched ==
    \A m \in Member :
        cli[m] = "live" =>
            redials[m] + Cardinality({n \in Slot : conn[m][n].mine /\ conn[m][n].lp # "none"}) = 1

\* As long as no other client has taken its place, the last word of a client on
\* the presence of the host is what its connection is.
PresenceTold ==
    \A m \in Member :
        /\ said[m] = "present" => \E n \in Slot : conn[m][n].mine /\ conn[m][n].lp \in {"read", "lost"}
        /\ said[m] = "absent" => \A n \in Slot : conn[m][n].mine => conn[m][n].lp \in {"dialled", "back"}

\* A Notify that ends for having been acknowledged, and not for the time it
\* waited, is one that somebody it was sent to has read.
AckedIsRead == waiting /\ acked => read # {}

\* An address that is out of the scope, with no connection left between the
\* check and the table, has none registered until it is in the scope again.
Out(m) == m \notin members /\ ~Registered(m) /\ \A n \in Slot : conn[m][n].sv # "checked"
OutStaysOut == [][\A m \in Member : Out(m) /\ m \notin members' => Out(m)']_vars

\* A connection that is registered is of an address that is in the scope.
ServedAreMembers == \A m \in Member : Registered(m) => m \in members

\* A guest with a client, that its host keeps in its scope and the network lets
\* through, ends up with a connection registered at both ends.
Linked(m) == \E n \in Slot : /\ conns[m] = n /\ conn[m][n].mine
                             /\ conn[m][n].lp = "read" /\ conn[m][n].far
ComesBack ==
    \A m \in Member :
        <>[](serving /\ m \in members /\ cli[m] = "live") => <>[]Linked(m)
=============================================================================
