------------------------ MODULE ControlChannel_proofs ------------------------
(***************************************************************************)
(* Theorems about the control channel, for any number of guests,           *)
(* connections, notices and losses.                                        *)
(***************************************************************************)
EXTENDS ControlChannel, FiniteSetTheorems, TLAPS

(***************************************************************************)
(* Connections.                                                            *)
(***************************************************************************)

ConnOK == conn \in [Member -> [Slot -> Conn]]

LEMMA BlankType == Blank \in Conn
<1>1. <<>> \in Seq(Message) /\ <<>> \in Seq(Notices)
    OBVIOUS
<1> QED BY <1>1 DEF Blank, Conn

\* What becomes of a connection when it is put away.
LEMMA TidyFacts ==
    ASSUME NEW c \in Conn
    PROVE  /\ Tidy(c) \in Conn
           /\ Tidy(c).sv = c.sv /\ Tidy(c).lp = c.lp
           /\ Tidy(c).mine => c.mine
           /\ c.mine /\ c.lp # "none" => Tidy(c).mine
           /\ Tidy(c).far => c.far
           /\ c.sv # "none" => Tidy(c).far = c.far
           /\ Tidy(c).down = c.down \/ Tidy(c).down = <<>>
           /\ Tidy(c).up = c.up \/ Tidy(c).up = <<>>
<1>1. CASE c.sv = "none" /\ c.lp = "none"
    BY <1>1, BlankType DEF Tidy, Blank
<1>2. CASE ~(c.sv = "none" /\ c.lp = "none")
    <2>1. Tidy(c) = [c EXCEPT !.down = IF c.near THEN c.down ELSE <<>>,
                              !.up = IF c.far THEN c.up ELSE <<>>,
                              !.cut = c.cut /\ c.near /\ c.far]
        BY <1>2 DEF Tidy, Conn
    <2>2. c.down \in Seq(Message) /\ c.up \in Seq(Notices) /\ (c.cut /\ c.near /\ c.far) \in BOOLEAN
        BY DEF Conn
    <2>3. <<>> \in Seq(Message) /\ <<>> \in Seq(Notices)
        OBVIOUS
    <2> QED BY <2>1, <2>2, <2>3 DEF Conn
<1> QED BY <1>1, <1>2

\* A connection that the host closes.
Closed(c) == [c EXCEPT !.far = FALSE]

LEMMA ClosedFacts ==
    ASSUME NEW c \in Conn, c.mine => c.lp # "none"
    PROVE  LET t == Tidy(Closed(c)) IN
           /\ t \in Conn /\ ~t.far /\ (t.mine <=> c.mine) /\ t.lp = c.lp
           /\ t.down = c.down \/ t.down = <<>>
           /\ t.up = c.up \/ t.up = <<>>
<1>1. /\ Closed(c) \in Conn /\ ~Closed(c).far /\ Closed(c).mine = c.mine /\ Closed(c).lp = c.lp
      /\ Closed(c).down = c.down /\ Closed(c).up = c.up
    BY DEF Closed, Conn
<1> QED BY <1>1, TidyFacts

LEMMA SetFacts ==
    ASSUME ConnOK, NEW m \in Member, NEW n \in Slot, NEW c \in Conn, Set(m, n, c)
    PROVE  /\ ConnOK'
           /\ conn'[m][n] = Tidy(c)
           /\ \A k \in Member, i \in Slot : k # m \/ i # n => conn'[k][i] = conn[k][i]
<1>1. Tidy(c) \in Conn
    BY TidyFacts
<1> QED BY <1>1 DEF Set, ConnOK

\* What is on its way.
In(s) == {s[i] : i \in 1 .. Len(s)}

LEMMA InFacts ==
    /\ In(<<>>) = {}
    /\ \A T : \A s \in Seq(T), x \in T : Append(s, x) \in Seq(T) /\ In(Append(s, x)) = In(s) \cup {x}
    /\ \A T : \A s \in Seq(T) : s # <<>> =>
            Head(s) \in In(s) /\ Head(s) \in T /\ Tail(s) \in Seq(T) /\ In(Tail(s)) \subseteq In(s)
<1>1. In(<<>>) = {}
    BY DEF In
<1>2. ASSUME NEW T, NEW s \in Seq(T), NEW x \in T
      PROVE  Append(s, x) \in Seq(T) /\ In(Append(s, x)) = In(s) \cup {x}
    <2>1. Append(s, x) \in Seq(T) /\ Len(Append(s, x)) = Len(s) + 1 /\ Len(s) \in Nat
        OBVIOUS
    <2>2. \A i \in 1 .. Len(s) : Append(s, x)[i] = s[i]
        OBVIOUS
    <2>3. Append(s, x)[Len(s) + 1] = x
        OBVIOUS
    <2>4. 1 .. (Len(s) + 1) = (1 .. Len(s)) \cup {Len(s) + 1}
        BY <2>1
    <2> QED BY <2>1, <2>2, <2>3, <2>4 DEF In
<1>3. ASSUME NEW T, NEW s \in Seq(T), s # <<>>
      PROVE  Head(s) \in In(s) /\ Head(s) \in T /\ Tail(s) \in Seq(T) /\ In(Tail(s)) \subseteq In(s)
    <2>1. /\ Head(s) = s[1] /\ 1 \in 1 .. Len(s) /\ Head(s) \in T
          /\ Tail(s) \in Seq(T) /\ Len(Tail(s)) = Len(s) - 1 /\ Len(s) \in Nat
        BY <1>3
    <2>2. \A i \in 1 .. Len(Tail(s)) : i + 1 \in 1 .. Len(s) /\ Tail(s)[i] = s[i + 1]
        BY <1>3, <2>1
    <2> QED BY <2>1, <2>2 DEF In
<1> QED BY <1>1, <1>2, <1>3

(***************************************************************************)
(* The invariant.  A client that is current has one goroutine: it reads or *)
(* has read the connection that is its own, or it waits to dial again; and *)
(* what it last said is what it is at.  Notices are numbered in order, so  *)
(* that an acknowledgement with the number of the one that waits is of it. *)
(***************************************************************************)

RestOK ==
    /\ serving \in BOOLEAN /\ members \subseteq Member /\ conns \in [Member -> 0 .. Slots]
    /\ cli \in [Member -> {"none", "dialling", "live"}]
    /\ redials \in [Member -> 0 .. 1]
    /\ said \in [Member -> {"nothing", "present", "absent"}]
    /\ seq \in 0 .. MaxNotice /\ sent \in 0 .. MaxNotice /\ waiting \in BOOLEAN
    /\ acked \in BOOLEAN /\ read \subseteq Member /\ cuts \in 0 .. MaxCut

LEMMA TypeParts == TypeOK <=> ConnOK /\ RestOK
BY DEF TypeOK, ConnOK, RestOK

HostOK == serving \in BOOLEAN /\ members \subseteq Member /\ conns \in [Member -> 0 .. Slots]

GuestOK ==
    /\ cli \in [Member -> {"none", "dialling", "live"}] /\ redials \in [Member -> 0 .. 1]
    /\ said \in [Member -> {"nothing", "present", "absent"}]

TalkOK ==
    /\ seq \in 0 .. MaxNotice /\ sent \in 0 .. MaxNotice /\ waiting \in BOOLEAN
    /\ acked \in BOOLEAN /\ read \subseteq Member

CutsOK == cuts \in 0 .. MaxCut

Mine(m, n) == conn[m][n].mine

OwnOf(m) ==
    /\ \A n \in Slot : Mine(m, n) => conn[m][n].lp # "none"
    /\ \A i, j \in Slot : Mine(m, i) /\ Mine(m, j) => i = j
    /\ redials[m] = 1 => cli[m] = "live" /\ \A n \in Slot : ~Mine(m, n)
    /\ cli[m] = "live" => redials[m] = 1 \/ \E n \in Slot : Mine(m, n)
    /\ cli[m] = "none" => \A n \in Slot : ~Mine(m, n)
    /\ cli[m] = "dialling" => \A n \in Slot : Mine(m, n) => conn[m][n].lp \in {"dialled", "back"}
    /\ said[m] = "present" => \E n \in Slot : Mine(m, n) /\ conn[m][n].lp \in {"read", "lost"}
    /\ said[m] = "absent" => \A n \in Slot : Mine(m, n) => conn[m][n].lp \in {"dialled", "back"}

Own == \A m \in Member : OwnOf(m)

Talk ==
    /\ seq = sent
    /\ \A m \in Member, n \in Slot :
        /\ \A x \in In(conn[m][n].down) : x.id = x.seq /\ x.id <= sent
        /\ \A k \in In(conn[m][n].up) : k <= seq /\ (waiting /\ k = seq => read # {})
    /\ waiting /\ acked => read # {}

Inv == ConnOK /\ HostOK /\ GuestOK /\ TalkOK /\ CutsOK /\ Reachable /\ Own /\ Talk

(***************************************************************************)
(* Steps that are no business of one of the parts.                         *)
(***************************************************************************)

HostAside  == \A m \in Member, n \in Slot :
    conn'[m][n].sv = "open" /\ conn'[m][n].far => conn[m][n].sv = "open" /\ conn[m][n].far

GuestAside(m) == \A n \in Slot :
    /\ conn'[m][n].mine <=> conn[m][n].mine
    /\ conn[m][n].mine => conn'[m][n].lp = conn[m][n].lp

TalkAside == \A m \in Member, n \in Slot :
    /\ In(conn'[m][n].down) \subseteq In(conn[m][n].down)
    /\ In(conn'[m][n].up) \subseteq In(conn[m][n].up)

LEMMA HostAsideKeeps == ASSUME Inv, UNCHANGED host, HostAside PROVE HostOK' /\ Reachable'
BY DEF Inv, host, HostOK, HostAside, Reachable

LEMMA GuestAsideKeeps ==
    ASSUME Inv, UNCHANGED guest, NEW m \in Member, GuestAside(m) PROVE OwnOf(m)'
BY DEF Inv, guest, GuestAside, Own, OwnOf, Mine

LEMMA GuestTypes == ASSUME Inv, UNCHANGED guest PROVE GuestOK'
BY DEF Inv, guest, GuestOK

LEMMA TalkAsideKeeps == ASSUME Inv, UNCHANGED talk, TalkAside PROVE TalkOK' /\ Talk'
BY DEF Inv, talk, TalkOK, TalkAside, Talk

\* A step of one connection, and what it leaves alone.
LEMMA OneSlot ==
    ASSUME Inv, NEW m \in Member, NEW n \in Slot, NEW d \in Conn, Set(m, n, d)
    PROVE  /\ ConnOK'
           /\ (d.sv = "open" /\ d.far => conn[m][n].sv = "open" /\ conn[m][n].far) => HostAside
           /\ \A k \in Member : k # m => GuestAside(k)
           /\ (d.mine = conn[m][n].mine /\ d.lp = conn[m][n].lp) => GuestAside(m)
           /\ (/\ In(d.down) \subseteq In(conn[m][n].down)
               /\ In(d.up) \subseteq In(conn[m][n].up)) => TalkAside
<1>1. /\ ConnOK' /\ conn'[m][n] = Tidy(d)
      /\ \A k \in Member, i \in Slot : k # m \/ i # n => conn'[k][i] = conn[k][i]
    BY SetFacts DEF Inv
<1>2. /\ Tidy(d).sv = d.sv /\ Tidy(d).lp = d.lp /\ (Tidy(d).mine => d.mine) /\ (Tidy(d).far => d.far)
      /\ d.mine /\ d.lp # "none" => Tidy(d).mine
      /\ Tidy(d).down = d.down \/ Tidy(d).down = <<>>
      /\ Tidy(d).up = d.up \/ Tidy(d).up = <<>>
    BY TidyFacts
<1>3. conn[m][n].mine => conn[m][n].lp # "none"
    BY DEF Inv, Own, OwnOf, Mine
<1>4. (d.sv = "open" /\ d.far => conn[m][n].sv = "open" /\ conn[m][n].far) => HostAside
    BY <1>1, <1>2 DEF HostAside
<1>5. \A k \in Member : k # m => GuestAside(k)
    BY <1>1 DEF GuestAside
<1>6. (d.mine = conn[m][n].mine /\ d.lp = conn[m][n].lp) => GuestAside(m)
    BY <1>1, <1>2, <1>3 DEF GuestAside
<1>7. (/\ In(d.down) \subseteq In(conn[m][n].down)
       /\ In(d.up) \subseteq In(conn[m][n].up)) => TalkAside
    BY <1>1, <1>2, InFacts DEF TalkAside
<1> QED BY <1>1, <1>4, <1>5, <1>6, <1>7

\* The same, of the connection itself.
LEMMA SlotBecomes ==
    ASSUME Inv, NEW m \in Member, NEW n \in Slot, NEW d \in Conn, Set(m, n, d)
    PROVE  /\ conn'[m][n].sv = d.sv /\ conn'[m][n].lp = d.lp
           /\ (conn'[m][n].mine => d.mine) /\ (d.mine /\ d.lp # "none" => conn'[m][n].mine)
           /\ (conn'[m][n].far => d.far)
           /\ In(conn'[m][n].down) \subseteq In(d.down) /\ In(conn'[m][n].up) \subseteq In(d.up)
           /\ \A k \in Member, i \in Slot : k # m \/ i # n => conn'[k][i] = conn[k][i]
<1>1. /\ conn'[m][n] = Tidy(d)
      /\ \A k \in Member, i \in Slot : k # m \/ i # n => conn'[k][i] = conn[k][i]
    BY SetFacts DEF Inv
<1> QED BY <1>1, TidyFacts, InFacts

LEMMA SlotType == ASSUME Inv, NEW m \in Member, NEW n \in Slot PROVE conn[m][n] \in Conn
BY DEF Inv, ConnOK

\* Every word a connection can be changed in leaves it a connection.
LEMMA Changes ==
    ASSUME NEW c \in Conn
    PROVE  /\ \A v \in {"none", "accepted", "checked", "open", "ended"} : [c EXCEPT !.sv = v] \in Conn
           /\ \A v \in {"none", "dialled", "back", "read", "lost"} : [c EXCEPT !.lp = v] \in Conn
           /\ \A v \in BOOLEAN : /\ [c EXCEPT !.far = v] \in Conn
                               /\ [c EXCEPT !.near = v] \in Conn /\ [c EXCEPT !.mine = v] \in Conn
           /\ \A v \in Seq(Message) : [c EXCEPT !.down = v] \in Conn
           /\ \A v \in Seq(Notices) : [c EXCEPT !.up = v] \in Conn
BY DEF Conn

(***************************************************************************)
(* The guest's steps.                                                      *)
(***************************************************************************)

\* A connection of a client that is stopped, before it is put away.
Halted(c) == [c EXCEPT !.mine = FALSE, !.near = @ /\ c.lp = "dialled"]

LEMMA HaltedFacts ==
    ASSUME NEW c \in Conn
    PROVE  /\ Halted(c) \in Conn /\ Stopped(c) = Tidy(Halted(c)) /\ ~Halted(c).mine
           /\ Halted(c).sv = c.sv /\ Halted(c).far = c.far
           /\ Halted(c).down = c.down /\ Halted(c).up = c.up
<1>1. (c.near /\ c.lp = "dialled") \in BOOLEAN
    OBVIOUS
<1> QED BY <1>1 DEF Halted, Stopped, Conn

LEMMA StoppedFacts ==
    ASSUME NEW c \in Conn
    PROVE  /\ Stopped(c) \in Conn /\ ~Stopped(c).mine /\ Stopped(c).sv = c.sv
           /\ Stopped(c).far => c.far
           /\ In(Stopped(c).down) \subseteq In(c.down) /\ In(Stopped(c).up) \subseteq In(c.up)
<1> DEFINE h == Halted(c)
<1>1. /\ h \in Conn /\ Stopped(c) = Tidy(h) /\ ~h.mine /\ h.sv = c.sv /\ h.far = c.far
      /\ h.down = c.down /\ h.up = c.up
    BY HaltedFacts
<1> HIDE DEF h
<1>2. /\ Tidy(h) \in Conn /\ Tidy(h).sv = h.sv /\ (Tidy(h).mine => h.mine) /\ (Tidy(h).far => h.far)
      /\ Tidy(h).down = h.down \/ Tidy(h).down = <<>>
      /\ Tidy(h).up = h.up \/ Tidy(h).up = <<>>
    BY <1>1, TidyFacts
<1> QED BY <1>1, <1>2, InFacts

\* A client that is replaced leaves nothing that is current.
LEMMA StopClientKeeps ==
    ASSUME Inv, NEW m \in Member, NEW next \in {"none", "dialling"}, StopClient(m, next)
    PROVE  Inv'
<1>2. \A n \in Slot : Stopped(conn[m][n]) \in Conn
    BY SlotType, StoppedFacts
<1>3. conn' = [conn EXCEPT ![m] = [n \in Slot |-> Stopped(conn[m][n])]]
    BY DEF StopClient
<1>4. /\ \A k \in Member : k # m => conn'[k] = conn[k]
      /\ \A n \in Slot : conn'[m][n] = Stopped(conn[m][n])
    BY <1>3 DEF Inv, ConnOK
<1>5. ConnOK'
    BY <1>2, <1>3 DEF Inv, ConnOK
<1>6. HostAside /\ \A n \in Slot : ~conn'[m][n].mine
    BY <1>4, SlotType, StoppedFacts DEF HostAside
<1>7. TalkAside
    BY <1>4, SlotType, StoppedFacts DEF TalkAside
<1>8. ASSUME NEW k \in Member PROVE OwnOf(k)'
    <2>1. CASE k = m
        BY <1>6, <2>1 DEF StopClient, Inv, GuestOK, OwnOf, Mine
    <2>2. CASE k # m
        BY <1>4, <2>2 DEF StopClient, Inv, GuestOK, Own, OwnOf, Mine
    <2> QED BY <2>1, <2>2
<1>9. GuestOK' /\ CutsOK'
    BY DEF StopClient, Inv, GuestOK, CutsOK
<1> QED BY <1>5, <1>6, <1>7, <1>8, <1>9, HostAsideKeeps, TalkAsideKeeps DEF StopClient, Inv, Own

LEMMA ConnectKeeps == ASSUME Inv, NEW m \in Member, Connect(m) PROVE Inv'
<1> DEFINE d == [Blank EXCEPT !.sv = "accepted", !.far = TRUE, !.lp = "dialled",
                              !.near = TRUE, !.mine = TRUE]
<1>1. PICK n \in Slot : conn[m][n] = Blank /\ Set(m, n, d)
    BY DEF Connect
<1>2. d \in Conn
    <2>1. <<>> \in Seq(Message) /\ <<>> \in Seq(Notices)
        OBVIOUS
    <2> QED BY <2>1 DEF Blank, Conn
<1>3. d.mine /\ d.lp = "dialled" /\ d.sv = "accepted" /\ d.down = <<>> /\ d.up = <<>>
    BY DEF Blank
<1> HIDE DEF d
<1>4. ConnOK' /\ HostAside /\ TalkAside /\ \A k \in Member : k # m => GuestAside(k)
    BY <1>1, <1>2, <1>3, OneSlot, InFacts
<1>5. conn'[m][n].mine /\ conn'[m][n].lp = "dialled"
    BY <1>1, <1>2, <1>3, SlotBecomes
<1>6. \A i \in Slot : i # n => conn'[m][i] = conn[m][i]
    BY <1>1, <1>2, SlotBecomes
<1>7. /\ \A i \in Slot : ~conn[m][i].mine
      /\ redials'[m] = 0 /\ cli[m] \in {"dialling", "live"}
      /\ redials' \in [Member -> 0 .. 1] /\ \A k \in Member : k # m => redials'[k] = redials[k]
    BY DEF Connect, Inv, GuestOK, Own, OwnOf, Mine
<1>8. OwnOf(m)'
    BY <1>5, <1>6, <1>7 DEF Connect, Inv, Own, OwnOf, Mine
<1>9. ASSUME NEW k \in Member, k # m PROVE OwnOf(k)'
    BY <1>4, <1>7, <1>9 DEF Connect, GuestAside, Inv, Own, OwnOf, Mine
<1>10. GuestOK' /\ CutsOK'
    BY <1>7 DEF Connect, Inv, GuestOK, CutsOK
<1> QED BY <1>4, <1>8, <1>9, <1>10, HostAsideKeeps, TalkAsideKeeps DEF Connect, Inv, Own

LEMMA AdoptKeeps ==
    ASSUME Inv, NEW m \in Member, NEW n \in Slot, Adopt(m, n)
    PROVE  Inv'
<1> DEFINE c == conn[m][n]
           d == IF c.mine THEN [c EXCEPT !.lp = "back"] ELSE [c EXCEPT !.lp = "none", !.near = FALSE]
<1>1. c \in Conn /\ c.lp = "dialled" /\ Set(m, n, d)
    BY SlotType DEF Adopt
<1>2. /\ d \in Conn /\ d.sv = c.sv /\ d.far = c.far /\ d.mine = c.mine
      /\ d.down = c.down /\ d.up = c.up
      /\ d.lp = IF c.mine THEN "back" ELSE "none"
    BY <1>1 DEF Conn
<1> HIDE DEF c, d
<1>3. ConnOK' /\ HostAside /\ TalkAside /\ \A k \in Member : k # m => GuestAside(k)
    BY <1>1, <1>2, OneSlot DEF c
<1>4. /\ conn'[m][n].lp = d.lp /\ (conn'[m][n].mine => d.mine) /\ (d.mine => conn'[m][n].mine)
      /\ \A i \in Slot : i # n => conn'[m][i] = conn[m][i]
    BY <1>1, <1>2, SlotBecomes
<1>5. OwnOf(m)'
    BY <1>1, <1>2, <1>4 DEF Adopt, guest, c, Inv, Own, OwnOf, Mine
<1>6. \A k \in Member : OwnOf(k)'
    BY <1>3, <1>5, GuestAsideKeeps DEF Adopt
<1> QED BY <1>3, <1>6, HostAsideKeeps, TalkAsideKeeps, GuestTypes DEF Adopt, Inv, Own, CutsOK

LEMMA SayPresentKeeps ==
    ASSUME Inv, NEW m \in Member, NEW n \in Slot, SayPresent(m, n)
    PROVE  Inv'
<1> DEFINE c == conn[m][n]
           d == [c EXCEPT !.lp = "read"]
<1>1. c \in Conn /\ c.lp = "back" /\ Set(m, n, d)
    BY SlotType DEF SayPresent
<1>2. /\ d \in Conn /\ d.sv = c.sv /\ d.far = c.far /\ d.mine = c.mine
      /\ d.down = c.down /\ d.up = c.up /\ d.lp = "read"
    BY <1>1 DEF Conn
<1>3. /\ said' = [said EXCEPT ![m] = IF c.mine THEN "present" ELSE "nothing"]
      /\ cli' = [cli EXCEPT ![m] = IF c.mine THEN "live" ELSE cli[m]]
    BY DEF SayPresent
<1> HIDE DEF c, d
<1>4. ConnOK' /\ HostAside /\ TalkAside /\ \A k \in Member : k # m => GuestAside(k)
    BY <1>1, <1>2, OneSlot DEF c
<1>5. /\ conn'[m][n].lp = d.lp /\ (conn'[m][n].mine => d.mine) /\ (d.mine => conn'[m][n].mine)
      /\ \A i \in Slot : i # n => conn'[m][i] = conn[m][i]
    BY <1>1, <1>2, SlotBecomes
<1>6. OwnOf(m)'
    <2>1. CASE c.mine
        <3>1. said'[m] = "present" /\ cli'[m] = "live" /\ redials'[m] = redials[m]
            BY <1>3, <2>1 DEF SayPresent, Inv, GuestOK
        <3>2. conn'[m][n].mine /\ conn'[m][n].lp = "read"
            BY <1>2, <1>5, <2>1
        <3>3. redials[m] # 1 /\ \A i \in Slot : i # n => ~conn[m][i].mine
            BY <2>1 DEF c, Inv, Own, OwnOf, Mine
        <3> QED BY <1>5, <3>1, <3>2, <3>3 DEF OwnOf, Mine
    <2>2. CASE ~c.mine
        <3>1. redials'[m] = redials[m] /\ said'[m] = "nothing" /\ cli'[m] = cli[m]
            BY <1>3, <2>2 DEF SayPresent, Inv, GuestOK
        <3>2. \A i \in Slot : (conn'[m][i].mine <=> conn[m][i].mine)
                            /\ (conn[m][i].mine => conn'[m][i].lp = conn[m][i].lp)
            BY <1>2, <1>5, <2>2 DEF c
        <3> QED BY <3>1, <3>2 DEF Inv, Own, OwnOf, Mine
    <2> QED BY <2>1, <2>2
<1>7. ASSUME NEW k \in Member, k # m PROVE OwnOf(k)'
    BY <1>3, <1>4, <1>7 DEF SayPresent, GuestAside, Inv, GuestOK, Own, OwnOf, Mine
<1>8. GuestOK' /\ CutsOK'
    BY <1>3 DEF SayPresent, Inv, GuestOK, CutsOK
<1> QED BY <1>4, <1>6, <1>7, <1>8, HostAsideKeeps, TalkAsideKeeps DEF SayPresent, Inv, Own

LEMMA SayAbsentKeeps ==
    ASSUME Inv, NEW m \in Member, NEW n \in Slot, SayAbsent(m, n)
    PROVE  Inv'
<1> DEFINE c == conn[m][n]
           d == [c EXCEPT !.lp = "none", !.mine = FALSE]
<1>1. c \in Conn /\ c.lp = "lost" /\ Set(m, n, d)
    BY SlotType DEF SayAbsent
<1>2. /\ d \in Conn /\ d.sv = c.sv /\ d.far = c.far /\ d.mine = FALSE
      /\ d.down = c.down /\ d.up = c.up /\ d.lp = "none"
    BY <1>1 DEF Conn
<1>3. /\ said' = [said EXCEPT ![m] = IF c.mine THEN "absent" ELSE "nothing"]
      /\ redials' = [redials EXCEPT ![m] = IF c.mine THEN redials[m] + 1 ELSE redials[m]]
    BY DEF SayAbsent
<1> HIDE DEF c, d
<1>4. ConnOK' /\ HostAside /\ TalkAside /\ \A k \in Member : k # m => GuestAside(k)
    BY <1>1, <1>2, OneSlot DEF c
<1>5. /\ conn'[m][n].lp = "none" /\ ~conn'[m][n].mine
      /\ \A i \in Slot : i # n => conn'[m][i] = conn[m][i]
    BY <1>1, <1>2, SlotBecomes
<1>6. c.mine => redials[m] = 0 /\ cli[m] = "live" /\ \A i \in Slot : i # n => ~conn[m][i].mine
    BY <1>1 DEF c, Inv, GuestOK, Own, OwnOf, Mine
<1>7. redials' \in [Member -> 0 .. 1]
    BY <1>3, <1>6 DEF Inv, GuestOK
<1>8. OwnOf(m)'
    <2>1. CASE c.mine
        <3>1. redials'[m] = 1 /\ said'[m] = "absent" /\ cli'[m] = "live"
            BY <1>3, <1>6, <2>1 DEF SayAbsent, Inv, GuestOK
        <3>2. \A i \in Slot : ~conn'[m][i].mine
            BY <1>5, <1>6, <2>1
        <3> QED BY <3>1, <3>2 DEF OwnOf, Mine
    <2>2. CASE ~c.mine
        <3>1. redials'[m] = redials[m] /\ said'[m] = "nothing" /\ cli'[m] = cli[m]
            BY <1>3, <2>2 DEF SayAbsent, Inv, GuestOK
        <3>2. \A i \in Slot : (conn'[m][i].mine <=> conn[m][i].mine)
                            /\ (conn[m][i].mine => conn'[m][i].lp = conn[m][i].lp)
            BY <1>5, <2>2 DEF c
        <3> QED BY <3>1, <3>2 DEF Inv, Own, OwnOf, Mine
    <2> QED BY <2>1, <2>2
<1>9. ASSUME NEW k \in Member, k # m PROVE OwnOf(k)'
    BY <1>3, <1>4, <1>9 DEF SayAbsent, GuestAside, Inv, GuestOK, Own, OwnOf, Mine
<1>10. GuestOK' /\ CutsOK'
    BY <1>3, <1>7 DEF SayAbsent, Inv, GuestOK, CutsOK
<1> QED BY <1>4, <1>8, <1>9, <1>10, HostAsideKeeps, TalkAsideKeeps DEF SayAbsent, Inv, Own

LEMMA ReadEndsKeeps ==
    ASSUME Inv, NEW m \in Member, NEW n \in Slot, ReadEnds(m, n)
    PROVE  Inv'
<1> DEFINE c == conn[m][n]
           d == [c EXCEPT !.near = FALSE, !.lp = IF c.mine THEN "lost" ELSE "none"]
<1>1. c \in Conn /\ c.lp = "read" /\ Set(m, n, d)
    BY SlotType DEF ReadEnds
<1>2. /\ d \in Conn /\ d.sv = c.sv /\ d.far = c.far /\ d.mine = c.mine
      /\ d.down = c.down /\ d.up = c.up
      /\ d.lp = IF c.mine THEN "lost" ELSE "none"
    BY <1>1 DEF Conn
<1> HIDE DEF c, d
<1>3. ConnOK' /\ HostAside /\ TalkAside /\ \A k \in Member : k # m => GuestAside(k)
    BY <1>1, <1>2, OneSlot DEF c
<1>4. /\ conn'[m][n].lp = d.lp /\ (conn'[m][n].mine => d.mine) /\ (d.mine => conn'[m][n].mine)
      /\ \A i \in Slot : i # n => conn'[m][i] = conn[m][i]
    BY <1>1, <1>2, SlotBecomes
<1>5. OwnOf(m)'
    BY <1>1, <1>2, <1>4 DEF ReadEnds, guest, c, Inv, Own, OwnOf, Mine
<1>6. \A k \in Member : OwnOf(k)'
    BY <1>3, <1>5, GuestAsideKeeps DEF ReadEnds
<1> QED BY <1>3, <1>6, HostAsideKeeps, TalkAsideKeeps, GuestTypes DEF ReadEnds, Inv, Own, CutsOK

\* An acknowledgement with the number of the notice that waits is sent by who
\* has just read it.
LEMMA ReadNoticeKeeps ==
    ASSUME Inv, NEW m \in Member, NEW n \in Slot, ReadNotice(m, n)
    PROVE  Inv'
<1> DEFINE c == conn[m][n]
           x == Head(c.down)
           up == IF c.far /\ ~c.cut THEN Append(c.up, x.seq) ELSE c.up
           d == [c EXCEPT !.down = Tail(c.down), !.up = up]
<1>1. /\ c \in Conn /\ c.lp = "read" /\ c.down # <<>> /\ Set(m, n, d)
      /\ read' = IF waiting /\ x.id = sent THEN read \cup {m} ELSE read
    BY SlotType DEF ReadNotice
<1>2. /\ c.down \in Seq(Message) /\ c.up \in Seq(Notices)
    BY <1>1 DEF Conn
<1>3. /\ x \in In(c.down) /\ x \in Message
      /\ Tail(c.down) \in Seq(Message) /\ In(Tail(c.down)) \subseteq In(c.down)
    BY <1>1, <1>2, InFacts
<1>4. x.seq \in Notices
    BY <1>3 DEF Message
<1>5. up \in Seq(Notices) /\ In(up) \subseteq In(c.up) \cup {x.seq}
    BY <1>2, <1>4, InFacts
<1> HIDE DEF x, up
<1>6. /\ d \in Conn /\ d.sv = c.sv /\ d.far = c.far /\ d.mine = c.mine /\ d.lp = c.lp
      /\ d.down = Tail(c.down) /\ d.up = up
    BY <1>1, <1>3, <1>5 DEF Conn
<1> HIDE DEF d
<1>7. /\ ConnOK' /\ HostAside /\ GuestAside(m) /\ \A k \in Member : k # m => GuestAside(k)
    BY <1>1, <1>6, OneSlot
<1>8. /\ In(conn'[m][n].down) \subseteq In(c.down)
      /\ In(conn'[m][n].up) \subseteq In(c.up) \cup {x.seq}
      /\ \A k \in Member, i \in Slot : k # m \/ i # n => conn'[k][i] = conn[k][i]
    BY <1>1, <1>3, <1>5, <1>6, SlotBecomes
<1>9. x.id = x.seq /\ x.id <= sent /\ seq = sent
    BY <1>3 DEF c, Inv, Talk
<1>10. read \subseteq read' /\ (waiting /\ x.seq = seq => read' # {})
    BY <1>1, <1>9
<1>11. Talk'
    <2>1. UNCHANGED <<seq, sent, waiting, acked>>
        BY DEF ReadNotice
    <2> QED BY <1>8, <1>9, <1>10, <2>1 DEF c, Inv, Talk
<1>12. TalkOK' /\ CutsOK'
    BY <1>1 DEF ReadNotice, Inv, TalkOK, CutsOK
<1>13. \A k \in Member : OwnOf(k)'
    BY <1>7, GuestAsideKeeps DEF ReadNotice
<1> QED BY <1>7, <1>11, <1>12, <1>13, HostAsideKeeps, GuestTypes DEF ReadNotice, Inv, Own

(***************************************************************************)
(* The host's steps.                                                       *)
(***************************************************************************)

LEMMA GuestAsideAll ==
    ASSUME Inv, UNCHANGED guest, \A m \in Member : GuestAside(m)
    PROVE  GuestOK' /\ Own'
BY GuestAsideKeeps, GuestTypes DEF Own

LEMMA CheckKeeps ==
    ASSUME Inv, NEW m \in Member, NEW n \in Slot, Check(m, n)
    PROVE  Inv'
<1> DEFINE c == conn[m][n]
<1>1. PICK d \in Conn : /\ Set(m, n, d) /\ d.sv \in {"checked", "none"}
                       /\ d.mine = c.mine /\ d.lp = c.lp /\ d.down = c.down /\ d.up = c.up
    <2>1. c \in Conn
        BY SlotType
    <2>2. /\ [c EXCEPT !.sv = "checked"] \in Conn
          /\ [c EXCEPT !.sv = "none", !.far = FALSE] \in Conn
        BY <2>1 DEF Conn
    <2>3. CASE Set(m, n, [c EXCEPT !.sv = "checked"])
        BY <2>1, <2>2, <2>3 DEF Conn
    <2>4. CASE Set(m, n, [c EXCEPT !.sv = "none", !.far = FALSE])
        BY <2>1, <2>2, <2>4 DEF Conn
    <2> QED BY <2>3, <2>4 DEF Check
<1>2. ConnOK' /\ HostAside /\ TalkAside /\ \A k \in Member : GuestAside(k)
    BY <1>1, OneSlot
<1> QED BY <1>2, HostAsideKeeps, TalkAsideKeeps, GuestAsideAll DEF Check, Inv, CutsOK

\* The connection there was is closed, so the new one is the only one left open.
LEMMA RegisterKeeps ==
    ASSUME Inv, NEW m \in Member, NEW n \in Slot, Register(m, n)
    PROVE  Inv'
<1> DEFINE c(i) == conn[m][i]
           next(i) == IF i = n THEN [c(i) EXCEPT !.sv = "open"]
                      ELSE IF i = conns[m] THEN Tidy(Closed(c(i))) ELSE c(i)
<1>1. \A i \in Slot : c(i) \in Conn /\ (c(i).mine => c(i).lp # "none")
    BY SlotType DEF Inv, Own, OwnOf, Mine
<1>3. ASSUME NEW i \in Slot
      PROVE  LET t == Tidy(Closed(c(i))) IN
        /\ t \in Conn /\ ~t.far /\ (t.mine <=> c(i).mine) /\ t.lp = c(i).lp
        /\ In(t.down) \subseteq In(c(i).down) /\ In(t.up) \subseteq In(c(i).up)
    <2> HIDE DEF c
    <2> QED BY <1>1, ClosedFacts, InFacts
<1>4. [c(n) EXCEPT !.sv = "open"] \in Conn
    BY SlotType DEF Conn
<1>5. conn' = [conn EXCEPT ![m] = [i \in Slot |-> next(i)]]
    BY DEF Register, Closed
<1>6. /\ \A k \in Member : k # m => conn'[k] = conn[k]
      /\ \A i \in Slot : conn'[m][i] = next(i)
    BY <1>5 DEF Inv, ConnOK
<1>7. \A i \in Slot :
        /\ next(i) \in Conn /\ (next(i).mine <=> c(i).mine) /\ next(i).lp = c(i).lp
        /\ In(next(i).down) \subseteq In(c(i).down) /\ In(next(i).up) \subseteq In(c(i).up)
    <2>1. c(n) \in Conn
        BY SlotType
    <2>2. /\ [c(n) EXCEPT !.sv = "open"].mine = c(n).mine /\ [c(n) EXCEPT !.sv = "open"].lp = c(n).lp
          /\ [c(n) EXCEPT !.sv = "open"].down = c(n).down /\ [c(n) EXCEPT !.sv = "open"].up = c(n).up
        BY <2>1 DEF Conn
    <2>3. \A i \in Slot : c(i) \in Conn
        BY SlotType
    <2> HIDE DEF c
    <2> QED BY <1>3, <1>4, <2>2, <2>3
<1>8. \A i \in Slot : next(i).sv = "open" /\ next(i).far =>
                         i = n \/ (c(i).sv = "open" /\ c(i).far /\ i # conns[m])
    BY <1>3
<1> HIDE DEF next
<1>9. ConnOK' /\ TalkAside /\ \A k \in Member : GuestAside(k)
    BY <1>5, <1>6, <1>7 DEF Inv, ConnOK, TalkAside, GuestAside
<1>10. /\ conns' = [conns EXCEPT ![m] = n] /\ conns'[m] = n
       /\ \A k \in Member : k # m => conns'[k] = conns[k]
    BY DEF Register, Inv, HostOK
<1>11. Reachable'
    BY <1>6, <1>8, <1>10 DEF Inv, Reachable
<1>12. HostOK' /\ CutsOK'
    BY <1>10, SlotsAssumption DEF Register, Inv, HostOK, CutsOK, Slot
<1> QED BY <1>9, <1>11, <1>12, TalkAsideKeeps, GuestAsideAll DEF Register, Inv

LEMMA TakeAckKeeps ==
    ASSUME Inv, NEW m \in Member, NEW n \in Slot, TakeAck(m, n)
    PROVE  Inv'
<1> DEFINE c == conn[m][n]
           d == [c EXCEPT !.up = Tail(c.up)]
<1>1. /\ c \in Conn /\ c.sv = "open" /\ c.far /\ c.up # <<>> /\ Set(m, n, d)
      /\ acked' = (acked \/ (waiting /\ Head(c.up) = seq))
    BY SlotType DEF TakeAck
<1>2. c.up \in Seq(Notices)
    BY <1>1 DEF Conn
<1>3. Head(c.up) \in In(c.up) /\ Tail(c.up) \in Seq(Notices) /\ In(Tail(c.up)) \subseteq In(c.up)
    BY <1>1, <1>2, InFacts
<1>4. /\ d \in Conn /\ d.sv = c.sv /\ d.far = c.far /\ d.mine = c.mine /\ d.lp = c.lp
      /\ d.down = c.down /\ d.up = Tail(c.up)
    BY <1>1, <1>3 DEF Conn
<1> HIDE DEF d
<1>5. ConnOK' /\ HostAside /\ TalkAside /\ \A k \in Member : GuestAside(k)
    BY <1>1, <1>3, <1>4, OneSlot
<1>6. waiting /\ acked' => read # {}
    BY <1>1, <1>3 DEF Inv, Talk
<1>8. UNCHANGED <<seq, waiting, sent, read, cuts>>
    BY DEF TakeAck
<1>7. Talk' /\ TalkOK' /\ CutsOK'
    <2>1. acked' \in BOOLEAN
        BY <1>1 DEF Inv, TalkOK
    <2> QED BY <1>5, <1>6, <1>8, <2>1 DEF TalkAside, Inv, Talk, TalkOK, CutsOK
<1> QED BY <1>5, <1>7, HostAsideKeeps, GuestAsideAll DEF TakeAck, Inv

LEMMA ServerReadEndsKeeps ==
    ASSUME Inv, NEW m \in Member, NEW n \in Slot, ServerReadEnds(m, n)
    PROVE  Inv'
<1> DEFINE c == conn[m][n]
           d == [c EXCEPT !.far = FALSE, !.sv = "ended"]
<1>1. c \in Conn /\ Set(m, n, d)
    BY SlotType DEF ServerReadEnds
<1>2. /\ d \in Conn /\ d.sv = "ended" /\ d.mine = c.mine /\ d.lp = c.lp
      /\ d.down = c.down /\ d.up = c.up
    BY <1>1 DEF Conn
<1> HIDE DEF d
<1>3. ConnOK' /\ HostAside /\ TalkAside /\ \A k \in Member : GuestAside(k)
    BY <1>1, <1>2, OneSlot
<1> QED BY <1>3, HostAsideKeeps, TalkAsideKeeps, GuestAsideAll DEF ServerReadEnds, Inv, CutsOK

\* The end of a connection takes no other out of the table.
LEMMA RemoveKeeps ==
    ASSUME Inv, NEW m \in Member, NEW n \in Slot, Remove(m, n)
    PROVE  Inv'
<1> DEFINE c == conn[m][n]
           d == [c EXCEPT !.sv = "none"]
<1>1. c \in Conn /\ Set(m, n, d)
    BY SlotType DEF Remove
<1>2. /\ d \in Conn /\ d.sv = "none" /\ d.mine = c.mine /\ d.lp = c.lp
      /\ d.down = c.down /\ d.up = c.up
    BY <1>1 DEF Conn
<1> HIDE DEF d
<1>3. ConnOK' /\ HostAside /\ TalkAside /\ \A k \in Member : GuestAside(k)
    BY <1>1, <1>2, OneSlot
<1>4. /\ conn'[m][n].sv = "none"
      /\ \A k \in Member, i \in Slot : k # m \/ i # n => conn'[k][i] = conn[k][i]
    BY <1>1, <1>2, SlotBecomes
<1>5. /\ \A k \in Member : k # m => conns'[k] = conns[k]
      /\ \A i \in Slot : i # n /\ conns[m] = i => conns'[m] = i
      /\ conns' \in [Member -> 0 .. Slots]
    BY SlotsAssumption DEF Remove, Inv, HostOK, Slot
<1>6. Reachable' /\ HostOK' /\ CutsOK'
    BY <1>4, <1>5 DEF Remove, Inv, Reachable, HostOK, CutsOK
<1> QED BY <1>3, <1>6, TalkAsideKeeps, GuestAsideAll DEF Remove, Inv

\* A change of the scope, or the end of the listener.
LEMMA DroppedKeeps ==
    ASSUME Inv, NEW S, Dropped(S), UNCHANGED <<guest, talk, cuts>>,
           serving' \in BOOLEAN, members' \subseteq Member
    PROVE  Inv'
<1> DEFINE c(k, i) == conn[k][i]
<1>2. \A k \in Member, i \in Slot : c(k, i) \in Conn /\ (c(k, i).mine => c(k, i).lp # "none")
    BY SlotType DEF Inv, Own, OwnOf, Mine
<1>3. /\ conns' = [k \in Member |-> IF k \in S THEN conns[k] ELSE 0]
      /\ conn' = [k \in Member |-> [i \in Slot |->
            IF k \notin S /\ i = conns[k] THEN Tidy(Closed(c(k, i))) ELSE c(k, i)]]
    BY DEF Dropped, Closed
<1> HIDE DEF c
<1>4. ASSUME NEW k \in Member, NEW i \in Slot
      PROVE  LET t == Tidy(Closed(c(k, i))) IN
             /\ t \in Conn /\ ~t.far /\ (t.mine <=> c(k, i).mine) /\ t.lp = c(k, i).lp
             /\ In(t.down) \subseteq In(c(k, i).down) /\ In(t.up) \subseteq In(c(k, i).up)
    BY <1>2, ClosedFacts, InFacts
<1>5. ConnOK'
    BY <1>2, <1>3, <1>4 DEF ConnOK
<1>6. \A k \in Member, i \in Slot :
        conn'[k][i] = IF k \notin S /\ i = conns[k] THEN Tidy(Closed(c(k, i))) ELSE c(k, i)
    BY <1>3
<1>7. TalkAside
    BY <1>4, <1>6 DEF TalkAside, c
<1>8. \A k \in Member : GuestAside(k)
    BY <1>4, <1>6 DEF GuestAside, c
<1>9. Reachable'
    <2> SUFFICES ASSUME NEW k \in Member, NEW i \in Slot,
                        conn'[k][i].sv = "open", conn'[k][i].far
                 PROVE  conns'[k] = i
        BY DEF Reachable
    <2>1. ~(k \notin S /\ i = conns[k]) /\ conn'[k][i] = conn[k][i]
        BY <1>4, <1>6 DEF c
    <2>2. conns[k] = i
        BY <2>1 DEF Inv, Reachable
    <2> QED BY <1>3, <2>1, <2>2
<1>10. HostOK' /\ CutsOK'
    BY <1>3, SlotsAssumption DEF Inv, HostOK, CutsOK
<1> QED BY <1>5, <1>7, <1>8, <1>9, <1>10, TalkAsideKeeps, GuestAsideAll DEF Inv

LEMMA WrittenFacts ==
    ASSUME NEW c \in Conn, c.mine => c.lp # "none", NEW x \in Message
    PROVE  LET t == Written(c, x) IN
           /\ t \in Conn /\ (t.mine <=> c.mine) /\ t.lp = c.lp
           /\ t.sv = "open" /\ t.far => c.sv = "open" /\ c.far
           /\ In(t.down) \subseteq In(c.down) \cup {x} /\ In(t.up) \subseteq In(c.up)
<1>1. CASE Len(c.down) = Backlog
    BY <1>1, ClosedFacts, InFacts DEF Written, Closed
<1>2. CASE Len(c.down) # Backlog
    <2>1. c.down \in Seq(Message)
        BY DEF Conn
    <2>2. Append(c.down, x) \in Seq(Message) /\ In(Append(c.down, x)) = In(c.down) \cup {x}
        BY <2>1, InFacts
    <2>3. Written(c, x) = [c EXCEPT !.down = Append(c.down, x)]
        BY <1>2 DEF Written
    <2>4. /\ Written(c, x) \in Conn /\ Written(c, x).mine = c.mine /\ Written(c, x).lp = c.lp
          /\ Written(c, x).sv = c.sv /\ Written(c, x).far = c.far
          /\ Written(c, x).down = Append(c.down, x) /\ Written(c, x).up = c.up
        BY <2>2, <2>3 DEF Conn
    <2> QED BY <2>2, <2>4
<1> QED BY <1>1, <1>2

LEMMA NotifyKeeps == ASSUME Inv, NEW D, Notify(D) PROVE Inv'
<1> DEFINE c(k, i) == conn[k][i]
           x == [id |-> sent', seq |-> seq']
<1>1. sent' = sent + 1 /\ seq' = seq + 1 /\ sent' \in Notices /\ seq' = sent'
    BY BoundAssumption DEF Notify, NextAck, Inv, TalkOK, Talk, Notices
<1>2. x \in Message /\ x.id = sent' /\ x.seq = seq'
    BY <1>1 DEF Message
<1>3. conn' = [k \in Member |-> [i \in Slot |->
        IF k \in D /\ i = conns[k] /\ c(k, i).far /\ c(k, i).near /\ ~c(k, i).cut
        THEN Written(c(k, i), x) ELSE c(k, i)]]
    BY DEF Notify
<1> HIDE DEF x
<1>4. \A k \in Member, i \in Slot : c(k, i) \in Conn /\ (c(k, i).mine => c(k, i).lp # "none")
    BY SlotType DEF Inv, Own, OwnOf, Mine
<1> HIDE DEF c
<1>7. ASSUME NEW k \in Member, NEW i \in Slot
      PROVE  LET t == Written(c(k, i), x) IN
             /\ t \in Conn /\ (t.mine <=> c(k, i).mine) /\ t.lp = c(k, i).lp
             /\ t.sv = "open" /\ t.far => c(k, i).sv = "open" /\ c(k, i).far
             /\ In(t.down) \subseteq In(c(k, i).down) \cup {x} /\ In(t.up) \subseteq In(c(k, i).up)
    BY <1>2, <1>4, WrittenFacts
<1>8. ASSUME NEW k \in Member, NEW i \in Slot
      PROVE  conn'[k][i] = c(k, i) \/ conn'[k][i] = Written(c(k, i), x)
    BY <1>3
<1>9. ConnOK'
    BY <1>3, <1>4, <1>7 DEF ConnOK
<1>10. \A k \in Member : GuestAside(k)
    BY <1>7, <1>8 DEF GuestAside, c
<1>11. HostAside
    BY <1>7, <1>8 DEF HostAside, c
<1>12. Talk'
    <2>1. ~acked' /\ read' = {} /\ seq' = sent'
        BY <1>1 DEF Notify
    <2>2. ASSUME NEW k \in Member, NEW i \in Slot
          PROVE  /\ In(conn'[k][i].down) \subseteq In(c(k, i).down) \cup {x}
                 /\ In(conn'[k][i].up) \subseteq In(c(k, i).up)
        BY <1>7, <1>8
    <2>3. ASSUME NEW k \in Member, NEW i \in Slot, NEW y \in In(conn'[k][i].down)
          PROVE  y.id = y.seq /\ y.id <= sent'
        <3>1. CASE y = x
            BY <1>1, <1>2, <3>1
        <3>2. CASE y \in In(c(k, i).down)
            <4>1. c(k, i).down \in Seq(Message)
                BY <1>4 DEF Conn
            <4>2. y \in Message
                BY <3>2, <4>1 DEF In
            <4> QED BY <1>1, <3>2, <4>2 DEF c, Inv, Talk, TalkOK, Message, Notices
        <3> QED BY <2>2, <3>1, <3>2
    <2>4. ASSUME NEW k \in Member, NEW i \in Slot, NEW y \in In(conn'[k][i].up)
          PROVE  y <= seq' /\ y # seq'
        <3>1. y \in In(c(k, i).up) /\ c(k, i).up \in Seq(Notices)
            BY <1>4, <2>2 DEF Conn
        <3>2. y \in Nat
            <4>1. y \in Notices
                BY <3>1 DEF In
            <4> QED BY <4>1 DEF Notices
        <3>3. y <= seq /\ seq \in Nat
            BY <3>1 DEF c, Inv, Talk, TalkOK
        <3> QED BY <1>1, <3>2, <3>3
    <2> QED BY <2>1, <2>3, <2>4 DEF Talk
<1>13. TalkOK' /\ CutsOK'
    <2>1. seq' \in 0 .. MaxNotice /\ sent' \in 0 .. MaxNotice
        BY <1>1, BoundAssumption DEF Notices
    <2> QED BY <2>1 DEF Notify, Inv, TalkOK, CutsOK
<1> QED BY <1>9, <1>10, <1>11, <1>12, <1>13, HostAsideKeeps, GuestAsideAll DEF Notify, Inv

LEMMA NotifyEndsKeeps == ASSUME Inv, NotifyEnds PROVE Inv'
<1>1. ConnOK' /\ HostAside /\ \A m \in Member : GuestAside(m)
    BY DEF NotifyEnds, Inv, ConnOK, HostAside, GuestAside
<1>2. Talk' /\ TalkOK' /\ CutsOK'
    BY DEF NotifyEnds, Inv, Talk, TalkOK, CutsOK
<1> QED BY <1>1, <1>2, HostAsideKeeps, GuestAsideAll DEF NotifyEnds, Inv

LEMMA CutKeeps == ASSUME Inv, NEW m \in Member, NEW n \in Slot, Cut(m, n) PROVE Inv'
<1> DEFINE c == conn[m][n]
           d == [c EXCEPT !.cut = TRUE, !.down = <<>>, !.up = <<>>]
<1>1. c \in Conn /\ Set(m, n, d)
    BY SlotType DEF Cut
<1>2. /\ d \in Conn /\ d.sv = c.sv /\ d.far = c.far /\ d.mine = c.mine /\ d.lp = c.lp
      /\ d.down = <<>> /\ d.up = <<>>
    <2>1. <<>> \in Seq(Message) /\ <<>> \in Seq(Notices)
        OBVIOUS
    <2> QED BY <1>1, <2>1 DEF Conn
<1> HIDE DEF d
<1>3. ConnOK' /\ HostAside /\ TalkAside /\ \A k \in Member : GuestAside(k)
    BY <1>1, <1>2, OneSlot, InFacts
<1>4. CutsOK'
    BY BoundAssumption DEF Cut, Inv, CutsOK
<1> QED BY <1>3, <1>4, HostAsideKeeps, TalkAsideKeeps, GuestAsideAll DEF Cut, Inv

LEMMA StutterKeeps == ASSUME Inv, UNCHANGED vars PROVE Inv'
<1>1. ConnOK' /\ HostAside /\ TalkAside /\ \A m \in Member : GuestAside(m)
    BY DEF vars, Inv, ConnOK, HostAside, TalkAside, GuestAside
<1>2. UNCHANGED host /\ UNCHANGED guest /\ UNCHANGED talk /\ CutsOK'
    BY DEF vars, Inv, CutsOK
<1> QED BY <1>1, <1>2, HostAsideKeeps, TalkAsideKeeps, GuestAsideAll DEF Inv

LEMMA InvInit == Init => Inv
<1> SUFFICES ASSUME Init PROVE Inv
    OBVIOUS
<1>1. ConnOK
    BY BlankType DEF Init, ConnOK
<1>2. \A m \in Member, n \in Slot :
        /\ conn[m][n].sv = "none" /\ ~conn[m][n].mine /\ conn[m][n].down = <<>> /\ conn[m][n].up = <<>>
    BY DEF Init, Blank
<1>3. Reachable /\ Talk
    BY <1>2, InFacts DEF Init, Reachable, Talk
<1>4. Own
    <2>1. \A m \in Member : cli[m] = "none" /\ redials[m] = 0 /\ said[m] = "nothing"
        BY DEF Init
    <2>2. ASSUME NEW m \in Member PROVE OwnOf(m)
        <3>1. /\ \A n \in Slot : ~Mine(m, n)
              /\ cli[m] # "live" /\ redials[m] # 1 /\ said[m] # "present"
            BY <1>2, <2>1 DEF Mine
        <3> QED BY <2>1, <3>1 DEF OwnOf
    <2> QED BY <2>2 DEF Own
<1>5. HostOK /\ GuestOK
    <2>1. 0 \in 0 .. Slots
        BY SlotsAssumption
    <2> QED BY <2>1 DEF Init, HostOK, GuestOK
<1>6. TalkOK /\ CutsOK
    <2>1. 0 \in 0 .. MaxNotice /\ 0 \in 0 .. MaxCut
        BY BoundAssumption
    <2> QED BY <2>1 DEF Init, TalkOK, CutsOK
<1> QED BY <1>1, <1>3, <1>4, <1>5, <1>6 DEF Inv

LEMMA InvStep == Inv /\ [Next]_vars => Inv'
<1> SUFFICES ASSUME Inv, [Next]_vars PROVE Inv'
    OBVIOUS
<1>1. ASSUME NEW m \in Member, GuestTurn(m) PROVE Inv'
    <2>1. CASE Connect(m)
        BY <2>1, ConnectKeeps
    <2>2. CASE RedialFails(m)
        BY <2>2, StutterKeeps DEF RedialFails
    <2>3. ASSUME NEW n \in Slot,
                 \/ Adopt(m, n) \/ SayPresent(m, n) \/ ReadNotice(m, n)
                 \/ ReadEnds(m, n) \/ SayAbsent(m, n)
          PROVE  Inv'
        BY <2>3, AdoptKeeps, SayPresentKeeps, ReadNoticeKeeps, ReadEndsKeeps, SayAbsentKeeps
    <2> QED BY <1>1, <2>1, <2>2, <2>3 DEF GuestTurn
<1>2. ASSUME NEW m \in Member, ServerTurn(m) PROVE Inv'
    BY <1>2, CheckKeeps, RegisterKeeps, TakeAckKeeps, ServerReadEndsKeeps, RemoveKeeps DEF ServerTurn
<1>3. ASSUME NEW m \in Member, Session(m) PROVE Inv'
    BY <1>3, StopClientKeeps DEF Session, Dial, DialFails, Close
<1>4. CASE HostSession
    <2>1. ASSUME NEW S \in SUBSET Member, Rescope(S) PROVE Inv'
        BY <2>1, DroppedKeeps DEF Rescope, Inv, HostOK
    <2>2. CASE Stop
        BY <2>2, DroppedKeeps DEF Stop, Inv, HostOK
    <2> QED BY <1>4, <2>1, <2>2, NotifyKeeps, NotifyEndsKeeps DEF HostSession
<1>5. ASSUME NEW m \in Member, NEW n \in Slot, Cut(m, n) PROVE Inv'
    BY <1>5, CutKeeps
<1> QED BY <1>1, <1>2, <1>3, <1>4, <1>5, StutterKeeps DEF Next

(***************************************************************************)
(* What follows from it.                                                   *)
(***************************************************************************)

\* Types of every variable.
THEOREM TypeCorrect == Spec => []TypeOK
<1>1. Inv => TypeOK
    BY TypeParts DEF Inv, RestOK, HostOK, GuestOK, TalkOK, CutsOK
<1> QED BY <1>1, InvInit, InvStep, PTL DEF Spec

\* However connections of one member come and go, the one that the host reads
\* is the one that notices are sent to.
THEOREM WhoIsReadIsReached == Spec => []Reachable
<1>1. Inv => Reachable
    BY DEF Inv
<1> QED BY <1>1, InvInit, InvStep, PTL DEF Spec

\* A client that is current has one goroutine after its connection: never none,
\* never two, in any order of losses, redials and replacements.
THEOREM OneWatcher == Spec => []Watched
<1>1. Inv => Watched
    <2> SUFFICES ASSUME Inv, NEW m \in Member, cli[m] = "live"
                 PROVE  redials[m] + Cardinality({n \in Slot : conn[m][n].mine /\ conn[m][n].lp # "none"}) = 1
        BY DEF Watched
    <2> DEFINE W == {n \in Slot : conn[m][n].mine /\ conn[m][n].lp # "none"}
    <2>1. redials[m] \in {0, 1}
        BY DEF Inv, GuestOK
    <2>2. CASE redials[m] = 1
        <3>1. W = {}
            BY <2>2 DEF Inv, Own, OwnOf, Mine
        <3>2. redials[m] + Cardinality(W) = 1
            <4> HIDE DEF W
            <4> QED BY <2>2, <3>1, FS_EmptySet
        <3> QED BY <3>2
    <2>3. CASE redials[m] = 0
        <3>1. PICK n \in Slot : conn[m][n].mine
            BY <2>3 DEF Inv, Own, OwnOf, Mine
        <3>2. W = {n}
            BY <3>1 DEF Inv, Own, OwnOf, Mine
        <3>3. Cardinality({n}) = 1
            BY FS_Singleton
        <3>4. redials[m] + Cardinality(W) = 1
            <4> HIDE DEF W
            <4> QED BY <2>3, <3>2, <3>3
        <3> QED BY <3>4
    <2> QED BY <2>1, <2>2, <2>3
<1> QED BY <1>1, InvInit, InvStep, PTL DEF Spec

\* What a guest was last told of its host by its client is what the client is
\* at.
THEOREM PresenceIsTold == Spec => []PresenceTold
<1>1. Inv => PresenceTold
    BY DEF Inv, Own, OwnOf, Mine, PresenceTold
<1> QED BY <1>1, InvInit, InvStep, PTL DEF Spec

\* An acknowledgement that is late, of another notice or of another connection
\* never stands for that of the notice that waits.
THEOREM AcknowledgedIsRead == Spec => []AckedIsRead
<1>1. Inv => AckedIsRead
    BY DEF Inv, Talk, AckedIsRead
<1> QED BY <1>1, InvInit, InvStep, PTL DEF Spec

(***************************************************************************)
(* Who is out of the scope gets no connection registered but one that had  *)
(* been let through before.                                                *)
(***************************************************************************)

\* No connection of m is let through.
NoneChecked(m) == \A n \in Slot : conn'[m][n].sv = "checked" => conn[m][n].sv = "checked"

LEMMA OneSlotChecks ==
    ASSUME Inv, NEW k \in Member, NEW n \in Slot, NEW d \in Conn, Set(k, n, d),
           d.sv = "checked" => conn[k][n].sv = "checked", NEW m \in Member
    PROVE  NoneChecked(m)
BY SlotBecomes DEF NoneChecked

LEMMA GuestChecksNone ==
    ASSUME Inv, NEW k \in Member, GuestTurn(k), NEW m \in Member
    PROVE  NoneChecked(m) /\ conns' = conns
<1>1. CASE Connect(k)
    <2> DEFINE d == [Blank EXCEPT !.sv = "accepted", !.far = TRUE, !.lp = "dialled",
                                  !.near = TRUE, !.mine = TRUE]
    <2>1. PICK n \in Slot : Set(k, n, d)
        BY <1>1 DEF Connect
    <2>2. d \in Conn /\ d.sv = "accepted"
        <3>1. <<>> \in Seq(Message) /\ <<>> \in Seq(Notices)
            OBVIOUS
        <3> QED BY <3>1 DEF Blank, Conn
    <2> HIDE DEF d
    <2> QED BY <1>1, <2>1, <2>2, OneSlotChecks DEF Connect, host
<1>2. CASE RedialFails(k)
    BY <1>2 DEF RedialFails, vars, host, NoneChecked
<1>3. ASSUME NEW n \in Slot,
             \/ Adopt(k, n) \/ SayPresent(k, n) \/ ReadNotice(k, n)
             \/ ReadEnds(k, n) \/ SayAbsent(k, n)
      PROVE  NoneChecked(m) /\ conns' = conns
    <2> DEFINE c == conn[k][n]
    <2>1. c \in Conn
        BY SlotType
    <2>2. PICK d : Set(k, n, d) /\ d \in Conn /\ d.sv = c.sv
        <3>1. ASSUME Adopt(k, n)
              PROVE  \E d : Set(k, n, d) /\ d \in Conn /\ d.sv = c.sv
            <4>1. /\ [c EXCEPT !.lp = "back"] \in Conn
                  /\ [c EXCEPT !.lp = "back"].sv = c.sv
                  /\ [c EXCEPT !.lp = "none", !.near = FALSE] \in Conn
                  /\ [c EXCEPT !.lp = "none", !.near = FALSE].sv = c.sv
                BY <2>1 DEF Conn
            <4> QED BY <3>1, <4>1 DEF Adopt
        <3>2. ASSUME SayPresent(k, n)
              PROVE  \E d : Set(k, n, d) /\ d \in Conn /\ d.sv = c.sv
            <4>1. [c EXCEPT !.lp = "read"] \in Conn /\ [c EXCEPT !.lp = "read"].sv = c.sv
                BY <2>1 DEF Conn
            <4> QED BY <3>2, <4>1 DEF SayPresent
        <3>3. ASSUME ReadNotice(k, n)
              PROVE  \E d : Set(k, n, d) /\ d \in Conn /\ d.sv = c.sv
            <4> DEFINE u == IF c.far /\ ~c.cut THEN Append(c.up, Head(c.down).seq) ELSE c.up
                       d == [c EXCEPT !.down = Tail(c.down), !.up = u]
            <4>1. Set(k, n, d) /\ c.down # <<>>
                BY <3>3 DEF ReadNotice
            <4>2. c.down \in Seq(Message) /\ c.up \in Seq(Notices)
                BY <2>1 DEF Conn
            <4>3. Head(c.down) \in Message /\ Tail(c.down) \in Seq(Message)
                BY <4>1, <4>2, InFacts
            <4>4. Append(c.up, Head(c.down).seq) \in Seq(Notices)
                BY <4>2, <4>3, InFacts DEF Message
            <4>5. u \in Seq(Notices)
                BY <4>2, <4>4
            <4> HIDE DEF u
            <4>6. d \in Conn /\ d.sv = c.sv
                BY <2>1, <4>3, <4>5 DEF Conn
            <4> QED BY <4>1, <4>6
        <3>4. ASSUME ReadEnds(k, n)
              PROVE  \E d : Set(k, n, d) /\ d \in Conn /\ d.sv = c.sv
            <4> DEFINE d == [c EXCEPT !.near = FALSE, !.lp = IF c.mine THEN "lost" ELSE "none"]
            <4>1. d \in Conn /\ d.sv = c.sv
                BY <2>1 DEF Conn
            <4> QED BY <3>4, <4>1 DEF ReadEnds
        <3>5. ASSUME SayAbsent(k, n)
              PROVE  \E d : Set(k, n, d) /\ d \in Conn /\ d.sv = c.sv
            <4>1. /\ [c EXCEPT !.lp = "none", !.mine = FALSE] \in Conn
                  /\ [c EXCEPT !.lp = "none", !.mine = FALSE].sv = c.sv
                BY <2>1 DEF Conn
            <4> QED BY <3>5, <4>1 DEF SayAbsent
        <3> QED BY <1>3, <3>1, <3>2, <3>3, <3>4, <3>5
    <2>3. conns' = conns
        BY <1>3 DEF Adopt, SayPresent, ReadNotice, ReadEnds, SayAbsent, host
    <2> HIDE DEF c
    <2>4. NoneChecked(m)
        BY <2>2, OneSlotChecks DEF c
    <2> QED BY <2>3, <2>4
<1> QED BY <1>1, <1>2, <1>3 DEF GuestTurn

LEMMA StopChecksNone ==
    ASSUME Inv, NEW k \in Member, NEW next, StopClient(k, next), NEW m \in Member
    PROVE  NoneChecked(m) /\ conns' = conns
<1>1. conn' = [conn EXCEPT ![k] = [n \in Slot |-> Stopped(conn[k][n])]] /\ conns' = conns
    BY DEF StopClient, host
<1>2. /\ \A i \in Member : i # k => conn'[i] = conn[i]
      /\ \A n \in Slot : conn'[k][n] = Stopped(conn[k][n])
    BY <1>1 DEF Inv, ConnOK
<1>3. \A n \in Slot : Stopped(conn[k][n]).sv = conn[k][n].sv
    BY SlotType, StoppedFacts
<1> QED BY <1>1, <1>2, <1>3 DEF NoneChecked

\* What it is for somebody to be out, and to be still.
Barred(m) == conns[m] = 0 /\ \A n \in Slot : conn[m][n].sv # "checked"

LEMMA OutStep ==
    ASSUME Inv, [Next]_vars, NEW m \in Member, m \notin members, Barred(m)
    PROVE  Barred(m)'
<1>0. /\ NoneChecked(m) /\ conns'[m] = 0 => Barred(m)'
      /\ conns[m] = 0 /\ conns' = conns => conns'[m] = 0
    BY DEF NoneChecked, Barred
<1>1. ASSUME NEW k \in Member, GuestTurn(k) PROVE Barred(m)'
    BY <1>0, <1>1, GuestChecksNone DEF Barred
<1>2. ASSUME NEW k \in Member, Session(k) PROVE Barred(m)'
    BY <1>0, <1>2, StopChecksNone DEF Session, Dial, DialFails, Close, Barred
<1>3. ASSUME NEW k \in Member, ServerTurn(k) PROVE Barred(m)'
    <2>1. PICK n \in Slot : \/ Check(k, n) \/ Register(k, n) \/ TakeAck(k, n)
                            \/ ServerReadEnds(k, n) \/ Remove(k, n)
        BY <1>3 DEF ServerTurn
    <2> DEFINE c == conn[k][n]
    <2>2. c \in Conn
        BY SlotType
    <2>3. CASE Check(k, n)
        <3>1. conns' = conns
            BY <2>3 DEF Check, host
        <3>2. CASE Set(k, n, [c EXCEPT !.sv = "none", !.far = FALSE])
            <4> DEFINE d == [c EXCEPT !.sv = "none", !.far = FALSE]
            <4>1. d \in Conn /\ d.sv = "none" /\ Set(k, n, d)
                BY <2>2, <3>2 DEF Conn
            <4> HIDE DEF d
            <4> QED BY <1>0, <3>1, <4>1, OneSlotChecks DEF Barred
        <3>3. CASE k \in members /\ Set(k, n, [c EXCEPT !.sv = "checked"])
            <4> DEFINE d == [c EXCEPT !.sv = "checked"]
            <4>1. d \in Conn /\ Set(k, n, d) /\ k # m
                BY <2>2, <3>3 DEF Conn
            <4> HIDE DEF d
            <4>2. NoneChecked(m)
                BY <4>1, SlotBecomes DEF NoneChecked
            <4> QED BY <1>0, <3>1, <4>2 DEF Barred
        <3> QED BY <2>3, <3>2, <3>3 DEF Check
    <2>4. CASE Register(k, n)
        <3>1. k # m
            BY <2>4 DEF Register, Barred
        <3>2. conn'[m] = conn[m] /\ conns'[m] = conns[m]
            BY <2>4, <3>1 DEF Register, Inv, ConnOK, HostOK
        <3> QED BY <3>2 DEF Barred
    <2>5. CASE TakeAck(k, n)
        <3> DEFINE d == [c EXCEPT !.up = Tail(c.up)]
        <3>1. c.up # <<>> /\ Set(k, n, d) /\ conns' = conns
            BY <2>5 DEF TakeAck, host
        <3>2. Tail(c.up) \in Seq(Notices)
            <4>1. c.up \in Seq(Notices)
                BY <2>2 DEF Conn
            <4> QED BY <3>1, <4>1, InFacts
        <3>3. d \in Conn /\ d.sv = c.sv
            BY <2>2, <3>2 DEF Conn
        <3> HIDE DEF d
        <3> QED BY <1>0, <3>1, <3>3, OneSlotChecks DEF Barred
    <2>6. CASE ServerReadEnds(k, n)
        <3> DEFINE d == [c EXCEPT !.far = FALSE, !.sv = "ended"]
        <3>1. d \in Conn /\ d.sv = "ended" /\ Set(k, n, d) /\ conns' = conns
            BY <2>2, <2>6 DEF ServerReadEnds, host, Conn
        <3> HIDE DEF d
        <3> QED BY <1>0, <3>1, OneSlotChecks DEF Barred
    <2>7. CASE Remove(k, n)
        <3> DEFINE d == [c EXCEPT !.sv = "none"]
        <3>1. d \in Conn /\ d.sv = "none" /\ Set(k, n, d)
            BY <2>2, <2>7 DEF Remove, Conn
        <3>2. conns'[m] = 0
            BY <2>7 DEF Remove, Inv, HostOK, Barred
        <3> HIDE DEF d
        <3> QED BY <1>0, <3>1, <3>2, OneSlotChecks DEF Barred
    <2> QED BY <2>1, <2>3, <2>4, <2>5, <2>6, <2>7
<1>4. CASE HostSession
    <2>1. ASSUME NEW S, Dropped(S) PROVE Barred(m)'
        <3>1. conns'[m] = 0
            BY <2>1 DEF Dropped, Barred
        <3>2. ASSUME NEW n \in Slot PROVE conn'[m][n] = conn[m][n]
            <4>1. n # conns[m]
                BY SlotsAssumption DEF Barred, Slot
            <4> QED BY <2>1, <4>1 DEF Dropped
        <3> QED BY <3>1, <3>2 DEF Barred
    <2>2. ASSUME NEW D, Notify(D) PROVE Barred(m)'
        <3>1. conns' = conns /\ m \notin D
            BY <2>2 DEF Notify, host, Registered, Barred
        <3>2. \A n \in Slot : conn'[m][n] = conn[m][n]
            BY <2>2, <3>1 DEF Notify
        <3> QED BY <3>1, <3>2 DEF Barred
    <2>3. CASE NotifyEnds
        BY <2>3 DEF NotifyEnds, host, Barred
    <2> QED BY <1>4, <2>1, <2>2, <2>3 DEF HostSession, Rescope, Stop
<1>5. ASSUME NEW k \in Member, NEW n \in Slot, Cut(k, n) PROVE Barred(m)'
    <2> DEFINE c == conn[k][n]
               d == [c EXCEPT !.cut = TRUE, !.down = <<>>, !.up = <<>>]
    <2>1. c \in Conn /\ Set(k, n, d) /\ conns' = conns
        BY <1>5, SlotType DEF Cut, host
    <2>2. d \in Conn /\ d.sv = c.sv
        <3>1. <<>> \in Seq(Message) /\ <<>> \in Seq(Notices)
            OBVIOUS
        <3> QED BY <2>1, <3>1 DEF Conn
    <2> HIDE DEF d
    <2> QED BY <1>0, <2>1, <2>2, OneSlotChecks DEF Barred
<1>6. CASE UNCHANGED vars
    BY <1>6 DEF vars, host, Barred
<1> QED BY <1>1, <1>2, <1>3, <1>4, <1>5, <1>6 DEF Next

\* Who is out of the scope, and has no connection that was let through before,
\* is served by nobody until it is in the scope again.
THEOREM OutOfScopeIsNotServed == Spec => OutStaysOut
<1>1. Inv /\ [Next]_vars => [\A m \in Member : Out(m) /\ m \notin members' => Out(m)']_vars
    <2> SUFFICES ASSUME Inv, [Next]_vars, NEW m \in Member, Out(m), m \notin members'
                 PROVE  Out(m)'
        OBVIOUS
    <2>1. m \notin members /\ Barred(m)
        BY DEF Out, Registered, Barred
    <2>2. Barred(m)'
        BY <2>1, OutStep
    <2> QED BY <2>2 DEF Out, Registered, Barred
<1> QED BY <1>1, InvInit, InvStep, PTL DEF Spec, OutStaysOut
=============================================================================
