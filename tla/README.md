# Kanpachi, verified: the specifications beside the code

Kanpachi is a private virtual LAN for games. One machine *hosts* a room; its
daemon (Go) runs a mesh engine (EasyTier), a two-layer firewall and a control
channel, and decides who is in the room. The *guests* run the same daemon. A
small public server, the *registry*, emits invite IDs and keeps each room's
card. This directory holds TLA+ models of the parts that decide something, the
TLC instances that check them, and TLAPS proofs of every safety property the
runs check but one, RestartKeepsBook, of which they prove when it holds.

Sections: [1 inventory](#1-inventory), [2 the modules](#2-the-modules),
[3 to 11 one module each](#3-hostroom-a-hosts-session),
[12 the runs](#12-the-runs), [13 fairness](#13-fairness),
[14 what is proved](#14-what-is-proved),
[15 what is only model-checked](#15-what-is-only-model-checked),
[16 known disagreements](#16-known-disagreements),
[17 what is not modelled](#17-what-is-not-modelled-and-what-is-next).

## 1. Inventory

| component | its state | its operations | what is hard about it |
|---|---|---|---|
| **Host session** (`core/usecase`: issuecredential, kickmember, deadlines, engineevent, activateprofile; `core/domain/member.go`) | member table (credential, in the mesh, veto), `state.Peers`, scope of the control listener, rules and their signature, alert of a half kick, clock of the renewals | issue, kick, heartbeat, sweep, reread on an engine event, repair of the rules | three lists derived from one table at different moments; an engine that answers late, not at all or with less than it was asked; deadlines (expiry, arrival grace, kick grace) |
| **Host persistence** (`persist.go`, `resumeroom.go`, `shutdown.go`, `domain/credentialbook.go`, `hostedroom.go`) | the room's file and the credential book, tied by a generation | save, load, accept, discard | the two writes are not one; a crash between them; a stale copy |
| **Room lifecycle** (`createroom.go`, `resumeroom.go`, `rotateinvite.go`, `leaveroom.go`, `verifyclosed.go`) | open or closed, invite code | create, resume, rotate, close | undoing what failed half way |
| **Firewall** (`daemon/adapter/firewall`: hybrid, gate, linux, windows) | gate and permits, scope, last set applied | Apply, PurgeOwned, Bind, audit | one layer changed and the other not |
| **Engine and mesh** (contract in `core/port/port.go`, adapter `daemon/adapter/engine`) | trusted credentials, who is in the mesh; the adapter's process and its remembered order | issue, renew, revoke, start, restart, leave, events | it is another process: it dies alone, its revocations take a second |
| **Registry store** (`registry/store.go`, `persist.go`) | invite IDs with owner, card, signature, pin; the file `rooms.json` | issue, publish, retire, look up, sweep, save, load | requests run in parallel; the lock is released around a slow derivation and around the disk |
| **Registry auth** (`registry/auth.go`, `counter.go`) | password, sessions, attempt counters | login, check, expire | shared derivation slot, limits |
| **Guest session** (`joinroom.go`, `rejoin.go`, `returnroom.go`, `announce.go`, `cancel.go`) | room, credential held, saved room, presence of the host, streak of rejoins, the return under way | join, reattach, exchange, notices, return, leave, forget, cancel | a minute with the lock held while the world moves; the lock released in the middle of a return; the host's notice may not arrive |
| **Connection states** (`domain/state.go`, `timing`) | state, three clocks | every transition | deadlines armed late, twice or not at all |
| **Supervisor** (`daemon/service/supervisor`) | queue of work, flags, restart ladder, timers | dispatch, restart, give up, launch the long jobs | stale timers, full queues, liveness |
| **Control channel** (`daemon/transport/control`) | connections, acknowledgements, scope | serve, rescope, push, dial, redial | check-then-register, replaced connections, bounded channels |
| **Canary and sweep** (`canary.go`, `diagnose.go`, `adapter/canary`) | repair counters, verdicts, alerts | round, fold, repair | what was measured may not be the room any more |
| **Debts of the machine** (`suspended-rules.json`, `foreign-allows.json`, `applied-tweaks.json`) | foreign rules, doors of other managers, network tweaks, and their books | suspend, restore, allow, withdraw, apply, revert | a death between the change and its record; a settlement half done |
| **Daemon** (`service/arranque.go`, `cmd/kanpachid`, `transport/pipe`, `protocol/server.go`, `adapter/uihost`) | the start, the stop, the conversations and their seats, the interface's process | start, stop, accept, converse, launch, keep alive | many may ask for the stop, and it waits for those who did |
| **Addressing** (`domain/addressing.go`, `displacement.go`) | none | pure algorithms | boundaries |
| **State files** (`adapter/state/jsonfile`, `safewrite`) | files | atomic write | rename and crash |
| Profiles, catalogue, probes, quarantine, routes, IGD, interface, packaging | — | — | input, output, or declarative |

How they meet. `Session` (one per daemon) owns the room and holds `Session.mu`
from the first line of a handler to its return; it calls the engine, the
firewall, the listener and the disk synchronously through `core/port`. The
supervisor feeds it: the heartbeat every 15 s (`Tick`), engine events, mesh
changes, the periodic sweep, canary rounds, rejoins and returns. The control
channel carries requests for credentials, notices of kicks and code rotations
between a host's session and a guest's. The registry is asked at create,
publish, rotate, close and join. The daemon's wiring starts and stops all of it.

What makes each one correct: for the host, that no list lets in someone the
table shut out, that the engine lets in no one the table has no seat for, that
a key has one seat and finds it again, and that the disk brings all of it back;
for the firewall, that no room is without its gate, whichever layer failed; for
the registry, that an ID keeps its owner while its pin lives, in memory and
across restarts; for the guest, that it is only where its user wants it, and
either inside with a credential the host has or on its way; for the supervisor,
that a dead engine ends in a live one or a closed room, and that no flag stays
up for ever; for the control channel, that whoever is read is whoever is told;
for the canary, that a leak ends up told and is of this room; for the debts,
that whatever was changed of the machine can be given back; for the daemon,
that a stop ends. `PROJECT.json` lists the hazards with their lines.

## 2. The modules

| module | lines of code it stands for | its proofs |
|---|---|---|
| `HostRoom`, and `Seats`, the abstract specification it implements | the host's session, its persistence and the engine's contract | `HostRoom_proofs` |
| `RegistryStore`, and `InviteOwnership`, the abstract specification it implements | the registry's store and file | `RegistryStore_proofs` |
| `Supervisor` | dispatcher, ladder, timers, jobs, the engine's adapter | `Supervisor_proofs` |
| `GuestSession` | a guest, with hosts seen from outside | `GuestSession_proofs` |
| `ControlChannel` | both ends of the room's connections | `ControlChannel_proofs` |
| `Canary` | rounds and sweeps | `DaemonAndCanary_proofs` |
| `Daemon` | start, stop, conversations, interface | `DaemonAndCanary_proofs` |
| `Debts` | what of the machine is changed and its books | `Debts_proofs` |
| `Containment` | hybrid firewall on both systems, under the session's calls | `Containment_proofs` |

An `MC` module per component declares the model values and symmetries; the
`.cfg` files give the constants. Definitions whose name starts with `Bug_` are
mutants: what a plausible slip in the code would make of the definition they
precede. They are part of no specification.

The proofs about `Daemon` and `Canary` share a module, and nothing else: that is
why Daemon's `DaemonInit`, `DaemonNext`, `DaemonSpec`, `daemonVars` and the like
carry its name, which the other modules' do not.

The modules meet at interfaces the code has. HostRoom takes the firewall as one
call that may fail in either layer, and Containment opens that call. HostRoom
takes the engine by its contract, and Supervisor opens the adapter. Supervisor
sees a return or a rejoin as a job that may open a room, and GuestSession opens
the job. Canary takes the gate as holding, hollow or missing, and Containment
says when it is there. One specification of all of them together would multiply
their states without a property that needs it: each property here is of the
smallest composition in which it can break.

`CHECK_DEADLOCK FALSE` stands in every cfg, because every system here may
rightly rest: a host nobody asks anything of, a daemon that has ended, a machine
with nothing owed. That what has begun does end is said by the liveness
properties instead.

## 3. HostRoom: a host's session

`HostRoom.tla` models everything that decides who is in the room.

| TLA+ | code |
|---|---|
| `members[a]`: `cred`, `inMesh`, `kickedAt` | `domain.MemberTable` and `domain.Member`, indexed by address (`core/domain/member.go`) |
| `peers`, `scope`, `rules`, `signed`, `alert` | `state.Peers`, the scope of the control listener, the rules that are alive in the firewall, `appliedSignature`, the alert of a half kick (`core/usecase/session.go`) |
| `gen`, `bookFile`, `roomFile`, `saved` | the generation of the book, the two files, and the room found at start (`persist.go`, `resumeroom.go`) |
| `trust`, `mesh`, `expelled` | the engine's trusted credentials, who is in the mesh, and whose session the engine has still to close (the contract in `core/port/port.go`) |
| `now`, `beatDue` | the clock; a heartbeat is owed since it moved |

Each action is a whole handler: `Session.mu` is taken on its first line and
given back when it returns, so nothing of the session gets between two calls it
makes. A death inside one, before its first write to disk, leaves what a death
before it leaves: the table and the engine's trust die with their processes and
the next start empties the rules. `IssueCredentialFor` for instance is the search for an old seat, its
renewal in the engine, the fall to a new one, the write of the book, the rules
and the listener, in the code's order and with every failure the code accepts.
What interleaves is what has no such lock: the clock, the engine, the other
machines and the end of the process, between any two handlers.

Inputs. A request for a credential comes from any key; a kick is aimed at anyone
the code would find; an engine event may come at any moment, in any order and
without a reason; `Fault` names what an instance lets fail: a revocation that is
not answered (`revoke`), an id the engine does not know (`unknownId`), a renewal
(`renewTimeout`) or an issue (`issue`) that fails, rules that the firewall
rejects, with its first layer changed or not (`apply`), a mesh watcher that
stops (`meshWatch`), writes and deletes (`saveBook`, `saveRoom`, `clear`), and
machines that stay in the mesh when their engine changes (`linger`).

Time. One unit is no shorter than the heartbeat (15 s), so `PassTime` waits for
the heartbeat, for the expulsions the engine has begun, which take a second, and
for the session to have seen the mesh, unless `meshWatch` fails. The order of
the deadlines is the code's (`KickGrace`, 1, is less than `ArrivalGrace`, 2,
and `RenewInterval` is less than or equal to `CredentialTTL`), not their length.

`Seats.tla` is what all of this has to look like to those who ask for a seat: an
address is lent to one key until a date, a key borrows one address, whoever is
kicked leaves theirs held for nobody until a date, who was let in stays in while
they keep the seat, and a room that is opened again starts from what was written
last or from nothing. The mapping (`Seating`, at the end of HostRoom) takes

| Seats | HostRoom |
|---|---|
| `lease[a]` | the key and the expiry of `members[a].cred` while it lives; the key is `NoKey` when it is revoked (`LeaseOf`) |
| `kept` | the same of the entries of the book on disk |
| `admitted` | `scope \cap rules`: the listener and the firewall both let them in |

Seats knows of no engine, mesh, veto, generation or code: that the host renews
what the engine renewed, takes an address whose owner is in the mesh for taken,
and refuses a book that is not of this room, is how it keeps the promise. The
writes of Seats may be lost (`Write`), as the code goes on after one that fails.

Bounds of its runs. HostRoom has 2 keys for 2 addresses and 3 requests, so that
a return, a newcomer and a full subnet all happen; its clock passes one round of
renewals and both graces, and codes are renewed once. HostRoomRestart has one
restart, between any two handlers and between the two writes of a save, with 2
keys, 2 addresses and 2 requests, in the time of one expiry, under one code.
What a new code does to the book is asked in HostRoom (SeatsStayInBook). Keys
are interchangeable.

## 4. RegistryStore: the registry's rooms

`RegistryStore.tla` models `Store` and `keeper`. A process is an HTTP request, or
the ticker of the sweep. Here a step is *not* a handler: the store's lock is let
go around the derivation of a rendezvous network, which takes seconds, and before
the file is written, and the file has a mutex of its own. `pc` says where each
request is; `slot` is the channel of one that limits derivations, `saver` the
keeper's mutex.

`rooms` is the map and `heap` the rooms its pointers lead to. Copying the map
copies pointers (`view`), and the writer follows them without the store's lock,
so `seen` is what it had read of each room when it began, and what it writes is
any mixture of the fields read then and the fields now (`Mixed`): that is what
a data race on fields can produce. A restart rebuilds the map from the file.

`InviteOwnership.tla` is what that has to look like from outside: an ID belongs
to the key it was given to for one `RoomTTL` since that key's last deposit, and a
restart may forget an owner and never change one.

Bounds of its run: two requests and the sweep at once, two keys, one restart, a
clock that passes one expiry. One ID, because two IDs meet only in the copy of
the map, which is one step. `MaxObject` is one more than the processes, so that
there is always a fresh room and the bound never binds. Requests, keys, IDs and
cards are interchangeable.

## 5. Supervisor: what keeps the daemon running

`Supervisor.tla` models the supervisor's dispatcher and everything that feeds its
queue, the engine adapter it restarts, and the part of the session that both
move: whether there is a room, whether its tunnel is down and since when, and
whether the gate is bound to the adapter there is.

| TLA+ | code |
|---|---|
| `work`, `at`, `resuming` | `Supervisor.work`, and where the handler of the item taken is (`supervisor.go`) |
| `intentos`, `timers`, `flag` | `intentos`, the `time.AfterFunc` of `programarReinicio` that have not delivered, `canarioVivo`, `reingresoVivo`, `vueltaViva` |
| `flying` | the goroutines of those three jobs |
| `alive`, `up`, `said`, `last` | `e.proc`, the network that process carries, whether it has said so, `e.last` (`engine.go`) |
| `events`, `lost` | the adapter's channel of events, and whether a death has been discarded because it was full |
| `room`, `down`, `overdue`, `bound` | `Conn.InRoom()`, `TunnelDown()`, `ShouldLeaveForReconnectTimeout()`, the gate's binding |
| `user` | a user's order, which holds `Session.mu` while the engine works |

One dispatcher does not make its handlers atomic. A restart holds no lock
between stopping the process, repeating the order, waiting for the address and
telling the session, so each of those is a step (`RestartStop`, `RestartStart`,
`RestartAwait`, `RestartBack`), and users' orders, deaths, the watcher's polls and
the timers get between them. What a handler does under `Session.mu` is one step,
which waits while a user's order has it (`SessionFree`). `revalidar` may enter the
same restart, also when the ladder has a timer of its own.

Inputs. The engine dies or loses its network at any time, connects or never does;
a new process fails to come up (`start`), its address is not seen in time
(`address`), the gate cannot be bound (`bind`), a handler panics before it does
anything or after any of its steps (`panic`). The watcher's poll starts a process
without a network when there is none, as the code does (`ensureLocked`).
`peers_changed` and `degraded` events do what `OnMesh` does. Left out: the
lobby's network, the guest's clock of the host's absence, what the rejoin and
the return do inside (a return that opens a room is the action `Open`), and the
items that only hand a value to the session.

Bounds of its runs. Supervisor: two rooms, so that a timer outlives its room and
fires in the next; two deaths or disconnections and a wake-up, so that two
restarts are programmed at once while one is running; a ladder of one rung, so
that it is used up with a timer pending; a queue of two, which fills.
SupervisorPanics: the three jobs and every source with a queue of two, fewer
than those who wait for a place in it; any handler may panic.

## 6. GuestSession: a guest's session

`GuestSession.tla` models how a machine enters a room with a code, stays in it,
goes back to it by itself when its host falls silent or its credential dies,
leaves it, and returns to it after having lost it. `JoinRoom` and `Rejoin` hold
`Session.mu` for about a minute and the world moves meanwhile, so an order is
one step per wait (`Lookup`, `EnterLobby`, `Ask`, `EnterRoom`, `Settle`,
`Reattach`), and every handler that waits for nobody is one step. `Return` is
the exception that the code makes too: it lets the lock go around its JoinRoom
(`Return`, `ReturnJoins`, `ReturnLands`).

| TLA+ | code |
|---|---|
| `at`, `by`, `goal`, `cut`, `gained` | where the order that holds `Session.mu` waits, whose it is (the user, Rejoin, Return), the room it goes to, its cancelled context, the credential just issued to it |
| `conn`, `room`, `host`, `held`, `dead` | `state.Conn` with `ReconnectingSince`, the room, the presence of the host with its three instants as the phase they are in, `myCredential`, `credencialMuerta` |
| `streak`, `calm`, `waiting` | `rejoinStreak` and whether `lastRejoin` is older than `RejoinCalmAfter`, or younger than the wait |
| `last`, `ret`, `retGoal`, `retCut`, `retWait` | the saved room and its AutoReturn, where Return is, the context `stopReturning` cancels, `returnNextAt` |
| `net`, `carries`, `lobby`, `gate`, `events` | the engine's networks, the gate's binding, the events not handled yet |
| `link`, `mail` | the connection of the control channel and what it brought |
| `up`, `open`, `code` | the hosts from outside: the machine answers, its room is open, the code of the room |
| `want` | history: the host whose room the user chose last and has not left |

A clock is the phase it is in and may pass to its next phase at any time, so
what holds here holds for whatever limits `timing.go` has. A host may fall, come
back, forget the credential, kick, close and renew its code at any moment;
messages of one class keep their order and of two classes do not. `Fault`: the
registry does not answer (`registry`), a network does not come up (`engine`),
what follows it fails (`settle`), the gate cannot be bound (`bind`), a foreign
firewall blocks (`firewall`), a credential expires (`expiry`), an order takes
the lock where Return has let it go (`overtaken`), and what a room sent is still
waiting when it is left (`crossed`).

Bounds of its runs. GuestSession: two hosts, whose rooms may have two codes
each, two orders of the user, one upset of the world, a streak of one and a
mailbox of one, which drops. GuestLive: one host, one order, one upset, no
fault, for the liveness; no symmetry.

## 7. ControlChannel: the room's connections

`ControlChannel.tla` has both ends. On the host, `Serve`, `Notify` and `Close`
come one at a time under the session's lock (`Rescope`, `Notify`, `NotifyEnds`,
`Stop`); every accepted connection is a goroutine that checks the address
(`Check`), registers the connection (`Register`), reads it (`TakeAck`,
`ServerReadEnds`) and removes it (`Remove`), letting the server's mutex go in
between. On the guest `Dial` and `Close` replace the client there is, and its
goroutines, one that reads or one that dials again, find out later (`Adopt`,
`SayPresent`, `ReadNotice`, `ReadEnds`, `SayAbsent`). A step is what is done
between two locks, or between a lock and a message sent without it.

| TLA+ | code |
|---|---|
| `serving`, `members`, `conns` | the room's listener, `server.members`, `server.conns` |
| `conn[m][n]` | a connection: the goroutine at each end, which ends are open, whether it is of the current client, whether the network lost it, what is on its way both ways |
| `cli`, `redials` | `Channel.cli`, the goroutines that wait to dial again |
| `said` | the last word on presence given to the guest's session |
| `seq`, `waiting`, `acked`, `sent`, `read` | `server.seq`, the Notify that waits and its acknowledgement; history of what was sent and read |

A connection is a slot, used again once neither end has a goroutine on it.
Bounds of its run: one member with two slots, so that an old and a new connection coexist;
two notices, so that a late acknowledgement meets the next one; one connection
lost; a write blocks with one notice unread. The proofs are for any number of
all of them.

## 8. Canary: whether what contains the room does

`Canary.tla` models a round from the plan to the folding (`Plan`, `Listen`,
`Dial`, `Report_`, `TakeReport`, `CollectEnds`, `Fold`, `Mark`), the sweep
(`OnSweep`, `SweepEnds`) and what starts both (`OnDue`, `OnDone`). A round plans
and folds under the session's lock and does all the rest without it; the sweep
measures without it. Meanwhile rooms are left and opened, members come and go,
and whoever applies the rules leaves word that a round is due.

| TLA+ | code |
|---|---|
| `inRoom`, `gen`, `present` | a room of its own is open, `RoomState.Gen`, the members not away |
| `gate` | what the filters do: `holds`, `hollow` (there, and letting through: the audit by names sees nothing), `missing` |
| `alerts`, `shown` | `RoomState.Alerts` and the canary's latest result |
| `canaryRepairs`, `tamperRepairs`, `due` | the counters with their limits, `canaryDue` |
| `measured`, `canarioVivo`, `round` | what the sweep has measured, the flag, the goroutine of the round |
| `probing`, `reports` | what each member dials, the channel of reports |

Something may undo the gate at any time (`Undone`), and applying it again may
not mend it. Bounds of its run: one member, two rooms, limits of one and one
failing call, so that the counters fill and a round outlives its room.

## 9. Daemon: start, stop, conversations, interface

`Daemon.tla` models the process around the session. The start (`Loop`, `Serve`,
`ReabrirLaSala`, `Wire`, `StartUI`), who asks for the stop (`Signal`,
`OnSignal`, `OnGiveUp`, `Shutdown`) and its order (`CloseDoor`, `Drained`,
`EsperarReapertura`, `LeaveRoomOnShutdown`, `Apagado`, `CerrarTodo`,
`CloseHandles`, `Exit`, with `Expire` for ApagadoMax) are those of
`arranque.go`; a conversation (`Accept`, `Hello`, `Dispatch`, `RoomOp`, `Show`,
`Panic`, `ReadEnds`) has a seat, a connection and a watcher (`HelloWait`,
`WatchCloses`); the interface is a process (`st`, `held`, `proc`) with a
goroutine that waits for its death (`watch`: `Murio`, `Relaunch`, `WatchEnds`).
Showing the interface is launching it again, and the second one finds the first
and ends (`Claim`).

`Fault`: the listener fails alone (`accept`), a relaunch fails (`launch`), the
first launch fails (`start`), the process is born in somebody else's job
(`job`), the listener is between taking a connection and seating it as it is
closed (`late`), somebody is at the door before the start ends (`early`). The
last four break the properties (section 16) and are left out of the run. Its
bounds: one seat, so that it is at its limit; two processes of the interface, so
that two launches overlap (a dead one gives its place to the next that is
tracked); one relaunch; a last room to go back to.

## 10. Debts: what is changed of the machine

`Debts.tla` models three changes that outlive the process, each with its book:
the foreign firewall rules that are suspended (`suspended-rules.json`), the
doors opened in another manager's firewall (`foreign-allows.json`), and the row
of the prefix policy with DirectPlay (`applied-tweaks.json`). The start of the
service, the opening of a room, its teardown and the reset without a daemon are
sequences of steps (`job`, `at`, `Following`); a daemon may die between any two
(`Crash`), and what is on disk and in the system stays. What the machine's owner
set is kept beside (`wish`, `dpWish`, a door that is `own`), as what has to be
given back.

| TLA+ | code |
|---|---|
| `rule`, `record`, `back` | the rules, their record, what RestoreForeign read of it |
| `ask`, `fresh`, `seen` | of each SuspendForeign under way (`Asker`): where it is, the rules and the record it read |
| `door`, `ledger` | the doors (shut, half open, the operator's own, ours), the ledger on disk |
| `asked`, `book` | what AllowBlocked was told to open, the copy of the ledger it works on |
| `row`, `added`, `dp`, `was` | the prefix policy's row, `PrefixPolicyAdded`, DirectPlay, `DirectPlayWas` |
| `stray`, `loose` | no state of the code: which doors, and whether the row, were left without their line |

A door of firewalld is *half* open between its two commands: in the
configuration and not in force, until somebody reloads (`Reload`). AllowBlocked
writes the ledger at its end, so one that fails at any of its opens, or dies,
leaves whatever it opened with no line (`LeftOff`, `AllowFails`, `Crash`), and
`stray` remembers which: no later settlement can know of those. The operator
gives a pass and takes it away at any moment, also on an adapter that is in the
ledger, where `Withdraw` does not ask whose the pass is now.

`Fault`: a command, the store of rules or a write fails, at any point of it
(`tool`); work that had let the session's lock go goes on while a room is left,
or beside more of its kind (`overlap`); `doctor --fix` writes while a room opens
(`doctor`). Deaths need no fault. Bounds of its run: two rules and two adapters,
so that one is done and the other not, and one conversation that suspends, as a
second one needs `overlap`. There is no other bound: the state is finite
(92,154 states).

## 11. Containment: the two layers of the firewall

`Containment.tla` composes the adapter that writes the two layers (`hybrid.go`:
`scope`, `last`, `swept`), the layers (`gate`, `permit`: WFP and the Windows
firewall, or one nftables table and nothing) and the session that decides the
rules (`role`, `members`, `veto`, `revoked`, `game`, `applied`, `alerts`). A call of the
session is a job that goes through `Refused`, `Unscoped`, `GateStep`,
`PermitsStep`, `PurgePermits` and `PurgeGate` one at a time, for a process may
die between two; writing the gate is one transaction, writing the permits may
stop at any rule. `system` is either of the two and never changes. Somebody else
may delete, disable or rewrite a rule (`Touch`), the engine may put up a new
adapter (`EngineRestart`) and the process may die (`Die`). `Shared` are the
rules whose name somebody else's rule has too, which may only be disabled.

Of a kick there are two things to know. `veto` is who is kept out of the list
whatever the engine reports, which ends KickGrace after the kick (`VetoEnds`).
`revoked` is whose credential the engine did revoke: it reports them no more once
the veto is over, the grace being longer than the second a revocation takes
(`Reported`). Whoever was kicked with a revocation that failed is therefore in
the list again after the veto, as in the code, and KickedShut says how far the
two layers go. The alert of a half kick falls with the next application that
goes well.

`Fault`: the gate's transaction (`gate`), its sweep (`sweep`), the permits
halfway (`permits`), an audit that cannot read (`audit`), an adapter that is not
found (`bind`), somebody else's hand (`touch`), and a revocation the engine does
not make (`revoke`). Bounds of its run: one member, who is kicked and
comes back, two rules of which one is shared, four adapters, so that there is
always a fresh one (698,118 states).

## 12. The runs

All of them pass; each property has a mutant of the code that breaks it.

| run | properties | what it shows |
|---|---|---|
| HostRoom | EngineTrustInBook, RevokedNeverAuthorised, ListenerAgrees, VetoExcludes, AddressKept, SeatsStayInBook | book, engine and lists agree; who is kicked stays out; whoever comes back keeps the address; only a new code takes a seat out of the book. Faults `issue`, `clear`; the life of one process |
| HostRoomRestart | RestartKeepsBook, DiskKnowsRevocation, SeatsKept | a crash, a shutdown or the engine's death between any two handlers or the two writes: the disk brings seats and revocations back, and Seats is implemented, so nobody already let in is shut out. Fault `saveRoom` |
| RegistryStore | FileIsFresh, OwnershipKept | InviteOwnership is implemented, and no older state of a room is left on disk |
| Supervisor | WatchdogAwake, DeadEngineResolved, DeadlineKept | the watchdog never sleeps on a dead room, which comes back or closes; the deadline is kept. Fault `start` |
| SupervisorPanics | FlagComesDown | whatever panics, a job can fly again. Fault `panic` |
| GuestSession | InWantedRoom, NothingLeftBehind, GateFollows, LastKept | only in the room its user chose, saved, behind its gate; what fails leaves nothing. Faults `engine`, `settle`, `expiry`, `registry` |
| GuestLive | AbandonedRoomLeft, CredentialRepaired, ComesBack | nobody stays with a host that is gone, a dead credential is replaced, a lost room is returned to |
| ControlChannel | Reachable, AckedIsRead, ComesBack | who is read is who is reached, what is acknowledged was read, who may be connected ends up so |
| Canary | ShownOfThisRoom, LeakIsTold, TamperTold | no result of another room is shown, a leak or alteration ends up told |
| Daemon | NoWindowOutlives, CleanEnd, ShutdownEnds, WindowOrEnd, SeatsComeBack | a stop ends, in order, with no window and no room left; a dead client gives its seat back. Faults `accept`, `launch` |
| Debts | OriginalKnown, SettledIsPaid, BookedTillShut | what was changed can be given back, and is, save what an opening left with no line. Fault `tool` |
| Containment | Contained, KickedShut, SkipIsSafe, LeaveTold | never without its gate; the kicked are out while the veto lasts or the engine has revoked them, or the user is told. Faults `gate`, `permits`, `audit`, `touch`, `revoke` |

Bounds named in the modules: `MaxTime`, `MaxRequest`, `MaxCode`, `MaxRestart`,
`MaxObject`, `MaxUpset`, `MaxOpen`, `MaxResume`, `MaxOrder`, `MaxMail`, `Slots`,
`MaxNotice`, `MaxCut`, `MaxGen` stop a counter that the code does not bound;
`WorkCap`, `EventCap`, `MaxRestarts`, `MaxStreak`, `Backlog`, the repair limits and
`maxRelaunches` are the code's own capacities, made small so that they are reached.

Some properties are defined in the modules, proved (section 14), and no longer
asked of TLC: the TypeOK of every module with proofs, VetoWithinHold,
OneSeatPerKey, NewcomerNotVetoed, BookNotBehindRoom, AdmissionKept, HoldKept and
TrustedKept (HostRoom), GateFollows and OneFlight (Supervisor), Watched and
PresenceTold and OutStaysOut (ControlChannel), ClearedByMeasure (Canary),
OwnPassKept (Debts) and NoticeEndsItsRoom (GuestSession). Others are defined because the code says them and does not keep
them (section 16).

## 13. Fairness

A goroutine that can run does (weak fairness of its step), and whoever waits for
a place that goes round gets it (strong), because Go serves those who wait on a
channel in order, and its mutex hands over to whoever has waited a millisecond.
What the world does is never fair, but where it says so.

- **Supervisor**: weak for the dispatcher, an order under way and the clock, as
  every call has a timeout; strong for the drain, the timers, the ends of the
  jobs and the heartbeat's ticker, which wait for a place in the queue. Nothing
  for deaths, connections, polls, users or the other sources.
- **GuestSession**: weak for the steps of an order and for the clocks; strong for
  the heartbeat, events, mail, rejoins and returns, which wait for
  `Session.mu`. The client dials again, and a tunnel that was asked for comes
  up. Hosts owe nothing, except that one that is there goes on telling a member
  that it has no credential of it: the code answers every request so.
- **ControlChannel**: weak for every step of its goroutines and for the dial of a
  client that may be let in; nothing for the session, the scope and the network.
- **Canary**: weak for the ticker's sweep, the steps of a round and the members
  that were asked; strong for the end of a round that waits for the dispatcher
  and for a socket that has accepted and gets to mark it. Nothing for `OnDue`.
- **Daemon**: weak for the stop, the reopening, a closed listener, the keeper, a
  launched process that gets to its first act and the end of an operation.
  Nothing for clients, signals, the start, ApagadoMax, or the ten minutes of a
  client that is only silent.
- **RegistryStore** states the fairness of its steps, and its run checks safety
  only. **HostRoom**, **Debts** and **Containment** state safety only: what must
  happen there is somebody else's to begin.

## 14. What is proved

TLAPS proves, for every value of the constants, all the safety properties of
section 12, and those that TLC is no longer asked. Every
theorem starts from the assumptions its module names: numbers are natural, a
kick's grace is shorter than an arrival's, absent values are not values, faults
are of the listed kinds. What a theorem assumes besides is in its statement:
faults under which it is false (section 16 says of each how TLC shows it), and one
bound that is a scope. `MaxRestart = 0` is the life of one process and one
engine: across a restart WhoIsTrustedKeepsTheAddress says of AddressKept what
still holds, and section 16 why ListenerAgrees does not.

Each proof is the same three facts about an inductive invariant, checked by TLC
on a small instance before it was proved: it holds initially, every action keeps
it, it implies the property. The table says why the property is not inductive by
itself.

| theorem, for which faults | the invariant behind it |
|---|---|
| **HostRoom_proofs** `TypeCorrect`; `KickedAreOut` (VetoExcludes); `HoldOutlivesVeto` (VetoWithinHold); `NewcomersAreNotVetoed` (NewcomerNotVetoed): every fault | `VetoInv`. `peers`, `scope` and `rules` are each computed by another handler than the one that reads them. The invariant says that each follows from some moment of the table since which no veto was added, and that the two deadlines a kick sets stay in order, so the address is not free while the veto lasts |
| `NoKeySeatedTwice` (OneSeatPerKey): every fault | `SeatInv`: two seats of one key are apart also when one of them is in the book on disk and comes back after a restart, so the same is said of every book that could be accepted |
| `EngineLetsInTheBook` (EngineTrustInBook): not `revoke`, `renewTimeout` | `TrustInv`: what the engine trusts is backed by a seat with the same id, key and date. With either fault it is false, and the code knows |
| `WhoIsSeatedStaysIn` (AdmissionKept): every fault | a step lemma per handler over `VetoInv`: what a handler writes in rules or listener contains every seat that stays (`RulesKeep`), and a handler that writes neither keeps both |
| `SeatsAreKept` (SeatsKept): every fault. The host implements Seats | `LendInv`, over SeatInv: every credential has a key, also those of the book on disk, and a host without a room has an empty table. A handler that gives nothing out maps to `Renew` of the seats it renewed (`Rolls`: what it drops lends nothing), IssueCredentialFor to `Lend` or, when no address is left, to `Lose`, the rest to their namesakes or to `Admit`, which `StaysIn` allows |
| `KickedSeatIsHeld` (HoldKept): every fault | the refinement itself: no step of Seats lends what is held, and LendInv says that a table's lease is what its credential is |
| `RevokedStayOut` (RevokedNeverAuthorised): not `revoke`, `renewTimeout`, `meshWatch`, `linger` | `MeshInv`, over VetoInv and TrustInv: who is in the mesh is trusted or on its way out, so a revoked machine whose kick is past is in the mesh no more, and no rereading can bring it back |
| `ListenerAcceptsMembers` (ListenerAgrees): the same faults, `MaxRestart = 0` | `Admitted`, over MeshInv: the listener's scope contains every member of the table, and whoever is being expelled had been seen. It holds between handlers and not inside them, where `Settled` of the table on its way does |
| `WhoComesBackKeepsTheAddress` (AddressKept): not `renewTimeout`, `MaxRestart = 0` | `AddressInv`, over SeatInv: the engine knows every seat with the table's own date, so a renewal never fails for one that lasts |
| `WhoIsTrustedKeepsTheAddress` (TrustedKept): not `renewTimeout` | SeatInv alone, once every restart is allowed: `Keeps` says that no handler but IssueCredentialFor gives a seat, and that one only moves a key whose old id the engine does not know |
| `BookIsNeverBehind` (BookNotBehindRoom): every fault | `DiskInv`: order of the generations of book, room file, memory and found room, for each code that any of them may still carry |
| `KicksOutliveThePower` (DiskKnowsRevocation): not `saveBook`, `apply`, `revoke`, `unknownId` | `BookKnows`, over VetoInv and DiskInv: a book of this code knows every revocation, not only when it would be accepted |
| `SeatsOutliveThePower` (SeatsStayInBook, and that SeatsInBook implies RestartKeepsBook): not `saveBook`; any number of codes, rooms and restarts | a step lemma over VetoInv and DiskInv. RestartKeepsBook is false after a rotation (section 16), so what is proved is that nothing but a rotation, or discarding a saved room under an open one, takes a seat out of the book of its room, whatever happened before, and that a book with the seats in it is taken back: its generation is never behind the room's |
| **RegistryStore_proofs** `TypeCorrect` | among the types, that slot and mutex are held by whoever is inside |
| `OwnershipIsKept` (OwnershipKept): every fault. The store implements InviteOwnership | `StoreInv`. A saver's pointers lead to the room that has the ID or to one that has expired (`PointersCurrent`), so whatever mixture it writes, what a restart would load is of the room in memory, with its owner and no later pin (`FileFits`). Insert is `Claim`, Publish is `Extend`, the clock and the restart are their namesakes, and the other steps stutter |
| `FileStaysFresh` (FileIsFresh): no write fails | `FreshInv`: whatever the file has of a live room is current, or a save that has still to read that room is on its way |
| **Supervisor_proofs** `TypeCorrect` | none: among the types, that the tunnel's clock runs only in a room |
| `JobsFlyAlone` (OneFlight): every fault | `FlightInv`. An end left in the queue by an earlier flight would lower the flag of a later one; so a job flies or its end is in the queue, never both, the end exactly once, and under its flag in either case |
| `WatchdogStaysAwake` (WatchdogAwake): not `panic` | `OrderInv` and `AwakeInv`. The adapter remembers the order of every room there is, except while a user is leaving, so that a process that dies in one is news; the same is said of a room about to be entered, whose engine may die before the session knows of it |
| `GateIsNotForgotten` (GateFollows): not `panic`, `bind` | `GateInv`, on top of those: between the engine's return and OnEngineRestarted the handler is at `back`, and whoever takes it out of there begins another restart or ends the room |
| **GuestSession_proofs** `TypeCorrect`, `NothingIsLeftBehind` (NothingLeftBehind): every fault | `Course`: what each wait of each kind of order may find (`AtRest`, `GoingIn`, `GoingBack`, `ReturnTurns`), and that before there is a room there is no network, gate nor connection (`NothingBefore`) |
| `GateFollowsTheTunnel` (GateFollows): not `bind` | `RisingIsAnnounced`, which says the same also during an order, where the property is silent |
| `NoticesEndTheirOwnRoom` (NoticeEndsItsRoom): not `crossed` | `MailIsOfTheRoom`: all that waits in the channel, and not only the notice at hand |
| `TheRoomIsTheOneSaved` (LastKept): not `overtaken` | `GoneMeansOut`: while a return has yet to act on a room it found gone, the guest is in no other, so what it forgets is that one |
| `GuestIsWhereItsUserWants` (InWantedRoom): not `overtaken`, `crossed` | `Wanted`: everybody who decides where to go agrees with the user, which are the saved room, the room there is, the order under way, and the return that has claimed one and was not cancelled |
| **ControlChannel_proofs** `TypeCorrect`, `WhoIsReadIsReached` (Reachable), `OneWatcher` (Watched), `PresenceIsTold` (PresenceTold), `AcknowledgedIsRead` (AckedIsRead) | `Inv`, its parts `Own` (each client that is current has one connection of its own or one redial, and is at what it last said) and `Talk` (each notice on its way carries the number it was sent with, and each acknowledgement one that was sent and, if it is the last, read) |
| `OutOfScopeIsNotServed` (OutStaysOut) | a step lemma over `Inv`: what is neither registered nor between the check and the table gets there only through the check |
| **DaemonAndCanary_proofs** `TypeCorrect`, `DaemonTypeCorrect` | none |
| `ShownIsOfThisRoom` (ShownOfThisRoom), `AlarmIsClearedByMeasure` (ClearedByMeasure) | `Inv`: a round that runs and has this room's number was planned in it; one that runs over an alarm was run after applying; and an alarm leaves no repair to do in silence |
| `StopLeavesNoRoom` (CleanEnd): not `late` | `StopInv`. CleanEnd speaks of the last state and each part of what empties the room is earlier: the stop is only asked for once it is wired, past the drain nobody has a seat (so no order is on its way), past the wait no reopening runs, past the leave there is no room; each but the first unless its time ran out |
| `WindowsDieWithTheProcess` (NoWindowOutlives): not `late`, `early`, `job` | `WindowInv`, over StopInv: before the start ends there is no window, keeper or conversation, and once the job is closed the keeper is gone and nobody has a seat, so whoever could launch one does it while the job can hold it (`JobHoldsAll`) |
| **Debts_proofs** `TypeCorrect` | none |
| `OriginalIsKnown` (OriginalKnown): not `overlap` | `Course`, `AskAlone`, `RulesKnown`, `TweaksKnown`: also what has been read and is not yet in the record is the owner's word, nobody is suspending while somebody restores, and at most one is |
| `SettlementsPay` (SettledIsPaid): only `tool` | with those, what each sequence that goes well has paid by each of its steps (`RulesDone`, `DoorsDone`, `TweaksDone`), that a row is booked or `loose`, and a door of ours in the ledger, in the copy about to be written or `stray` |
| `PassOfTheOwnerIsKept` (OwnPassKept): every fault | a step lemma: Gate reads who is blocked once, all an opening writes or books is among those, and a withdrawal goes by the ledger. An adapter that is booked or asked for is left out: there the code takes the operator's pass away (section 16) |
| `BookedDoorIsShut` (BookedTillShut): not `doctor` | `Growing`: the copy that AllowBlocked will write contains the ledger |
| **Containment_proofs** `TypeCorrect` | none: on Linux nothing ever puts a permit |
| `NothingOpenWithoutGate` (Contained): not `bind` | `Gated`, `RoomGated`, `Bound`, `PermitsGated`, under `Course` (which calls run in a room): in particular a purge has no permit left by the time it is at the gate |
| `KickedReachNothing` (KickedShut): every fault | `KickedOut`, with `BookClean` and `WantClean`: nobody under a veto, nor whom the engine revoked, is in the list of members, in what a call on its way wants, nor in the gate, unless that kick is still on its way or an alert is up |
| `SkippingIsSafe` (SkipIsSafe): every fault | `Synced`: what both layers have at every step of a call, also after one that failed before touching anything |
| `WhoLeavesIsTold` (LeaveTold): not both `sweep` and `gate` | `Remembered`: on Linux the audit reads what the adapter remembers, and that is what its gate has; a sweep that fails makes it forget, and `Emptied` says that the gate permitted nothing by then if writing it had gone well |

## 15. What is only model-checked

- **Liveness**: DeadEngineResolved, DeadlineKept, FlagComesDown,
  AbandonedRoomLeft, CredentialRepaired, both ComesBack, LeakIsTold, TamperTold,
  ShutdownEnds, WindowOrEnd, SeatsComeBack. The prover has no rule for fairness
  and ENABLED.
- What TLC reaches is the bounds of section 12. The theorems lift the safety
  properties to all of them, the liveness ones stay where they are: two rooms,
  one host, one member, one seat.

## 16. Known disagreements

Where the code does something else than its own words, found while modelling.
No run has a violation: each row says how to see it, with the faults and
constants to put in the run's cfg. The theorems leave out the faults of these
rows, and four more that no code of theirs could answer: `meshWatch`, an engine
that never says that a kicked machine left (RevokedNeverAuthorised, and
ListenerAgrees with `MaxTime = 4`); `unknownId`, one that takes a credential it
holds for one it does not (DiskKnowsRevocation); `panic` in the handler of a
death (WatchdogAwake, GateFollows); and `save`, a disk that fails (FileIsFresh).
TLC finds each of those properties violated with its fault too.

**HostRoom**

| the code | it says | to see it |
|---|---|---|
| a kick that half fails does not save the book (`kickmember.go:140`), so a crash brings the live credential back | `kickmember.go:155-158`: what has to be kept is the revoked card with its expiry cut | DiskKnowsRevocation with `revoke` or `apply` and a restart |
| renewing the code leaves a book that is no longer this room's (`rotateinvite.go:153`) | `credentialbook.go:31-41`: the book buys the stable address and being able to kick | RestartKeepsBook with `MaxCode = 2` |
| someone whose revocation failed is a member again when the veto is over (`member.go:209`) | `kickmember.go:22-27`: even if they stayed in the network they reach no port | RevokedNeverAuthorised with `revoke` |
| a degraded connection refreshes the peers only (`engineevent.go:60`), and the next change looks like none | `kickmember.go:387-388`, `session.go:1055-1056`: both open to the same people | ListenerAgrees with `linger` |
| the same after a reopening: the book is restored after the listener was served, so the first event that only rereads leaves the seats out of it | the same | ListenerAgrees with no fault and `MaxRestart = 1`: create, issue, crash, resume, `OnEngineDegraded`, `OnPeersChanged` |
| a failed write of the book leaves an older one that would be accepted (`persist.go:84`) | `credentialbook.go:63-66` | DiskKnowsRevocation with `saveBook` |
| a renewal that times out gives whoever returns another address (`issuecredential.go:182`) | `credentialbook.go:31-33` | AddressKept with `renewTimeout` |
| an expired seat stays in the listener's scope until the next event (`deadlines.go:77`) | `kickmember.go:279-280` | by reading |
| someone who is away at every round of renewals expires (`issuecredential.go:72`) | `timing.go:155-157` | by reading |
| an alert of a half kick is taken down by any later success (`session.go:1128`) | `kickmember.go:141-144` | by reading |
| discarding the room found at start erases the files of the one that is open (`resumeroom.go:44`) | `persist.go:7-18` is there to keep them | RoomOnDisk with `MaxRestart = 1` and two codes |

**RegistryStore**

| the code | it says | to see it |
|---|---|---|
| the map copied first may be saved last, and the room of an answered Issue is then not on disk | the header of `Store`: persisting is what makes its "no" mean what it says | IssuedOnDisk with two IDs |
| a card may be saved with the signature of the one before it (`persist.go:95`) | `Room.Sig` | SignedOnDisk: one request publishes while another's save marshals |

**Supervisor**

| the code | it says | to see it |
|---|---|---|
| the ladder counts deaths and not retries (`supervisor.go:734`): a process that the poll starts and that dies while the first retry waits takes a rung | `supervisor.go:165`: MaxRestarts is how many times it is retried before giving up | GivesUpLast |
| a Leave between `RestartStop` and `RestartStart` finds no process and returns, and the restart brings up the network of a room that was left (`engine.go:928`) | `engine.go:818`: Leave leaves everything | LeaveLeavesAll with one death |
| with `address` failing and the engine connecting each time, `connected` starts the ladder again (`supervisor.go:499`) and clears the tunnel's clock, so restarts never end | that they do | WatchdogRests with `address` |
| `reiniciarMotor` only logs what `OnEngineRestarted` returns (`supervisor.go:765`), so the gate stays on the old adapter | `engineevent.go:112` calls it fatal there | GateFollows with `bind` |
| a timer of a room that was left restarts the engine of the next, which is healthy; its members lose it for a minute | — | by reading |
| the ladder of 198 s leaves out the restarts themselves, of up to 75 s each | `supervisor.go:167-171`: it is shorter than `ReconnectLimit` | lengths of time are not modelled |

**GuestSession**

| the code | it says | to see it |
|---|---|---|
| an order that takes the lock where Return has let it go makes Return's ErrNoSuchRoom forget another room (`returnroom.go:213`, `:225`) | it forgets the room that is gone | LastKept with `overtaken` |
| notices, codes and presence carry no room, so what waits when a room is left is handled in the next | — | NoticeEndsItsRoom, InWantedRoom with `crossed` |
| the streak is cleared by the age of the last rejoin that worked (`rejoin.go:157`) | `timing.go:298-310` speaks of calm | by reading |
| `ForgetLastRoom` does not cancel a Return that was launched | — | by reading; its JoinRoom goes on |
| `ErrCanceled` does not wrap `context.Canceled`, so Return's branch for it is dead | — | by reading |
| a rejoin whose settling fails leaves the gate on the old adapter until the event | — | GateFollows says what covers it |

**ControlChannel**

| the code | it says | to see it |
|---|---|---|
| `serveRoom` looks the address up, unlocks and registers later, so a rescope in between leaves a connection of an address that is out | `serveRoom`'s doc: only members are served | ServedAreMembers |
| the loss of a connection and the redial emit presence after unlocking, so a word of a client since replaced may follow the new one's | — | PresenceTold is of the client's own words only |
| a rescope deletes the keys only of members that are connected, keys are not restored with the room, and a door's goroutine that is late can overwrite one | — | by reading; the door is not modelled |

**Canary**

| the code | it says | to see it |
|---|---|---|
| an alarm is rechecked only when something applies the rules again | — | AlarmRechecked |
| `canaryRepairs` is not cleared by leaving (`session.go:481`), so the next room starts with it | — | by reading |
| the mark of an accepted connection may come after `Close` and `WasTouched` (`canary.go:121`) | — | the fairness of `Mark` is strong for it |
| a sweep measured in a room and ended out of it tells of altered rules in no room | — | `SweepEnds` with `~inRoom` |

**Daemon**

| the code | to see it |
|---|---|
| the keeper may give up with a window in sight | GivesUpAlone with `maxRelaunches = 3` and no fault |
| a connection taken before the door closes is seated after `wg.Wait` | CleanEnd, NoWindowOutlives with `late` |
| an order before `host.apagar` is wired is a call on nil; two launches may both last | NoWindowOutlives with `early` |
| a window outside the job that nobody tracks survives the process | NoWindowOutlives with `job` |
| the heartbeat may go back to a room after LeaveRoomOnShutdown: only the context stops it | CleanEnd read with `room # "back"` too |
| a first launch that fails leaves nobody watching | WindowOrEnd with `start` |
| `wg.Wait` is outside ApagadoMax | by reading: `Drained` does not look at `expired` |

**Debts**

| the code | to see it |
|---|---|
| suspending asks whether there is a room, lets the lock go and works on (`activateprofile.go:150`): a leave meanwhile restores and clears, and what is suspended after has no original. Two suspensions at once are an unlocked read-modify-write of the record | OriginalKnown with `overlap`, also without a leave with `Asker = {k1, k2}` |
| AllowBlocked writes the ledger at its end only (`foreignopen_linux.go:311`), against its header (`:22`), and returns before it when a second open fails (`:303`); firewalld's open is two commands (`:90-96`), so one may fail with the interface added; `setPrefixPolicy` runs netsh before saving the book. A leave that goes well then leaves the door or the row | SettledIsPaid with DoorsPaid read without `stray`, or TweaksPaid without `loose`; the fault is `tool`, which the run has |
| an operator who shuts a booked door and allows it again, or who allows one between the question and the opening, loses that pass with the next withdrawal (`foreignopen_linux.go:330-338`), against `:268-271`: undo can never take an operator's rule away, and what already passes is not booked | OwnPassKept asked of a booked adapter too: drop its `a \notin ledger \cup asked \cup book` |
| a door that is in the ledger and was shut by somebody is skipped (`foreignopen_linux.go:300`), so the room opens behind it | by reading: `asked \ book` |
| the comment of RevertTweaks (`netcfg_windows.go:220`) counts on the start, and NewSession does not call it; `Reset` (`reset.go:11`) does not close the doors, and the start does | SettledIsPaid asked of the start for the tweaks, or of the reset for the doors |
| ReapplyAdapter between RevertTweaks and Engine.Leave sets the row again | SettledIsPaid with `overlap` |
| the daemon and `doctor --fix` write the ledger without a lock | BookedTillShut with `doctor` |

**Containment**

| the code | to see it |
|---|---|
| a kick whose revocation failed leaves the kicked in the mesh, and after KickGrace they are in the rules again (`member.go:220-224`, `kickmember.go:374-378`), with no alert if anything was applied well since (`session.go:1128`), against `kickmember.go:22-27` | in Containment with `revoke`: KickMember half done, ActivateProfile, VetoEnds, PeersChanged. KickedShut lets go of them at VetoEnds |
| Apply with no scope purges the gate before the permits (`hybrid.go:340`), so permits that fail to go are open without it | Contained with `bind` and `gate` or `permits` |
| the signature is kept when an Apply stops halfway after the gate (`session.go:985`) | SignatureTrue with `permits` |
| block filters stay after the room is unbound (`session.go:1241`) | GateLetGo |
| on Linux a sweep that fails is not seen by the audit, so a leave says nothing | LeaveTold with `sweep` and `gate` |
| what is closed is verified only after LeaveRoom and OnEngineGaveUp (`leaveroom.go:95`, `engineevent.go:100`), and a rule that is disabled and not shared counts as extra for ever | by reading |
| `hybrid.go:363` speaks of a dynamic session of WFP and `gate_windows.go:9` of one that is not | by reading |

**Not modelled, met on the way.** `port.go:570` says that `Redirect.Clear` runs
on leaving, on dropping the game and at the start, and only
`applyRedirectLocked` (`announce.go:275`) calls it. In the seed's door, a
password being typed while a renewal runs is wiped by `forget()` (`auth.go`);
any failure of a renewal throws the refresh token away, though `auth.go:39-41`
asks for the password only when the refresh dies; and `errReauth` can leave
`client.go`, which says it does not.

## 17. What is not modelled, and what is next

Each component that is missing, or partly there, is in `PROJECT.json` with its
reason. In HostRoom the operations of the room's life (create, resume, rotate,
close) are atomic and successful; their undo is in Containment as far as the
firewall goes, and in GuestSession for a guest. The sealing and the JSON of the
files are abstracted to what decides whether they are accepted. Which ports a
game opens, the text of alerts and the measurements of the machine are left
out: no list of members depends on them.

Next, in this order:

1. **RegistryAuth**: password, sessions and their counters.
2. The door of the control channel, where credentials are asked for, with the
   keys of the members.
3. The address plan as operators against a definition, and the rename of the
   state files.
