------------------------------ MODULE HostRoom ------------------------------
(***************************************************************************)
(* The host's side of a room: the member table of core/usecase Session,    *)
(* the credentials it issues, renews, revokes and saves, and the three     *)
(* lists derived from it (state.Peers, the control listener's scope, the   *)
(* firewall's rules), against the engine, the mesh and the disk.           *)
(*                                                                         *)
(* Every handler of Session runs with Session.mu held from its first line  *)
(* to its return, so each handler is one action.  What interleaves is what *)
(* does not hold that lock: the clock, the engine and its mesh, the other  *)
(* machines, and the end of the process.                                   *)
(*                                                                         *)
(* Time is counted in units no shorter than the heartbeat (15 s): the      *)
(* supervisor's Tick runs at least once between two units while a room is  *)
(* open.  An address is its last octet; the network, broadcast and host    *)
(* addresses, which are never given out, are left out of Addr.             *)
(***************************************************************************)
EXTENDS Integers, FiniteSets

CONSTANTS
    Key,            \* the member keys of the people who ask for a credential
    NoKey,          \* the key field of an absent credential
    NAddr,          \* how many addresses the room's subnet has to give out
    CredentialTTL,  \* life of a credential since it is issued or renewed
    RenewInterval,  \* time between two rounds of renewals
    ArrivalGrace,   \* how long a newcomer may take to appear in the mesh
    KickGrace,      \* how long someone kicked is ignored
    Fault,          \* the faults of this instance, out of FaultKinds
    MaxTime,        \* bound of the model: the clock stops here
    MaxRequest,     \* bound of the model: credential requests served
    MaxCode,        \* bound of the model: invite codes handed out
    MaxRestart      \* bound of the model: crashes, shutdowns, engine deaths

FaultKinds == {
    "revoke",       \* the engine does not answer a revocation, done or not
    "unknownId",    \* it answers with an error that of an id it does not know
    "renewTimeout", \* a renewal fails although the engine knows the id
    "issue",        \* the engine emits no credential
    "apply",        \* applying the firewall's rules fails
    "saveBook",     \* the write of the credential book fails
    "saveRoom",     \* the write of the room fails, or the daemon dies
                    \* between the book's write and the room's
    "clear",        \* the files of a closed room cannot be deleted
    "meshWatch",    \* no one tells the host for a while that the mesh moved
    "linger" }      \* after a restart machines the new engine does not
                    \* trust are still in the mesh

ASSUME KeyAssumption == NoKey \notin Key
ASSUME AddrAssumption == NAddr \in Nat
ASSUME TimeAssumption ==
    /\ CredentialTTL \in Nat \ {0} /\ RenewInterval \in Nat \ {0}
    /\ ArrivalGrace \in Nat /\ KickGrace \in Nat \ {0}
    /\ KickGrace < ArrivalGrace
ASSUME FaultAssumption == Fault \subseteq FaultKinds
ASSUME BoundAssumption ==
    MaxTime \in Nat /\ MaxRequest \in Nat /\ MaxCode \in Nat /\ MaxRestart \in Nat

Addr == 1..NAddr

VARIABLES
    now,        \* the wall clock
    beatDue,    \* the heartbeat has not run since the clock last moved
    open,       \* this machine hosts a room: IsHost() and Conn.InRoom()
    code,       \* the room's invite code, 0 without a room
    members,    \* the member table, by address
    peers,      \* state.Peers without the host itself
    scope,      \* the members the control listener accepts
    rules,      \* the members the live firewall rules let in
    signed,     \* the member list of appliedRules, or NoSignature
    alert,      \* AlertKickIncomplete is shown
    gen,        \* membersGen, the generation of the last book written
    lastRenew,  \* when the last round of renewals ran
    saved,      \* the saved room this process found when it started
    bookFile,   \* the credential book on disk
    roomFile,   \* the hosted room on disk
    trust,      \* the credentials the engine trusts
    mesh,       \* the addresses the engine reports in the mesh
    expelled,   \* those of them whose session the engine is closing
    codes,      \* how many invite codes have been handed out
    requests,   \* how many requests for a credential have been served
    restarts    \* how many crashes, shutdowns and engine deaths so far

host  == <<open, code, members, peers, scope, rules, signed, alert, gen, lastRenew>>
disk  == <<saved, bookFile, roomFile>>
world == <<trust, mesh, expelled>>
vars  == <<now, beatDue, host, disk, world, codes, requests, restarts>>
-----------------------------------------------------------------------------
(* Credentials, members and the member table.                              *)

NoVeto == -1
NoSignature == {0}

\* A credential of the table; the id 0 is Member.Cred = nil.
Credential == [id : Nat, key : Key \cup {NoKey}, issuedAt : Nat,
               expiresAt : Nat, revoked : BOOLEAN]

NoCred == [id |-> 0, key |-> NoKey, issuedAt |-> 0, expiresAt |-> 0, revoked |-> FALSE]

Member == [cred : Credential, inMesh : BOOLEAN, kickedAt : Nat \cup {NoVeto}]

NoMember == [cred |-> NoCred, inMesh |-> FALSE, kickedAt |-> NoVeto]

EmptyTable == [a \in Addr |-> NoMember]

\* The book's entries: the table's credentials, without their tokens.
Entries(table) == [a \in Addr |-> table[a].cred]

NoBook == [gen |-> 0, code |-> 0, entries |-> Entries(EmptyTable)]
NoRoom == [code |-> 0, gen |-> 0]

\* A credential is expired from the very instant of its expiry on.
Live(c, t) == c.id # 0 /\ t < c.expiresAt

\* Mutant: the filter on revoked credentials is gone.
Bug_Seat(c, t) == Live(c, t)

\* A seat is a credential that admits its owner: neither expired nor revoked.
Seat(c, t) == Live(c, t) /\ ~c.revoked

\* Mutant: the filter on the veto is gone.
Bug_IsMemberVetoed(m, t) == m.inMesh \/ Seat(m.cred, t)

\* Member.IsMember: a veto shuts out, the mesh lets in, else the book decides.
IsMember(m, t) == m.kickedAt = NoVeto /\ (m.inMesh \/ Seat(m.cred, t))

\* Members of a table: its MemberIPsOf, and the peers it shows but the host.
MemberIPs(table, t) == {a \in Addr : IsMember(table[a], t)}

VetoLifted(m, t) ==
    IF m.kickedAt # NoVeto /\ t - m.kickedAt >= KickGrace
    THEN [m EXCEPT !.kickedAt = NoVeto] ELSE m

\* MemberTable.Forget: lift the vetoes that are over, then drop the entries
\* that no longer say anything.  An open channel keeps an entry too.
Forget(table, channel, t) ==
    [a \in Addr |->
        LET m == VetoLifted(table[a], t)
        IN  IF m.inMesh \/ a \in channel \/ m.kickedAt # NoVeto \/ Live(m.cred, t)
            THEN m ELSE NoMember]

\* refreshMembersLocked: what the engine reports, then Forget.
Refresh(table, report, channel, t) ==
    Forget([a \in Addr |-> [table[a] EXCEPT !.inMesh = (a \in report)]], channel, t)

\* The members whose control channel is open: the listener only accepts its
\* scope.  An open channel does no more than keep an expired entry.
Channels == SUBSET {a \in scope : ~Live(members[a].cred, now)}

WithCred(table, a, c) == [table EXCEPT ![a].cred = c]
-----------------------------------------------------------------------------
(* What the handlers share: the engine, the rules, the listener, the disk. *)

\* The engine trusts this very credential, and says so when asked to renew.
Trusted(c) == \E r \in trust : r.id = c.id

Renewed(ids) == {[r EXCEPT !.exp = IF r.id \in ids THEN now + CredentialTTL ELSE @] : r \in trust}

\* applyRuleSetLocked with success: the rules, their signature and the alert.
RulesApplied(desired) == rules' = desired /\ signed' = desired

\* Firewall.Apply failed in its first layer, or in its second one with the
\* first already changed: a packet has to pass both.
RulesFailed(desired) ==
    /\ "apply" \in Fault
    /\ rules' \in {rules, rules \cap desired}
    /\ UNCHANGED <<signed, alert>>

\* applyPolicy from a handler that only logs its failure.
ApplyPolicy(table) ==
    \/ RulesApplied(MemberIPs(table, now)) /\ alert' = FALSE
    \/ RulesFailed(MemberIPs(table, now))

\* restrictControlChannel.  Moving the scope on the same addresses never fails.
RestrictControlChannel(table) == scope' = MemberIPs(table, now)

\* Mutant: the room is saved before the session takes its new code.
Bug_SaveRoom(c, g) == roomFile' = [code |-> code, gen |-> g]

\* saveRoomLocked
SaveRoom(c, g) ==
    \/ roomFile' = [code |-> c, gen |-> g]
    \/ "saveRoom" \in Fault /\ UNCHANGED roomFile

\* Mutant: the room is saved first, so what may be missing is the book.
Bug_SaveMembersOrder(table) ==
    /\ roomFile' = [code |-> code, gen |-> gen + 1]
    /\ gen' = gen + 1
    /\ \/ bookFile' = [gen |-> gen + 1, code |-> code, entries |-> Entries(table)]
       \/ "saveRoom" \in Fault /\ UNCHANGED bookFile

\* Mutant: the book is written before the change that called for it.
Bug_SaveMembersEarly(table) ==
    /\ bookFile' = [gen |-> gen + 1, code |-> code, entries |-> Entries(members)]
    /\ gen' = gen + 1
    /\ SaveRoom(code, gen + 1)

\* Mutant: the book carries the generation before the one the room remembers.
Bug_SaveMembersGen(table) ==
    /\ bookFile' = [gen |-> gen, code |-> code, entries |-> Entries(table)]
    /\ gen' = gen + 1
    /\ SaveRoom(code, gen + 1)

\* saveMembersLocked: the book with the next generation, then the room that
\* remembers it.  When the book cannot be written nothing else is.
SaveMembers(table) ==
    \/ /\ bookFile' = [gen |-> gen + 1, code |-> code, entries |-> Entries(table)]
       /\ gen' = gen + 1
       /\ SaveRoom(code, gen + 1)
    \/ "saveBook" \in Fault /\ UNCHANGED <<bookFile, gen, roomFile>>
-----------------------------------------------------------------------------
(* The heartbeat.                                                          *)

\* renewCredentialsLocked asks to renew every seat in the mesh, and the ones
\* whose owner may still be on the way in.
RenewalDue(m) ==
    /\ Seat(m.cred, now)
    /\ m.inMesh \/ now - m.cred.issuedAt < ArrivalGrace

RoundDue == now - lastRenew >= RenewInterval

\* The addresses whose seat the engine renews.  An id it does not know is an
\* error, and a seat whose renewal fails is left as it is.
RenewalRound(table) ==
    LET known == {a \in Addr : RenewalDue(table[a]) /\ Trusted(table[a].cred)}
    IN  IF ~RoundDue THEN {{}}
        ELSE IF "renewTimeout" \in Fault THEN SUBSET known ELSE {known}

WithRenewals(table, at) ==
    [a \in Addr |-> IF a \in at
                    THEN [table[a] EXCEPT !.cred.expiresAt = now + CredentialTTL]
                    ELSE table[a]]

\* What a round of renewals leaves outside the table: the engine's dates, and
\* the book, saved when some date moved.
Renewal(at, table) ==
    /\ lastRenew' = IF RoundDue THEN now ELSE lastRenew
    /\ trust' = Renewed({table[a].cred.id : a \in at})
    /\ IF at # {} THEN SaveMembers(table) ELSE UNCHANGED <<bookFile, gen, roomFile>>

\* The heartbeat, and every other caller of enforceDeadlinesLocked that does
\* no more: entries are dropped and seats renewed.  The rules and the scope are
\* not looked at.
Tick ==
    /\ open
    /\ \E channel \in Channels :
        LET kept == Forget(members, channel, now)
        IN  \E at \in RenewalRound(kept) :
                /\ members' = WithRenewals(kept, at)
                /\ Renewal(at, members')
    /\ beatDue' = FALSE
    /\ UNCHANGED <<now, open, code, peers, scope, rules, signed, alert, saved,
                   mesh, expelled, codes, requests, restarts>>
-----------------------------------------------------------------------------
(* The member table is read again.                                         *)

\* memberSetChangedLocked, between the peers shown and those about to be.
MemberSetChanged(desired) == desired # peers

\* onPeersChangedLocked, on the table a handler has got so far.  The peers are
\* already new when the rules fail, and then the handler returns.
PeersChanged(table, channel) ==
    LET after   == Refresh(table, mesh, channel, now)
        desired == MemberIPs(after, now)
    IN  /\ members' = after
        /\ peers' = desired
        /\ \/ /\ IF desired = signed THEN UNCHANGED <<rules, signed, alert>>
                                     ELSE RulesApplied(desired) /\ alert' = FALSE
              /\ IF MemberSetChanged(desired) THEN RestrictControlChannel(after)
                                              ELSE UNCHANGED scope
           \/ desired # signed /\ RulesFailed(desired) /\ UNCHANGED scope

\* Session.OnPeersChanged, and OnEngineEvent(EnginePeersChanged).
OnPeersChanged ==
    /\ open
    /\ \E channel \in Channels :
        LET kept == Forget(members, channel, now)
        IN  \E at \in RenewalRound(kept) :
                LET renewed == WithRenewals(kept, at)
                IN  Renewal(at, renewed) /\ PeersChanged(renewed, channel)
    /\ beatDue' = FALSE
    /\ UNCHANGED <<now, open, code, saved, mesh, expelled, codes, requests, restarts>>

\* OnEngineEvent(EngineDegraded): the members are read again, for how they
\* reach this host, and nothing else follows.
OnEngineDegraded ==
    /\ open
    /\ \E channel \in Channels :
        LET kept == Forget(members, channel, now)
        IN  \E at \in RenewalRound(kept) :
                LET renewed == WithRenewals(kept, at)
                IN  /\ Renewal(at, renewed)
                    /\ members' = Refresh(renewed, mesh, channel, now)
    /\ peers' = MemberIPs(members', now)
    /\ beatDue' = FALSE
    /\ UNCHANGED <<now, open, code, scope, rules, signed, alert, saved, mesh,
                   expelled, codes, requests, restarts>>

\* Session.OnMemberChannelUp, of anyone the listener accepts.
OnMemberChannelUp ==
    /\ open
    /\ scope # {}
    /\ \E channel \in Channels : PeersChanged(members, channel)
    /\ UNCHANGED <<now, beatDue, open, code, gen, lastRenew, disk, world,
                   codes, requests, restarts>>

\* OnEngineEvent(EngineConnected), tunnelUpLocked: the gate is bound again,
\* which forgets the signature, and everything is computed anew.
OnTunnelUp ==
    /\ open
    /\ \E channel \in Channels :
        LET kept == Forget(members, channel, now)
        IN  \E at \in RenewalRound(kept) :
                LET renewed == WithRenewals(kept, at)
                    after   == Refresh(renewed, mesh, channel, now)
                IN  /\ Renewal(at, renewed)
                    /\ members' = after
                    /\ peers' = MemberIPs(after, now)
                    /\ \/ /\ RulesApplied(MemberIPs(after, now)) /\ alert' = FALSE
                          /\ RestrictControlChannel(after)
                       \/ /\ "apply" \in Fault
                          /\ rules' \in {rules, rules \cap MemberIPs(after, now)}
                          /\ signed' = NoSignature
                          /\ UNCHANGED <<alert, scope>>
    /\ beatDue' = FALSE
    /\ UNCHANGED <<now, open, code, saved, mesh, expelled, codes, requests, restarts>>
-----------------------------------------------------------------------------
(* The rules are put back.                                                 *)

\* RefreshAlerts, the periodic sweep: the heartbeat, and the rules applied
\* again if those that live are not the desired ones, unless they could not be
\* measured or have been put back too often.
Sweep ==
    /\ open
    /\ \E channel \in Channels :
        LET kept == Forget(members, channel, now)
        IN  \E at \in RenewalRound(kept) :
                /\ members' = WithRenewals(kept, at)
                /\ Renewal(at, members')
    /\ \/ UNCHANGED <<rules, signed, alert>>
       \/ rules # MemberIPs(members', now) /\ ApplyPolicy(members')
    /\ beatDue' = FALSE
    /\ UNCHANGED <<now, open, code, peers, scope, saved, mesh, expelled, codes,
                   requests, restarts>>

\* ReapplyProtection, and the canary that was touched.
ReapplyProtection ==
    /\ open
    /\ ApplyPolicy(members)
    /\ UNCHANGED <<now, beatDue, open, code, members, peers, scope, gen, lastRenew,
                   disk, world, codes, requests, restarts>>

\* ActivateProfile applies the rules of a game and saves the room with it;
\* RenameRoom only saves it.
ActivateProfile ==
    /\ open
    /\ \/ RulesApplied(MemberIPs(members, now)) /\ alert' = FALSE /\ SaveRoom(code, gen)
       \/ RulesFailed(MemberIPs(members, now)) /\ UNCHANGED roomFile
    /\ UNCHANGED <<now, beatDue, open, code, members, peers, scope, gen, lastRenew,
                   saved, bookFile, world, codes, requests, restarts>>

RenameRoom ==
    /\ open
    /\ SaveRoom(code, gen)
    /\ UNCHANGED <<now, beatDue, host, saved, bookFile, world, codes, requests, restarts>>
-----------------------------------------------------------------------------
(* The door: a credential is asked for.                                    *)

\* Mutant: a revoked credential gives its address back at once.
Bug_TakenRevoked(table) == {a \in Addr : table[a].inMesh \/ Seat(table[a].cred, now)}

\* Mutant: only the mesh is looked at.
Bug_TakenMesh(table) == {a \in Addr : table[a].inMesh}

\* takenAddressesLocked: in the mesh, or held by a credential that lives,
\* revoked or not.
Taken(table) == {a \in Addr : table[a].inMesh \/ Live(table[a].cred, now)}

\* nextFreeAddress: the lowest one.
NextFree(table) == CHOOSE a \in Addr \ Taken(table) : \A b \in Addr \ Taken(table) : a <= b

NewCred(k) == [id |-> requests + 1, key |-> k, issuedAt |-> now,
               expiresAt |-> now + CredentialTTL, revoked |-> FALSE]

Trust(c, a) == [id |-> c.id, key |-> c.key, addr |-> a, exp |-> c.expiresAt]

\* Mutant: only those in the mesh find their seat again.
Bug_Holding(k) == {a \in Addr : /\ Seat(members[a].cred, now)
                                /\ members[a].cred.key = k
                                /\ members[a].inMesh}

\* credentialByMemberLocked: any live seat of that key, in the map's order.
Holding(k) == {a \in Addr : Seat(members[a].cred, now) /\ members[a].cred.key = k}

\* Whoever comes back is given what was theirs.
ReturnSeat(a) ==
    LET c == members[a].cred
    IN  /\ Trusted(c)
        /\ members' = WithCred(members, a, [c EXCEPT !.expiresAt = now + CredentialTTL])
        /\ trust' = Renewed({c.id})
        /\ SaveMembers(members')
        /\ ApplyPolicy(members')
        /\ RestrictControlChannel(members')

\* Mutant: the listener learns of a newcomer when it is seen to come in.
Bug_NewSeat(table, k) ==
    \/ /\ Addr \subseteq Taken(table) \/ "issue" \in Fault
       /\ members' = table
       /\ UNCHANGED <<scope, rules, signed, alert, gen, bookFile, roomFile, trust>>
    \/ /\ ~(Addr \subseteq Taken(table))
       /\ LET a == NextFree(table)
              c == NewCred(k)
          IN  /\ members' = WithCred(table, a, c)
              /\ trust' = trust \cup {Trust(c, a)}
       /\ SaveMembers(members')
       /\ ApplyPolicy(members')
       /\ UNCHANGED scope

\* A new credential, on the table left by a search for an old one.
NewSeat(table, k) ==
    \/ /\ Addr \subseteq Taken(table) \/ "issue" \in Fault
       /\ members' = table
       /\ UNCHANGED <<scope, rules, signed, alert, gen, bookFile, roomFile, trust>>
    \/ /\ ~(Addr \subseteq Taken(table))
       /\ LET a == NextFree(table)
              c == NewCred(k)
          IN  /\ members' = WithCred(table, a, c)
              /\ trust' = trust \cup {Trust(c, a)}
       /\ SaveMembers(members')
       /\ ApplyPolicy(members')
       /\ RestrictControlChannel(members')

\* Session.IssueCredentialFor.  A renewal that fails, whatever the reason,
\* drops the old seat and the request goes on as a new one.
IssueCredentialFor(k) ==
    /\ open
    /\ requests < MaxRequest
    /\ requests' = requests + 1
    /\ \/ \E a \in Holding(k) :
            \/ ReturnSeat(a)
            \/ /\ ~Trusted(members[a].cred) \/ "renewTimeout" \in Fault
               /\ NewSeat(WithCred(members, a, NoCred), k)
       \/ Holding(k) = {} /\ NewSeat(members, k)
    /\ UNCHANGED <<now, beatDue, open, code, peers, lastRenew, saved, mesh,
                   expelled, codes, restarts>>
-----------------------------------------------------------------------------
(* Kicking.                                                                *)

\* memberAtLocked and credentialFor: someone shown, or with a seat, whose
\* credential is in the table.
Kickable(a) ==
    /\ a \in peers \/ Seat(members[a].cred, now)
    /\ members[a].cred.id # 0

\* The veto, and the credential revoked with its expiry set to the grace of an
\* arrival: it holds the address and admits no one.
Kicked(m) ==
    [m EXCEPT !.kickedAt = now, !.cred.revoked = TRUE,
              !.cred.expiresAt = now + ArrivalGrace]

\* RevokeCredential: the engine closes the session of an id it trusts.  What it
\* answers to an id it does not know is not in its contract (port.go), and one
\* whose answer is lost may or may not have been carried out.
Revocation(a, done) ==
    LET c == members[a].cred
    IN  /\ done \/ (IF Trusted(c) THEN "revoke" ELSE "unknownId") \in Fault
        /\ \/ /\ trust' = {r \in trust : r.id # c.id}
              /\ expelled' = IF Trusted(c) THEN expelled \cup ({a} \cap mesh) ELSE expelled
           \/ ~done /\ UNCHANGED <<trust, expelled>>

\* Session.KickMember.  Both layers are always tried; the book goes to disk
\* only when both worked, and otherwise the alert is raised.  A death inside it,
\* before that write, is a death before it: what it had changed by then (table,
\* listener, rules, the engine's trust) ends with the process or is emptied by
\* the next start, and the files are as they were.
KickMember(a) ==
    /\ open
    /\ Kickable(a)
    /\ members' = [members EXCEPT ![a] = Kicked(@)]
    /\ peers' = peers \ {a}
    /\ RestrictControlChannel(members')
    /\ \E done \in BOOLEAN :
        /\ Revocation(a, done)
        /\ \/ /\ RulesApplied(MemberIPs(members', now))
              /\ alert' = ~done
              /\ IF done THEN SaveMembers(members')
                         ELSE UNCHANGED <<bookFile, gen, roomFile>>
           \/ /\ "apply" \in Fault
              /\ rules' \in {rules, rules \cap MemberIPs(members', now)}
              /\ alert' = TRUE
              /\ UNCHANGED <<signed, bookFile, gen, roomFile>>
    /\ UNCHANGED <<now, beatDue, open, code, lastRenew, saved, mesh, codes,
                   requests, restarts>>
-----------------------------------------------------------------------------
(* The room itself.                                                        *)

\* RotateInviteCode, once the registry and the lobby have taken the new code.
\* The book is not written again.
RotateInviteCode ==
    /\ open
    /\ codes < MaxCode
    /\ codes' = codes + 1
    /\ code' = codes + 1
    /\ RestrictControlChannel(members)
    /\ \/ RulesApplied(MemberIPs(members, now)) /\ alert' = FALSE
       \/ /\ "apply" \in Fault
          /\ rules' \in {rules, rules \cap MemberIPs(members, now)}
          /\ signed' = NoSignature
          /\ UNCHANGED alert
    /\ SaveRoom(code', gen)
    /\ UNCHANGED <<now, beatDue, open, members, peers, gen, lastRenew, saved,
                   bookFile, world, requests, restarts>>

\* CreateRoom, when it succeeds.  The room is saved, the book is not.
CreateRoom ==
    /\ ~open
    /\ codes < MaxCode
    /\ open' = TRUE
    /\ codes' = codes + 1
    /\ code' = codes + 1
    /\ peers' = {} /\ scope' = {}
    /\ rules' = {} /\ signed' = {}
    /\ SaveRoom(code', gen)
    /\ beatDue' = FALSE
    /\ UNCHANGED <<now, members, alert, gen, lastRenew, saved, bookFile, world,
                   requests, restarts>>

\* DecodeCredentialBook: the book on disk is the one of this room and not
\* older than the room remembers.
BookAccepted(room) ==
    /\ bookFile.gen # 0
    /\ bookFile.gen >= room.gen
    /\ bookFile.code = room.code

\* loadMembersLocked keeps what has not expired.
Loaded(entries) ==
    [a \in Addr |-> IF Live(entries[a], now)
                    THEN [NoMember EXCEPT !.cred = entries[a]] ELSE NoMember]

\* ResumeRoom, when it succeeds: the listener and the rules start from an empty
\* table, and the book comes back after them.
ResumeRoom ==
    /\ ~open
    /\ saved.code # 0
    /\ open' = TRUE
    /\ code' = saved.code
    /\ peers' = {} /\ scope' = {}
    /\ rules' = {} /\ signed' = {}
    /\ IF BookAccepted(saved)
       THEN members' = Loaded(bookFile.entries) /\ gen' = bookFile.gen
       ELSE members' = EmptyTable /\ gen' = saved.gen
    /\ SaveRoom(code', gen')
    /\ saved' = NoRoom
    /\ beatDue' = FALSE
    /\ UNCHANGED <<now, alert, lastRenew, bookFile, world, codes, requests, restarts>>

\* What clearing the room leaves in memory and in Windows or nftables.
RoomDown ==
    /\ open' = FALSE
    /\ code' = 0
    /\ members' = EmptyTable
    /\ peers' = {} /\ scope' = {} /\ rules' = {}
    /\ signed' = NoSignature
    /\ alert' = FALSE
    /\ trust' = {}
    /\ expelled' = {}

Cleared(file, none) == {none} \cup (IF "clear" \in Fault THEN {file} ELSE {})

\* leaveLocked(cerrarDeVerdad) on a host: the files of the room go with it.
CloseRoom ==
    /\ open
    /\ RoomDown
    /\ roomFile' \in Cleared(roomFile, NoRoom)
    /\ bookFile' \in Cleared(bookFile, NoBook)
    /\ gen' = 0
    /\ mesh' = {}
    /\ beatDue' = FALSE
    /\ UNCHANGED <<now, lastRenew, saved, codes, requests, restarts>>

\* DiscardSavedRoom.  It does not ask whether a room is open.
DiscardSavedRoom ==
    /\ saved.code # 0
    /\ saved' = NoRoom
    /\ roomFile' = NoRoom
    /\ bookFile' \in Cleared(bookFile, NoBook)
    /\ gen' = 0
    /\ UNCHANGED <<now, beatDue, open, code, members, peers, scope, rules, signed,
                   alert, lastRenew, world, codes, requests, restarts>>
-----------------------------------------------------------------------------
(* The end of the process, and the world outside it.                       *)

\* A new process: its memory is empty, the engine with its trust list died
\* with the old one, and it reads the room that is on disk.
NewProcess ==
    /\ restarts < MaxRestart
    /\ restarts' = restarts + 1
    /\ RoomDown
    /\ gen' = 0
    /\ lastRenew' = -RenewInterval
    /\ saved' = roomFile'
    /\ mesh' \in (IF "linger" \in Fault THEN SUBSET (mesh \ expelled) ELSE {{}})
    /\ beatDue' = FALSE
    /\ UNCHANGED <<now, bookFile, codes, requests>>

Crash == UNCHANGED roomFile /\ NewProcess

\* LeaveRoomOnShutdown saves the room once more and keeps its files.
LeaveRoomOnShutdown == open /\ SaveRoom(code, gen) /\ NewProcess

\* The engine dies alone, and with it the credentials it trusted.
EngineDies ==
    /\ open
    /\ restarts < MaxRestart
    /\ restarts' = restarts + 1
    /\ trust' = {}
    /\ expelled' = {}
    /\ mesh' \in (IF "linger" \in Fault THEN SUBSET (mesh \ expelled) ELSE {{}})
    /\ UNCHANGED <<now, beatDue, host, disk, codes, requests>>

\* OnEngineRestarted: the gate is bound to the new adapters and the rules are
\* applied to them.
OnEngineRestarted ==
    /\ open
    /\ restarts > 0
    /\ \/ RulesApplied(MemberIPs(members, now)) /\ alert' = FALSE
       \/ /\ "apply" \in Fault
          /\ rules' \in {rules, rules \cap MemberIPs(members, now)}
          /\ signed' = NoSignature
          /\ UNCHANGED alert
    /\ UNCHANGED <<now, beatDue, open, code, members, peers, scope, gen, lastRenew,
                   disk, world, codes, requests, restarts>>

\* The owner of a trusted credential appears in the mesh, or leaves it.
Arrive(a) ==
    /\ open
    /\ a \notin mesh
    /\ \E r \in trust : r.addr = a
    /\ mesh' = mesh \cup {a}
    /\ UNCHANGED <<now, beatDue, host, disk, trust, expelled, codes, requests, restarts>>

Depart(a) ==
    /\ a \in mesh
    /\ mesh' = mesh \ {a}
    /\ expelled' = expelled \ {a}
    /\ UNCHANGED <<now, beatDue, host, disk, trust, codes, requests, restarts>>

HostSeesMesh == \A a \in Addr : members[a].inMesh <=> a \in mesh

\* The clock moves.  A unit is longer than the heartbeat, than the second the
\* engine takes to close a session, and, unless "meshWatch" fails, than the
\* mesh watcher's beat.
PassTime ==
    /\ now < MaxTime
    /\ open => /\ ~beatDue
               /\ expelled = {}
               /\ HostSeesMesh \/ "meshWatch" \in Fault
    /\ now' = now + 1
    /\ beatDue' = open
    /\ trust' = {r \in trust : now' < r.exp}
    /\ expelled' = mesh \cap {r.addr : r \in trust \ trust'}
    /\ UNCHANGED <<host, disk, mesh, codes, requests, restarts>>
-----------------------------------------------------------------------------
Init ==
    /\ now = 0 /\ beatDue = FALSE
    /\ open = FALSE /\ code = 0
    /\ members = EmptyTable
    /\ peers = {} /\ scope = {} /\ rules = {}
    /\ signed = NoSignature
    /\ alert = FALSE
    /\ gen = 0 /\ lastRenew = -RenewInterval
    /\ saved = NoRoom /\ bookFile = NoBook /\ roomFile = NoRoom
    /\ trust = {} /\ mesh = {} /\ expelled = {}
    /\ codes = 0 /\ requests = 0 /\ restarts = 0

Next ==
    \/ Tick \/ OnPeersChanged \/ OnEngineDegraded \/ OnMemberChannelUp \/ OnTunnelUp
    \/ Sweep \/ ReapplyProtection \/ ActivateProfile \/ RenameRoom
    \/ \E k \in Key : IssueCredentialFor(k)
    \/ \E a \in Addr : KickMember(a)
    \/ RotateInviteCode \/ CreateRoom \/ ResumeRoom \/ CloseRoom \/ DiscardSavedRoom
    \/ Crash \/ LeaveRoomOnShutdown \/ EngineDies \/ OnEngineRestarted
    \/ \E a \in Addr : Arrive(a) \/ Depart(a)
    \/ PassTime

Spec == Init /\ [][Next]_vars
-----------------------------------------------------------------------------
(* Properties.                                                             *)

\* Types of every variable.
TypeOK ==
    /\ now \in Nat /\ beatDue \in BOOLEAN /\ open \in BOOLEAN /\ alert \in BOOLEAN
    /\ code \in Nat /\ gen \in Nat /\ lastRenew \in Int
    /\ members \in [Addr -> Member]
    /\ peers \subseteq Addr /\ scope \subseteq Addr /\ rules \subseteq Addr
    /\ signed \subseteq Addr \cup {0}
    /\ saved \in [code : Nat, gen : Nat] /\ roomFile \in [code : Nat, gen : Nat]
    /\ bookFile \in [gen : Nat, code : Nat, entries : [Addr -> Credential]]
    /\ trust \subseteq [id : Nat, key : Key, addr : Addr, exp : Nat]
    /\ mesh \subseteq Addr /\ expelled \subseteq mesh
    /\ codes \in Nat /\ requests \in Nat /\ restarts \in Nat

\* Someone kicked is out of all three lists while the veto lasts, whatever the
\* engine reports and whichever of the two layers failed; if the firewall could
\* not be closed, the alert says so (kickmember.go, KickMember).
VetoExcludes ==
    open => \A a \in Addr : members[a].kickedAt # NoVeto =>
                /\ a \notin scope
                /\ a \notin peers
                /\ a \in rules => alert

\* No one is given an address whose last owner is still under the veto of a
\* kick: with it they would be dropped from every list (the hole the comment
\* of KickMember closes by fixing the expiry).
NewcomerNotVetoed ==
    open => \A a \in Addr : Seat(members[a].cred, now) => members[a].kickedAt = NoVeto

\* The hold a kick leaves on an address outlives its veto, at every moment
\* between two heartbeats: by the time the address may be given again the next
\* heartbeat has lifted the veto (KickMember fixes the expiry to ArrivalGrace,
\* longer than KickGrace).  A room that is closed remembers no one.
VetoWithinHold ==
    /\ ~open => members = EmptyTable
    /\ \A a \in Addr : LET m == members[a] IN
        m.kickedAt # NoVeto =>
            /\ m.cred.id # 0 /\ m.cred.revoked
            /\ m.kickedAt <= now
            /\ m.cred.expiresAt >= m.kickedAt + ArrivalGrace
            /\ now <= m.kickedAt + KickGrace
            /\ beatDue \/ now < m.kickedAt + KickGrace

\* Whoever the engine still lets in has a seat in the host's table, at the
\* address they were given and under their key, so they can be found when they
\* come back, and kicked (credentialFor).
EngineTrustInBook ==
    \A r \in trust :
        LET c == members[r.addr].cred
        IN  c.id = r.id /\ c.key = r.key /\ c.expiresAt = r.exp /\ ~c.revoked

\* A key never holds two seats: coming back does not burn an address per turn
\* (IssueCredentialFor, "El que vuelve recibe LO SUYO").
OneSeatPerKey ==
    \A a, b \in Addr :
        /\ Seat(members[a].cred, now)
        /\ Seat(members[b].cred, now)
        /\ members[a].cred.key = members[b].cred.key
        => a = b

\* Someone revoked is never let in again by that credential, not even when the
\* veto is over and their machine took its time to leave the mesh.
RevokedNeverAuthorised ==
    open => \A a \in Addr : members[a].cred.revoked =>
                a \notin scope /\ (a \in rules => alert)

\* The book this host wrote is never taken for a restored copy of an older one
\* (persist.go, the order of the two writes).
BookNotBehindRoom ==
    bookFile.gen # 0 /\ roomFile.code = bookFile.code => bookFile.gen >= roomFile.gen

\* What a kick leaves survives a power cut: if the book on disk would be taken
\* back, it knows of every revocation this host knows of.
DiskKnowsRevocation ==
    open /\ roomFile.code = code /\ BookAccepted(roomFile) =>
        \A a \in Addr : LET c == members[a].cred IN
            Live(c, now) /\ c.revoked =>
                bookFile.entries[a].id = c.id /\ bookFile.entries[a].revoked

\* A power cut does not take the seats with it: while someone has one, the book
\* on disk is one that reopening the room would take back.
RestartKeepsBook ==
    open /\ roomFile.code = code /\ (\E a \in Addr : Seat(members[a].cred, now)) =>
        BookAccepted(roomFile)

\* Whoever has a seat is in a book of the room's code: the one that is taken
\* back after a power cut, once the room is saved under that code.
SeatsInBook ==
    open /\ (\E a \in Addr : Seat(members[a].cred, now)) =>
        bookFile.gen # 0 /\ bookFile.code = code

\* That stays so through requests, renewals, kicks, lost writes of the room,
\* crashes and reopenings, whatever came before: only a new code, and throwing
\* the saved room away with one open, leave seats that a power cut would take
\* (RotateInviteCode and DiscardSavedRoom, which do not write the book).
SeatsStayInBook ==
    [][SeatsInBook /\ (open => UNCHANGED <<code, saved>>) => SeatsInBook']_vars

\* The room that is open is the one that would be reopened.
RoomOnDisk == open => roomFile.code = code

\* A seat holder the listener and the firewall already let in stays let in
\* while they keep the seat and the room stays open.
AdmissionKept ==
    [][open /\ open' => \A a \in Addr :
        /\ Seat(members[a].cred, now) /\ a \in scope \cap rules
        /\ Seat(members'[a].cred, now')
        => a \in scope' \cap rules']_vars

\* Whoever comes back with a live seat gets that seat's address again.
AddressKept ==
    [][\A a, b \in Addr :
        /\ open /\ open'
        /\ Seat(members[a].cred, now) /\ Seat(members'[b].cred, now')
        /\ members[a].cred.key = members'[b].cred.key
        => a = b]_vars

\* Once the table, the peers shown and the rules agree, the listener accepts
\* the very members the rules let in: no one is left with open ports and a
\* control channel that refuses them.
ListenerAgrees ==
    open /\ peers = rules /\ rules = MemberIPs(members, now) => rules \subseteq scope

\* What a credential lends or holds at a time; the seat is its owner's.
LeaseOf(c, t) ==
    IF Live(c, t) THEN [key |-> IF c.revoked THEN NoKey ELSE c.key, until |-> c.expiresAt]
                  ELSE [key |-> NoKey, until |-> 0]

Leases(creds, t) == [a \in Addr |-> LeaseOf(creds[a], t)]

\* The host keeps what Seats promises, through every fault, crash and restart:
\* the table and the book on disk lend an address to one key and a key one
\* address, an address somebody was kicked from is lent to no one before its
\* date (the comment of KickMember on the expiry it sets), what is taken back
\* after a restart is what the book had, and who was let in stays in.
Seating == INSTANCE Seats WITH
    SeatTTL <- CredentialTTL,
    HoldTTL <- ArrivalGrace,
    lease <- Leases(Entries(members), now),
    kept <- Leases(bookFile.entries, now),
    admitted <- scope \cap rules

SeatsKept == Seating!Init /\ [][Seating!Next]_Seating!vars

\* An address somebody was kicked from gives nobody a seat before the date the
\* kick set, not even to the one who comes back as somebody else (KickMember,
\* the expiry is fixed so that nobody inherits the address of who was kicked).
HoldKept ==
    [][open /\ open' => \A a \in Addr :
        members[a].cred.revoked /\ Live(members[a].cred, now')
        => ~Seat(members'[a].cred, now')]_vars

\* Nor does a dead engine or a restarted host move anyone: a seat whose id the
\* engine knows is the one its owner is given back.
TrustedKept ==
    [][\A a, b \in Addr :
        /\ open /\ open'
        /\ Seat(members[a].cred, now) /\ Trusted(members[a].cred)
        /\ Seat(members'[b].cred, now')
        /\ members[a].cred.key = members'[b].cred.key
        => a = b]_vars

=============================================================================
