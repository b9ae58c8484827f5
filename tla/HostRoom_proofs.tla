--------------------------- MODULE HostRoom_proofs ---------------------------
(***************************************************************************)
(* Theorems about the host's side of a room, for every number of people,   *)
(* addresses, requests and restarts, and every set of faults unless the    *)
(* theorem says otherwise.                                                 *)
(***************************************************************************)
EXTENDS HostRoom, WellFoundedInduction, TLAPS

(***************************************************************************)
(* Typing of the operators the handlers share.                             *)
(***************************************************************************)

Less == {ij \in Nat \X Nat : ij[1] < ij[2]}

\* A nonempty set of numbers has a least one (nextFreeAddress finds it).
LEMMA LeastElement ==
    ASSUME NEW S \in SUBSET Nat, S # {}
    PROVE  \E a \in S : \A b \in S : a <= b
<1>1. IsWellFoundedOn(Less, Nat)
    BY NatLessThanWellFounded DEF OpToRel, Less
<1>2. PICK x \in S : \A y \in S : <<y, x>> \notin Less
    BY <1>1, WFMin, Zenon
<1>3. \A y \in S : ~ (y < x)
    <2> SUFFICES ASSUME NEW y \in S, y < x PROVE FALSE
        OBVIOUS
    <2>1. y \in Nat /\ x \in Nat
        OBVIOUS
    <2>2. <<y, x>> \in Less
        BY <2>1 DEF Less
    <2> QED BY <1>2, <2>2
<1>4. \A y \in S : x <= y
    BY <1>3
<1> QED BY <1>4

\* A table is a member table if every entry is a member.
Table == [Addr -> Member]

\* nextFreeAddress answers a free address of the subnet when there is one.
LEMMA NextFreeIsFree ==
    ASSUME NEW table, ~(Addr \subseteq Taken(table))
    PROVE  NextFree(table) \in Addr /\ NextFree(table) \notin Taken(table)
<1> DEFINE Free == Addr \ Taken(table)
<1>1. Free # {} /\ Free \in SUBSET Nat
    BY AddrAssumption DEF Addr
<1>2. \E a \in Free : \A b \in Free : a <= b
    BY <1>1, LeastElement
<1>3. NextFree(table) \in Free
    BY <1>2 DEF NextFree
<1> QED BY <1>3

LEMMA NoCredType == NoCred \in Credential /\ NoMember \in Member
BY DEF NoCred, NoMember, Credential, Member, NoVeto

LEMMA EmptyTableType == EmptyTable \in Table
BY NoCredType DEF EmptyTable, Table

\* Forget keeps a table a table.
LEMMA ForgetType ==
    ASSUME NEW table \in Table, NEW channel, NEW t
    PROVE  Forget(table, channel, t) \in Table
<1>1. \A a \in Addr : VetoLifted(table[a], t) \in Member
    BY DEF VetoLifted, Member, Table, NoVeto
<1> QED BY <1>1, NoCredType DEF Forget, Table

\* What the engine reports is written on the table.
LEMMA SeenType ==
    ASSUME NEW table \in Table, NEW report
    PROVE  [a \in Addr |-> [table[a] EXCEPT !.inMesh = (a \in report)]] \in Table
<1> DEFINE seen == [a \in Addr |-> [table[a] EXCEPT !.inMesh = (a \in report)]]
<1>1. ASSUME NEW a \in Addr PROVE seen[a] \in Member
    <2>1. table[a] \in Member
        BY DEF Table
    <2>2. (a \in report) \in BOOLEAN
        BY SMT
    <2>3. [table[a] EXCEPT !.inMesh = TRUE] \in Member
        BY <2>1 DEF Member
    <2>4. [table[a] EXCEPT !.inMesh = FALSE] \in Member
        BY <2>1 DEF Member
    <2> QED BY <2>2, <2>3, <2>4, Zenon
<1> QED BY <1>1, Zenon DEF Table

LEMMA RefreshType ==
    ASSUME NEW table \in Table, NEW report, NEW channel, NEW t
    PROVE  Refresh(table, report, channel, t) \in Table
BY SeenType, ForgetType DEF Refresh

LEMMA WithRenewalsType ==
    ASSUME now \in Nat, NEW table \in Table, NEW at
    PROVE  WithRenewals(table, at) \in Table
BY TimeAssumption DEF WithRenewals, Table, Member, Credential

LEMMA WithCredType ==
    ASSUME NEW table \in Table, NEW a, NEW c \in Credential
    PROVE  WithCred(table, a, c) \in Table
BY DEF WithCred, Table, Member

LEMMA MemberIPsType ==
    ASSUME NEW table, NEW t
    PROVE  MemberIPs(table, t) \subseteq Addr
BY DEF MemberIPs

\* saveMembersLocked leaves a book and a room on disk.
LEMMA SaveMembersType ==
    ASSUME TypeOK, NEW table \in Table, SaveMembers(table)
    PROVE  /\ gen' \in Nat
           /\ roomFile' \in [code : Nat, gen : Nat]
           /\ bookFile' \in [gen : Nat, code : Nat, entries : [Addr -> Credential]]
<1>1. Entries(table) \in [Addr -> Credential]
    BY DEF Entries, Table, Member
<1> QED BY <1>1 DEF SaveMembers, SaveRoom, TypeOK

LEMMA SaveRoomType ==
    ASSUME TypeOK, NEW c \in Nat, NEW g \in Nat, SaveRoom(c, g)
    PROVE  roomFile' \in [code : Nat, gen : Nat]
BY DEF SaveRoom, TypeOK

LEMMA RenewedType ==
    ASSUME TypeOK, NEW ids
    PROVE  Renewed(ids) \subseteq [id : Nat, key : Key, addr : Addr, exp : Nat]
BY TimeAssumption DEF Renewed, TypeOK

\* Applying the rules leaves rules and a signature, whether it works or not.
LEMMA RulesType ==
    ASSUME TypeOK, NEW desired \in SUBSET Addr, alert' \in BOOLEAN,
           \/ RulesApplied(desired)
           \/ rules' \in {rules, rules \cap desired} /\ UNCHANGED signed
           \/ rules' \in {rules, rules \cap desired} /\ signed' = NoSignature
    PROVE  rules' \subseteq Addr /\ signed' \subseteq Addr \cup {0}
BY DEF RulesApplied, TypeOK, NoSignature

LEMMA ApplyPolicyType ==
    ASSUME TypeOK, NEW table, ApplyPolicy(table)
    PROVE  rules' \subseteq Addr /\ signed' \subseteq Addr \cup {0} /\ alert' \in BOOLEAN
<1>1. MemberIPs(table, now) \in SUBSET Addr
    BY MemberIPsType
<1>2. alert' \in BOOLEAN
    BY DEF ApplyPolicy, RulesFailed, TypeOK
<1> QED BY <1>1, <1>2, RulesType DEF ApplyPolicy, RulesFailed

LEMMA RenewalType ==
    ASSUME TypeOK, NEW at, NEW table \in Table, Renewal(at, table)
    PROVE  /\ lastRenew' \in Int /\ gen' \in Nat
           /\ trust' \subseteq [id : Nat, key : Key, addr : Addr, exp : Nat]
           /\ roomFile' \in [code : Nat, gen : Nat]
           /\ bookFile' \in [gen : Nat, code : Nat, entries : [Addr -> Credential]]
<1>1. trust' \subseteq [id : Nat, key : Key, addr : Addr, exp : Nat]
    BY RenewedType DEF Renewal
<1>2. lastRenew' \in Int
    BY DEF Renewal, TypeOK
<1>3. CASE at # {}
    BY <1>1, <1>2, <1>3, SaveMembersType DEF Renewal
<1>4. CASE at = {}
    BY <1>1, <1>2, <1>4 DEF Renewal, TypeOK
<1> QED BY <1>3, <1>4

LEMMA PeersChangedType ==
    ASSUME TypeOK, NEW table \in Table, NEW channel, PeersChanged(table, channel)
    PROVE  /\ members' \in Table /\ peers' \subseteq Addr /\ scope' \subseteq Addr
           /\ rules' \subseteq Addr /\ signed' \subseteq Addr \cup {0}
           /\ alert' \in BOOLEAN
<1> DEFINE after   == Refresh(table, mesh, channel, now)
           desired == MemberIPs(after, now)
<1>1. after \in Table /\ desired \in SUBSET Addr
    BY RefreshType, MemberIPsType
<1>2. members' = after /\ peers' = desired
    BY DEF PeersChanged
<1>3. scope' \in {scope, desired}
    BY DEF PeersChanged, RestrictControlChannel
<1>4. alert' \in BOOLEAN
    BY DEF PeersChanged, RulesFailed, TypeOK
<1>5. rules' \subseteq Addr /\ signed' \subseteq Addr \cup {0}
    <2>1. \/ RulesApplied(desired)
          \/ rules' \in {rules, rules \cap desired} /\ UNCHANGED signed
        BY DEF PeersChanged, RulesFailed
    <2> HIDE DEF desired
    <2> QED BY <1>1, <1>4, <2>1, RulesType
<1> QED BY <1>1, <1>2, <1>3, <1>4, <1>5 DEF TypeOK

(***************************************************************************)
(* Type correctness, one lemma per action or group of actions.             *)
(***************************************************************************)

\* The heartbeat, and the handlers that begin with it.
LEMMA TickType ==
    ASSUME TypeOK, Tick \/ Sweep
    PROVE  TypeOK'
<1>1. PICK channel \in Channels :
        LET kept == Forget(members, channel, now)
        IN  \E at \in RenewalRound(kept) :
                members' = WithRenewals(kept, at) /\ Renewal(at, members')
    BY DEF Tick, Sweep
<1> DEFINE kept == Forget(members, channel, now)
<1>2. PICK at \in RenewalRound(kept) :
        members' = WithRenewals(kept, at) /\ Renewal(at, members')
    BY <1>1
<1>3. members' \in Table
    BY <1>2, ForgetType, WithRenewalsType DEF TypeOK, Table
<1> HIDE DEF kept
<1>4. /\ lastRenew' \in Int /\ gen' \in Nat
      /\ trust' \subseteq [id : Nat, key : Key, addr : Addr, exp : Nat]
      /\ roomFile' \in [code : Nat, gen : Nat]
      /\ bookFile' \in [gen : Nat, code : Nat, entries : [Addr -> Credential]]
    BY <1>2, <1>3, RenewalType
<1>5. rules' \subseteq Addr /\ signed' \subseteq Addr \cup {0} /\ alert' \in BOOLEAN
    BY ApplyPolicyType DEF Tick, Sweep, TypeOK
<1> QED BY <1>3, <1>4, <1>5 DEF Tick, Sweep, TypeOK, Table

\* The handlers that read the member table again.
LEMMA PeersType ==
    ASSUME TypeOK, OnPeersChanged
    PROVE  TypeOK'
<1>1. PICK channel \in Channels :
        LET kept == Forget(members, channel, now)
        IN  \E at \in RenewalRound(kept) :
                LET renewed == WithRenewals(kept, at)
                IN  Renewal(at, renewed) /\ PeersChanged(renewed, channel)
    BY DEF OnPeersChanged
<1> DEFINE kept == Forget(members, channel, now)
<1>2. PICK at \in RenewalRound(kept) :
        LET renewed == WithRenewals(kept, at)
        IN  Renewal(at, renewed) /\ PeersChanged(renewed, channel)
    BY <1>1
<1> DEFINE renewed == WithRenewals(kept, at)
<1>3. renewed \in Table
    BY ForgetType, WithRenewalsType DEF TypeOK, Table
<1> HIDE DEF renewed
<1>4. Renewal(at, renewed) /\ PeersChanged(renewed, channel)
    BY <1>2 DEF renewed
<1>5. /\ lastRenew' \in Int /\ gen' \in Nat
      /\ trust' \subseteq [id : Nat, key : Key, addr : Addr, exp : Nat]
      /\ roomFile' \in [code : Nat, gen : Nat]
      /\ bookFile' \in [gen : Nat, code : Nat, entries : [Addr -> Credential]]
    BY <1>3, <1>4, RenewalType
<1>6. /\ members' \in Table /\ peers' \subseteq Addr /\ scope' \subseteq Addr
      /\ rules' \subseteq Addr /\ signed' \subseteq Addr \cup {0}
      /\ alert' \in BOOLEAN
    BY <1>3, <1>4, PeersChangedType
<1> QED BY <1>5, <1>6 DEF OnPeersChanged, TypeOK, Table

LEMMA ChannelUpType ==
    ASSUME TypeOK, OnMemberChannelUp
    PROVE  TypeOK'
<1>1. PICK channel \in Channels : PeersChanged(members, channel)
    BY DEF OnMemberChannelUp
<1>2. members \in Table
    BY DEF TypeOK, Table
<1>3. /\ members' \in Table /\ peers' \subseteq Addr /\ scope' \subseteq Addr
      /\ rules' \subseteq Addr /\ signed' \subseteq Addr \cup {0}
      /\ alert' \in BOOLEAN
    BY <1>1, <1>2, PeersChangedType
<1> QED BY <1>3 DEF OnMemberChannelUp, TypeOK, Table, disk, world

LEMMA RereadType ==
    ASSUME TypeOK, OnEngineDegraded \/ OnTunnelUp
    PROVE  TypeOK'
<1>1. PICK channel \in Channels :
        LET kept == Forget(members, channel, now)
        IN  \E at \in RenewalRound(kept) :
                LET renewed == WithRenewals(kept, at)
                IN  /\ Renewal(at, renewed)
                    /\ members' = Refresh(renewed, mesh, channel, now)
                    /\ peers' = MemberIPs(members', now)
                    /\ scope' \in {scope, MemberIPs(members', now)}
                    /\ alert' \in {alert, FALSE}
                    /\ \/ UNCHANGED <<rules, signed>>
                       \/ RulesApplied(MemberIPs(members', now))
                       \/ /\ rules' \in {rules, rules \cap MemberIPs(members', now)}
                          /\ signed' = NoSignature
    BY DEF OnEngineDegraded, OnTunnelUp, RestrictControlChannel
<1> DEFINE kept == Forget(members, channel, now)
<1>2. PICK at \in RenewalRound(kept) :
        LET renewed == WithRenewals(kept, at)
        IN  /\ Renewal(at, renewed)
            /\ members' = Refresh(renewed, mesh, channel, now)
    BY <1>1
<1> DEFINE renewed == WithRenewals(kept, at)
<1>3. renewed \in Table
    BY ForgetType, WithRenewalsType DEF TypeOK, Table
<1>4. members' \in Table
    BY <1>2, <1>3, RefreshType
<1> HIDE DEF renewed
<1>5. Renewal(at, renewed)
    BY <1>2 DEF renewed
<1>6. /\ lastRenew' \in Int /\ gen' \in Nat
      /\ trust' \subseteq [id : Nat, key : Key, addr : Addr, exp : Nat]
      /\ roomFile' \in [code : Nat, gen : Nat]
      /\ bookFile' \in [gen : Nat, code : Nat, entries : [Addr -> Credential]]
    BY <1>3, <1>5, RenewalType
<1> DEFINE desired == MemberIPs(members', now)
<1>7. desired \in SUBSET Addr
    BY MemberIPsType
<1>8. /\ peers' = desired /\ scope' \in {scope, desired} /\ alert' \in {alert, FALSE}
      /\ \/ UNCHANGED <<rules, signed>>
         \/ RulesApplied(desired)
         \/ rules' \in {rules, rules \cap desired} /\ signed' = NoSignature
    BY <1>1
<1> HIDE DEF desired
<1>9. rules' \subseteq Addr /\ signed' \subseteq Addr \cup {0}
    BY <1>7, <1>8 DEF TypeOK, RulesApplied, NoSignature
<1> QED BY <1>4, <1>6, <1>7, <1>8, <1>9 DEF OnEngineDegraded, OnTunnelUp, TypeOK, Table

\* The handlers that only put the rules back or save the room.
LEMMA RulesOnlyType ==
    ASSUME TypeOK,
           \/ ReapplyProtection \/ ActivateProfile \/ RenameRoom \/ RotateInviteCode
           \/ OnEngineRestarted
    PROVE  TypeOK'
<1> DEFINE desired == MemberIPs(members, now)
<1>1. desired \in SUBSET Addr
    BY MemberIPsType
<1> HIDE DEF desired
<1>2. CASE ReapplyProtection
    BY <1>2, ApplyPolicyType DEF ReapplyProtection, TypeOK, disk, world
<1>3. CASE ActivateProfile
    <2>1. alert' \in BOOLEAN /\ roomFile' \in [code : Nat, gen : Nat]
        BY <1>3, SaveRoomType DEF ActivateProfile, RulesFailed, TypeOK
    <2>2. rules' \subseteq Addr /\ signed' \subseteq Addr \cup {0}
        BY <1>1, <1>3, <2>1, RulesType DEF ActivateProfile, RulesFailed, desired
    <2> QED BY <1>3, <2>1, <2>2 DEF ActivateProfile, TypeOK, world
<1>4. CASE RenameRoom
    BY <1>4, SaveRoomType DEF RenameRoom, TypeOK, host, world
<1>5. CASE RotateInviteCode
    <2>a. code' \in Nat /\ codes' \in Nat
        BY <1>5 DEF RotateInviteCode, TypeOK
    <2>b. alert' \in BOOLEAN
        BY <1>5 DEF RotateInviteCode, TypeOK
    <2>1. code' \in Nat /\ codes' \in Nat /\ alert' \in BOOLEAN
        BY <2>a, <2>b
    <2>2. roomFile' \in [code : Nat, gen : Nat]
        BY <1>5, <2>1, SaveRoomType DEF RotateInviteCode, TypeOK
    <2>3. scope' \subseteq Addr
        BY <1>1, <1>5 DEF RotateInviteCode, RestrictControlChannel, desired
    <2>4. rules' \subseteq Addr /\ signed' \subseteq Addr \cup {0}
        BY <1>1, <1>5, <2>1, RulesType DEF RotateInviteCode, desired
    <2> QED BY <1>5, <2>1, <2>2, <2>3, <2>4 DEF RotateInviteCode, TypeOK, world
<1>6. CASE OnEngineRestarted
    <2>1. alert' \in BOOLEAN
        BY <1>6 DEF OnEngineRestarted, TypeOK
    <2>2. rules' \subseteq Addr /\ signed' \subseteq Addr \cup {0}
        BY <1>1, <1>6, <2>1, RulesType DEF OnEngineRestarted, desired
    <2> QED BY <1>6, <2>1, <2>2 DEF OnEngineRestarted, TypeOK, disk, world
<1> QED BY <1>2, <1>3, <1>4, <1>5, <1>6

\* A credential is asked for.
LEMMA IssueType ==
    ASSUME TypeOK, NEW k \in Key, IssueCredentialFor(k)
    PROVE  TypeOK'
<1>0. members \in Table /\ requests' \in Nat
    BY DEF IssueCredentialFor, TypeOK, Table
<1> DEFINE Rest == /\ members' \in Table /\ scope' \subseteq Addr
                   /\ rules' \subseteq Addr /\ signed' \subseteq Addr \cup {0}
                   /\ alert' \in BOOLEAN /\ gen' \in Nat
                   /\ trust' \subseteq [id : Nat, key : Key, addr : Addr, exp : Nat]
                   /\ roomFile' \in [code : Nat, gen : Nat]
                   /\ bookFile' \in [gen : Nat, code : Nat, entries : [Addr -> Credential]]
<1>1. ASSUME NEW a \in Addr, ReturnSeat(a) PROVE Rest
    <2> DEFINE c == [members[a].cred EXCEPT !.expiresAt = now + CredentialTTL]
    <2>a. members[a].cred \in Credential
        BY <1>0 DEF Table, Member
    <2>b. now + CredentialTTL \in Nat
        BY TimeAssumption DEF TypeOK
    <2>1. c \in Credential
        BY <2>a, <2>b DEF Credential
    <2>2. members' = WithCred(members, a, c)
        BY <1>1 DEF ReturnSeat
    <2>3. members' \in Table
        BY <1>0, <2>1, <2>2, WithCredType
    <2>4. scope' \subseteq Addr
        BY <1>1, MemberIPsType DEF ReturnSeat, RestrictControlChannel
    <2>5. rules' \subseteq Addr /\ signed' \subseteq Addr \cup {0} /\ alert' \in BOOLEAN
        BY <1>1, ApplyPolicyType DEF ReturnSeat
    <2>6. trust' \subseteq [id : Nat, key : Key, addr : Addr, exp : Nat]
        BY <1>1, RenewedType DEF ReturnSeat
    <2>7. SaveMembers(members')
        BY <1>1 DEF ReturnSeat
    <2> QED BY <2>3, <2>4, <2>5, <2>6, <2>7, SaveMembersType
<1>2. ASSUME NEW table \in Table, NewSeat(table, k) PROVE Rest
    <2>1. CASE members' = table /\ UNCHANGED <<scope, rules, signed, alert, gen,
                                               bookFile, roomFile, trust>>
        BY <1>2, <2>1 DEF TypeOK
    <2>2. CASE ~(Addr \subseteq Taken(table)) /\ SaveMembers(members')
               /\ ApplyPolicy(members') /\ RestrictControlChannel(members')
               /\ LET a == NextFree(table)
                      c == NewCred(k)
                  IN  /\ members' = WithCred(table, a, c)
                      /\ trust' = trust \cup {Trust(c, a)}
        <3> DEFINE a == NextFree(table)
                   c == NewCred(k)
        <3>1. a \in Addr
            BY <2>2, NextFreeIsFree
        <3>2. c \in Credential
            BY TimeAssumption DEF NewCred, Credential, TypeOK
        <3>3. members' \in Table
            BY <2>2, <3>2, WithCredType
        <3>4. trust' \subseteq [id : Nat, key : Key, addr : Addr, exp : Nat]
            <4>1. Trust(c, a) \in [id : Nat, key : Key, addr : Addr, exp : Nat]
                BY <3>1, TimeAssumption DEF Trust, NewCred, TypeOK
            <4> QED BY <2>2, <4>1 DEF TypeOK
        <3>5. scope' \subseteq Addr
            BY <2>2, MemberIPsType DEF RestrictControlChannel
        <3>6. rules' \subseteq Addr /\ signed' \subseteq Addr \cup {0} /\ alert' \in BOOLEAN
            BY <2>2, ApplyPolicyType
        <3> QED BY <2>2, <3>3, <3>4, <3>5, <3>6, SaveMembersType
    <2> QED BY <1>2, <2>1, <2>2 DEF NewSeat
<1>3. \A a : WithCred(members, a, NoCred) \in Table
    BY <1>0, WithCredType, NoCredType
<1>4. Rest
    <2>1. CASE \E a \in Holding(k) : ReturnSeat(a)
        BY <1>1, <2>1 DEF Holding
    <2>2. CASE \E a \in Holding(k) : NewSeat(WithCred(members, a, NoCred), k)
        BY <1>2, <1>3, <2>2
    <2>3. CASE NewSeat(members, k)
        BY <1>0, <1>2, <2>3
    <2> QED BY <2>1, <2>2, <2>3 DEF IssueCredentialFor
<1> QED BY <1>0, <1>4 DEF IssueCredentialFor, TypeOK, Table

\* Someone is kicked.
LEMMA KickType ==
    ASSUME TypeOK, NEW a \in Addr, KickMember(a)
    PROVE  TypeOK'
<1>1. members' \in Table
    <2>1. members[a] \in Member
        BY DEF TypeOK
    <2>2. now \in Nat /\ now + ArrivalGrace \in Nat
        BY TimeAssumption DEF TypeOK
    <2>3. Kicked(members[a]) \in Member
        BY <2>1, <2>2 DEF Kicked, Member, Credential
    <2> QED BY <2>3 DEF KickMember, TypeOK, Table
<1>2. PICK done \in BOOLEAN :
        /\ Revocation(a, done)
        /\ \/ /\ RulesApplied(MemberIPs(members', now))
              /\ alert' = ~done
              /\ IF done THEN SaveMembers(members')
                         ELSE UNCHANGED <<bookFile, gen, roomFile>>
           \/ /\ "apply" \in Fault
              /\ rules' \in {rules, rules \cap MemberIPs(members', now)}
              /\ alert' = TRUE
              /\ UNCHANGED <<signed, bookFile, gen, roomFile>>
    BY DEF KickMember
<1>3. trust' \subseteq trust /\ expelled' \subseteq mesh
    BY <1>2 DEF Revocation, TypeOK
<1>4. alert' \in BOOLEAN
    BY <1>2
<1> DEFINE desired == MemberIPs(members', now)
<1>5. desired \in SUBSET Addr
    BY MemberIPsType
<1>6. scope' \subseteq Addr
    BY <1>5 DEF KickMember, RestrictControlChannel
<1>7. \/ RulesApplied(desired)
      \/ rules' \in {rules, rules \cap desired} /\ UNCHANGED signed
    BY <1>2
<1> HIDE DEF desired
<1>8. rules' \subseteq Addr /\ signed' \subseteq Addr \cup {0}
    BY <1>4, <1>5, <1>7, RulesType
<1>9. /\ gen' \in Nat
      /\ roomFile' \in [code : Nat, gen : Nat]
      /\ bookFile' \in [gen : Nat, code : Nat, entries : [Addr -> Credential]]
    <2>1. CASE SaveMembers(members')
        BY <1>1, <2>1, SaveMembersType
    <2>2. CASE UNCHANGED <<bookFile, gen, roomFile>>
        BY <2>2 DEF TypeOK
    <2> QED BY <1>2, <2>1, <2>2
<1> QED BY <1>1, <1>3, <1>4, <1>6, <1>8, <1>9 DEF KickMember, TypeOK, Table

\* What clearing the room leaves.
LEMMA RoomDownType ==
    ASSUME RoomDown
    PROVE  /\ open' = FALSE /\ code' = 0 /\ alert' = FALSE
           /\ members' \in Table /\ peers' = {} /\ scope' = {} /\ rules' = {}
           /\ signed' \subseteq Addr \cup {0}
           /\ trust' = {} /\ expelled' = {}
BY EmptyTableType DEF RoomDown, NoSignature

LEMMA NoBookType ==
    /\ NoBook \in [gen : Nat, code : Nat, entries : [Addr -> Credential]]
    /\ NoRoom \in [code : Nat, gen : Nat]
BY NoCredType, EmptyTableType DEF NoBook, NoRoom, Entries, Table, Member

\* A room begins, or comes back.
LEMMA RoomUpType ==
    ASSUME TypeOK, CreateRoom \/ ResumeRoom
    PROVE  TypeOK'
<1>1. CASE CreateRoom
    <2>1. code' \in Nat /\ codes' \in Nat
        BY <1>1 DEF CreateRoom, TypeOK
    <2>2. roomFile' \in [code : Nat, gen : Nat]
        BY <1>1, <2>1, SaveRoomType DEF CreateRoom, TypeOK
    <2> QED BY <1>1, <2>1, <2>2 DEF CreateRoom, TypeOK, world
<1>2. CASE ResumeRoom
    <2>1. Loaded(bookFile.entries) \in Table
        BY NoCredType DEF Loaded, Table, Member, TypeOK
    <2>2. members' \in Table /\ gen' \in Nat /\ code' \in Nat
        BY <1>2, <2>1, EmptyTableType DEF ResumeRoom, TypeOK
    <2>3. roomFile' \in [code : Nat, gen : Nat]
        BY <1>2, <2>2, SaveRoomType DEF ResumeRoom
    <2> QED BY <1>2, <2>2, <2>3, NoBookType DEF ResumeRoom, TypeOK, world, Table
<1> QED BY <1>1, <1>2

\* A room ends.
LEMMA RoomEndType ==
    ASSUME TypeOK, CloseRoom \/ DiscardSavedRoom
    PROVE  TypeOK'
<1>1. CASE CloseRoom
    <2>1. /\ roomFile' \in [code : Nat, gen : Nat]
          /\ bookFile' \in [gen : Nat, code : Nat, entries : [Addr -> Credential]]
        BY <1>1, NoBookType DEF CloseRoom, Cleared, TypeOK
    <2>2. /\ open' = FALSE /\ code' = 0 /\ alert' = FALSE
          /\ members' \in Table /\ peers' = {} /\ scope' = {} /\ rules' = {}
          /\ signed' \subseteq Addr \cup {0}
          /\ trust' = {} /\ expelled' = {}
        BY <1>1, RoomDownType DEF CloseRoom
    <2> QED BY <1>1, <2>1, <2>2 DEF CloseRoom, TypeOK, Table
<1>2. CASE DiscardSavedRoom
    BY <1>2, NoBookType DEF DiscardSavedRoom, Cleared, TypeOK, world
<1> QED BY <1>1, <1>2

\* The process ends, or the engine does.
LEMMA EndType ==
    ASSUME TypeOK, Crash \/ LeaveRoomOnShutdown \/ EngineDies
    PROVE  TypeOK'
<1>1. roomFile' \in [code : Nat, gen : Nat]
    BY SaveRoomType DEF Crash, LeaveRoomOnShutdown, EngineDies, TypeOK, disk
<1>2. mesh' \subseteq mesh
    BY DEF Crash, LeaveRoomOnShutdown, EngineDies, NewProcess
<1>3. CASE NewProcess
    <2>1. lastRenew' \in Int /\ restarts' \in Nat
        BY <1>3, TimeAssumption DEF NewProcess, TypeOK
    <2>2. /\ open' = FALSE /\ code' = 0 /\ alert' = FALSE
          /\ members' \in Table /\ peers' = {} /\ scope' = {} /\ rules' = {}
          /\ signed' \subseteq Addr \cup {0}
          /\ trust' = {} /\ expelled' = {}
        BY <1>3, RoomDownType DEF NewProcess
    <2>3. /\ saved' \in [code : Nat, gen : Nat] /\ gen' = 0 /\ beatDue' = FALSE
          /\ UNCHANGED <<now, bookFile, codes, requests>>
        BY <1>1, <1>3 DEF NewProcess
    <2> QED BY <1>1, <1>2, <2>1, <2>2, <2>3 DEF TypeOK, Table
<1>4. CASE EngineDies
    BY <1>1, <1>2, <1>4 DEF EngineDies, TypeOK, host, disk
<1> QED BY <1>3, <1>4 DEF Crash, LeaveRoomOnShutdown

\* The world moves.
LEMMA WorldType ==
    ASSUME TypeOK, PassTime \/ \E a \in Addr : Arrive(a) \/ Depart(a)
    PROVE  TypeOK'
<1>1. CASE PassTime
    BY <1>1 DEF PassTime, TypeOK, host, disk
<1>2. ASSUME NEW a \in Addr, Arrive(a) \/ Depart(a) PROVE TypeOK'
    BY <1>2 DEF Arrive, Depart, TypeOK, host, disk
<1> QED BY <1>1, <1>2

LEMMA TypeInitially == Init => TypeOK
<1> SUFFICES ASSUME Init PROVE TypeOK
    OBVIOUS
<1>1. lastRenew \in Int /\ gen \in Nat /\ now \in Nat /\ code \in Nat
    BY TimeAssumption DEF Init
<1>2. signed \subseteq Addr \cup {0}
    BY DEF Init, NoSignature
<1>3. members \in [Addr -> Member]
    BY EmptyTableType DEF Init, Table
<1> QED BY <1>1, <1>2, <1>3, NoBookType DEF Init, TypeOK

LEMMA TypeInductive ==
    ASSUME TypeOK, [Next]_vars
    PROVE  TypeOK'
<1>1. CASE UNCHANGED vars
    BY <1>1 DEF vars, host, disk, world, TypeOK
<1>2. CASE Next
    BY <1>2, TickType, PeersType, ChannelUpType, RereadType, RulesOnlyType, IssueType,
       KickType, RoomUpType, RoomEndType, EndType, WorldType DEF Next
<1> QED BY <1>1, <1>2

\* Every step of the host's room keeps the types, of the three lists, the two
\* files and the engine's trust list alike.
THEOREM TypeCorrect == Spec => []TypeOK
BY TypeInitially, TypeInductive, PTL DEF Spec

(***************************************************************************)
(* The veto of a kick.  What makes it hold through every handler is that   *)
(* no handler but the kick writes an entry under veto: they either keep it *)
(* as it is or lift it.  Carried says so of two tables, and the lists that *)
(* follow the table can then only shrink on it.                            *)
(***************************************************************************)

\* Whoever is under veto in the new table was so in the old one, and with the
\* same credential.
Carried(old, new) ==
    \A a \in Addr : new[a].kickedAt # NoVeto =>
        new[a].kickedAt = old[a].kickedAt /\ new[a].cred = old[a].cred

\* No veto of this table is over.
InGrace(table, t) ==
    \A a \in Addr : table[a].kickedAt # NoVeto => t < table[a].kickedAt + KickGrace

\* Each list is what it was, or the members of the table; rules that could not
\* be applied only shrink, and leave the alert as it was.
ListsFollow(table) ==
    /\ peers' \in {peers, MemberIPs(table, now)}
    /\ scope' \in {scope, MemberIPs(table, now)}
    /\ \/ rules' = MemberIPs(table, now)
       \/ rules' \subseteq rules /\ alert' = alert

LEMMA CarriedTransitive ==
    ASSUME NEW x, NEW y, NEW z, Carried(x, y), Carried(y, z)
    PROVE  Carried(x, z)
BY DEF Carried

LEMMA ForgetCarries ==
    ASSUME NEW table \in Table, NEW channel, NEW t \in Nat
    PROVE  Carried(table, Forget(table, channel, t)) /\ InGrace(Forget(table, channel, t), t)
<1> SUFFICES ASSUME NEW a \in Addr, Forget(table, channel, t)[a].kickedAt # NoVeto
             PROVE  /\ Forget(table, channel, t)[a].kickedAt = table[a].kickedAt
                    /\ Forget(table, channel, t)[a].cred = table[a].cred
                    /\ t < Forget(table, channel, t)[a].kickedAt + KickGrace
    BY DEF Carried, InGrace
<1> DEFINE m == VetoLifted(table[a], t)
<1>1. Forget(table, channel, t)[a] \in {m, NoMember}
    BY DEF Forget
<1>2. NoMember.kickedAt = NoVeto
    BY DEF NoMember
<1>3. Forget(table, channel, t)[a] = m /\ m.kickedAt # NoVeto
    BY <1>1, <1>2
<1>4. table[a] \in Member
    BY DEF Table
<1>5. m = table[a] /\ ~(t - table[a].kickedAt >= KickGrace)
    BY <1>3, <1>4 DEF VetoLifted, Member
<1>6. table[a].kickedAt \in Nat
    BY <1>3, <1>4, <1>5 DEF Member
<1>7. t < table[a].kickedAt + KickGrace
    BY <1>5, <1>6, TimeAssumption
<1> QED BY <1>3, <1>5, <1>7

LEMMA RefreshCarries ==
    ASSUME NEW table \in Table, NEW report, NEW channel, NEW t \in Nat
    PROVE  /\ Carried(table, Refresh(table, report, channel, t))
           /\ InGrace(Refresh(table, report, channel, t), t)
<1> DEFINE seen == [a \in Addr |-> [table[a] EXCEPT !.inMesh = (a \in report)]]
<1>1. seen \in Table
    BY SeenType
<1>2. Carried(table, seen)
    BY DEF Carried, Table, Member
<1> HIDE DEF seen
<1>3. Carried(seen, Forget(seen, channel, t)) /\ InGrace(Forget(seen, channel, t), t)
    BY <1>1, ForgetCarries
<1>4. Refresh(table, report, channel, t) = Forget(seen, channel, t)
    BY DEF Refresh, seen
<1> QED BY <1>2, <1>3, <1>4, CarriedTransitive

\* A round of renewals touches seats, and no one under veto has one.
LEMMA RenewalsCarry ==
    ASSUME NEW table \in Table, NEW at \in RenewalRound(table),
           \A a \in Addr : table[a].kickedAt # NoVeto => table[a].cred.revoked
    PROVE  Carried(table, WithRenewals(table, at))
<1>1. \A a \in at : Seat(table[a].cred, now)
    BY DEF RenewalRound, RenewalDue
<1>2. \A a \in at \cap Addr : table[a].kickedAt = NoVeto
    BY <1>1 DEF Seat
<1> SUFFICES ASSUME NEW a \in Addr, WithRenewals(table, at)[a].kickedAt # NoVeto
             PROVE  WithRenewals(table, at)[a] = table[a]
    BY DEF Carried
<1>3. CASE a \in at
    <2>1. WithRenewals(table, at)[a].kickedAt = table[a].kickedAt
        BY <1>3 DEF WithRenewals, Table, Member
    <2> QED BY <1>2, <1>3, <2>1
<1> QED BY <1>3 DEF WithRenewals

VetoInv == TypeOK /\ VetoWithinHold /\ VetoExcludes

\* Vetoes that are carried over keep their word: what a step in which no one is
\* kicked has to show.
LEMMA CarriedKeepsVeto ==
    ASSUME VetoInv, open, open', now' = now, members' \in Table,
           Carried(members, members'), ListsFollow(members'),
           beatDue' = beatDue \/ InGrace(members', now)
    PROVE  VetoWithinHold' /\ VetoExcludes'
<1>1. ASSUME NEW a \in Addr, members'[a].kickedAt # NoVeto
      PROVE  /\ members'[a].cred.id # 0 /\ members'[a].cred.revoked
             /\ members'[a].kickedAt <= now'
             /\ members'[a].cred.expiresAt >= members'[a].kickedAt + ArrivalGrace
             /\ now' <= members'[a].kickedAt + KickGrace
             /\ beatDue' \/ now' < members'[a].kickedAt + KickGrace
    <2>1. members'[a].kickedAt = members[a].kickedAt /\ members'[a].cred = members[a].cred
        BY <1>1 DEF Carried
    <2> QED BY <1>1, <2>1 DEF VetoInv, VetoWithinHold, InGrace
<1>2. ASSUME NEW a \in Addr, members'[a].kickedAt # NoVeto
      PROVE  a \notin scope' /\ a \notin peers' /\ (a \in rules' => alert')
    <2>1. members[a].kickedAt # NoVeto
        BY <1>2 DEF Carried
    <2>2. a \notin scope /\ a \notin peers /\ (a \in rules => alert)
        BY <2>1 DEF VetoInv, VetoExcludes
    <2>3. a \notin MemberIPs(members', now)
        BY <1>2 DEF MemberIPs, IsMember
    <2> QED BY <2>2, <2>3 DEF ListsFollow
<1> QED BY <1>1, <1>2 DEF VetoWithinHold, VetoExcludes

\* One lemma per handler.
LEMMA TickVeto ==
    ASSUME VetoInv, Tick \/ Sweep
    PROVE  VetoWithinHold' /\ VetoExcludes'
<1>1. PICK channel \in Channels :
        LET kept == Forget(members, channel, now)
        IN  \E at \in RenewalRound(kept) : members' = WithRenewals(kept, at)
    BY DEF Tick, Sweep
<1> DEFINE kept == Forget(members, channel, now)
<1>2. PICK at \in RenewalRound(kept) : members' = WithRenewals(kept, at)
    BY <1>1
<1>3. members \in Table /\ kept \in Table /\ now \in Nat
    BY ForgetType DEF VetoInv, TypeOK, Table
<1>4. Carried(members, kept) /\ InGrace(kept, now)
    BY <1>3, ForgetCarries
<1> HIDE DEF kept
<1>5. Carried(kept, members')
    <2>1. \A a \in Addr : kept[a].kickedAt # NoVeto => kept[a].cred.revoked
        BY <1>4 DEF Carried, VetoInv, VetoWithinHold
    <2> QED BY <1>2, <1>3, <2>1, RenewalsCarry
<1>6. Carried(members, members') /\ InGrace(members', now)
    BY <1>4, <1>5, CarriedTransitive DEF InGrace, Carried
<1>7. members' \in Table
    BY <1>2, <1>3, WithRenewalsType
<1>8. ListsFollow(members')
    BY DEF Tick, Sweep, ListsFollow, ApplyPolicy, RulesApplied, RulesFailed
<1>9. open /\ open' /\ now' = now
    BY DEF Tick, Sweep
<1> QED BY <1>6, <1>7, <1>8, <1>9, CarriedKeepsVeto

\* The handlers that renew and then read the members again.
LEMMA RereadVeto ==
    ASSUME VetoInv, OnPeersChanged \/ OnEngineDegraded \/ OnTunnelUp
    PROVE  VetoWithinHold' /\ VetoExcludes'
<1>1. PICK channel \in Channels :
        LET kept == Forget(members, channel, now)
        IN  \E at \in RenewalRound(kept) :
                LET renewed == WithRenewals(kept, at)
                IN  members' = Refresh(renewed, mesh, channel, now)
    BY DEF OnPeersChanged, OnEngineDegraded, OnTunnelUp, PeersChanged
<1> DEFINE kept == Forget(members, channel, now)
<1>2. PICK at \in RenewalRound(kept) :
        members' = Refresh(WithRenewals(kept, at), mesh, channel, now)
    BY <1>1
<1> DEFINE renewed == WithRenewals(kept, at)
<1>3. members \in Table /\ kept \in Table /\ now \in Nat
    BY ForgetType DEF VetoInv, TypeOK, Table
<1>4. Carried(members, kept)
    BY <1>3, ForgetCarries
<1> HIDE DEF kept
<1>5. Carried(kept, renewed)
    <2>1. \A a \in Addr : kept[a].kickedAt # NoVeto => kept[a].cred.revoked
        BY <1>4 DEF Carried, VetoInv, VetoWithinHold
    <2> QED BY <1>3, <2>1, RenewalsCarry
<1>6. renewed \in Table
    BY <1>3, WithRenewalsType
<1> HIDE DEF renewed
<1>7. Carried(renewed, members') /\ InGrace(members', now) /\ members' \in Table
    BY <1>2, <1>3, <1>6, RefreshCarries, RefreshType DEF renewed
<1>8. Carried(members, members')
    BY <1>4, <1>5, <1>7, CarriedTransitive
<1>9. ListsFollow(members')
    BY DEF OnPeersChanged, OnEngineDegraded, OnTunnelUp, PeersChanged, ListsFollow,
           RulesApplied, RulesFailed, RestrictControlChannel
<1>10. open /\ open' /\ now' = now
    BY DEF OnPeersChanged, OnEngineDegraded, OnTunnelUp
<1> QED BY <1>7, <1>8, <1>9, <1>10, CarriedKeepsVeto

LEMMA ChannelUpVeto ==
    ASSUME VetoInv, OnMemberChannelUp
    PROVE  VetoWithinHold' /\ VetoExcludes'
<1>1. PICK channel \in Channels : members' = Refresh(members, mesh, channel, now)
    BY DEF OnMemberChannelUp, PeersChanged
<1>2. members \in Table /\ now \in Nat
    BY DEF VetoInv, TypeOK, Table
<1>3. Carried(members, members') /\ InGrace(members', now) /\ members' \in Table
    BY <1>1, <1>2, RefreshCarries, RefreshType
<1>4. ListsFollow(members')
    BY DEF OnMemberChannelUp, PeersChanged, ListsFollow, RulesApplied, RulesFailed,
           RestrictControlChannel
<1>5. open /\ open' /\ now' = now
    BY DEF OnMemberChannelUp
<1> QED BY <1>3, <1>4, <1>5, CarriedKeepsVeto

\* The handlers that leave the table as it is.
LEMMA SameTableVeto ==
    ASSUME VetoInv,
           \/ ReapplyProtection \/ ActivateProfile \/ RenameRoom \/ RotateInviteCode
           \/ OnEngineRestarted
    PROVE  VetoWithinHold' /\ VetoExcludes'
<1>1. members' = members /\ open /\ open' /\ now' = now /\ beatDue' = beatDue
    BY DEF ReapplyProtection, ActivateProfile, RenameRoom, RotateInviteCode,
           OnEngineRestarted, host
<1>2. Carried(members, members') /\ members' \in Table
    BY <1>1 DEF Carried, VetoInv, TypeOK, Table
<1>3. ListsFollow(members)
    BY DEF ReapplyProtection, ActivateProfile, RenameRoom, RotateInviteCode, host,
           OnEngineRestarted, ListsFollow, ApplyPolicy, RulesApplied, RulesFailed,
           RestrictControlChannel
<1> QED BY <1>1, <1>2, <1>3, CarriedKeepsVeto

\* The address of a newcomer is never under veto: a veto holds it.
LEMMA IssueVeto ==
    ASSUME VetoInv, NEW k \in Key, IssueCredentialFor(k)
    PROVE  VetoWithinHold' /\ VetoExcludes'
<1>1. members \in Table /\ now \in Nat /\ members' \in Table
    BY IssueType DEF VetoInv, TypeOK, Table
<1>2. \A a \in Addr : members[a].kickedAt # NoVeto => ~Seat(members[a].cred, now)
    BY DEF VetoInv, VetoWithinHold, Seat
<1>3. \A a \in Addr : members[a].kickedAt # NoVeto => Live(members[a].cred, now)
    <2> SUFFICES ASSUME NEW a \in Addr, members[a].kickedAt # NoVeto
                 PROVE  Live(members[a].cred, now)
        OBVIOUS
    <2>1. members[a].kickedAt \in Nat /\ members[a].cred.expiresAt \in Nat
        BY <1>1 DEF Table, Member, Credential
    <2> QED BY <1>1, <2>1, TimeAssumption DEF Live, VetoInv, VetoWithinHold
<1>4. ASSUME NEW a \in Addr, members[a].kickedAt = NoVeto, NEW c
      PROVE  Carried(members, WithCred(members, a, c))
    BY <1>1, <1>4 DEF Carried, WithCred, Table, Member
<1>5. ASSUME NEW a \in Holding(k) PROVE members[a].kickedAt = NoVeto /\ a \in Addr
    BY <1>2 DEF Holding
<1>6. ASSUME NEW table \in Table, Carried(members, table), NewSeat(table, k),
             \A a \in Addr : table[a].kickedAt # NoVeto => Live(table[a].cred, now)
      PROVE  Carried(members, members') /\ ListsFollow(members')
    <2>1. CASE members' = table /\ UNCHANGED <<scope, rules, signed, alert>>
        BY <1>6, <2>1 DEF ListsFollow, IssueCredentialFor
    <2>2. CASE ~(Addr \subseteq Taken(table)) /\ ApplyPolicy(members')
               /\ RestrictControlChannel(members')
               /\ members' = WithCred(table, NextFree(table), NewCred(k))
        <3>1. NextFree(table) \in Addr /\ table[NextFree(table)].kickedAt = NoVeto
            BY <1>6, <2>2, NextFreeIsFree DEF Taken
        <3>2. Carried(table, members')
            BY <2>2, <3>1 DEF Carried, WithCred, Table, Member
        <3>3. ListsFollow(members')
            BY <2>2 DEF ListsFollow, ApplyPolicy, RulesApplied, RulesFailed,
                        RestrictControlChannel, IssueCredentialFor
        <3> QED BY <1>6, <3>2, <3>3, CarriedTransitive
    <2> QED BY <1>6, <2>1, <2>2 DEF NewSeat
<1>7. Carried(members, members') /\ ListsFollow(members')
    <2>1. ASSUME NEW a \in Holding(k), ReturnSeat(a)
          PROVE  Carried(members, members') /\ ListsFollow(members')
        <3>1. Carried(members, members')
            BY <1>4, <1>5, <2>1 DEF ReturnSeat
        <3>2. ListsFollow(members')
            BY <2>1 DEF ReturnSeat, ListsFollow, ApplyPolicy, RulesApplied, RulesFailed,
                        RestrictControlChannel, IssueCredentialFor
        <3> QED BY <3>1, <3>2
    <2>2. ASSUME NEW a \in Holding(k), NewSeat(WithCred(members, a, NoCred), k)
          PROVE  Carried(members, members') /\ ListsFollow(members')
        <3>1. WithCred(members, a, NoCred) \in Table
            BY <1>1, WithCredType, NoCredType
        <3>2. Carried(members, WithCred(members, a, NoCred))
            BY <1>4, <1>5
        <3>3. \A b \in Addr : WithCred(members, a, NoCred)[b].kickedAt # NoVeto
                                => Live(WithCred(members, a, NoCred)[b].cred, now)
            BY <1>3, <3>2 DEF Carried
        <3> QED BY <1>6, <2>2, <3>1, <3>2, <3>3
    <2>3. CASE NewSeat(members, k)
        <3>1. Carried(members, members)
            BY DEF Carried
        <3> QED BY <1>1, <1>3, <1>6, <2>3, <3>1
    <2> QED BY <2>1, <2>2, <2>3 DEF IssueCredentialFor
<1>8. open /\ open' /\ now' = now /\ beatDue' = beatDue
    BY DEF IssueCredentialFor
<1> QED BY <1>1, <1>7, <1>8, CarriedKeepsVeto

\* The kick itself writes the veto, and takes its target out of all three lists.
LEMMA KickVeto ==
    ASSUME VetoInv, NEW a \in Addr, KickMember(a)
    PROVE  VetoWithinHold' /\ VetoExcludes'
<1>1. /\ open /\ open' = open /\ now' = now /\ beatDue' = beatDue
      /\ members' = [members EXCEPT ![a] = Kicked(@)]
      /\ peers' = peers \ {a} /\ scope' = MemberIPs(members', now)
    BY DEF KickMember, RestrictControlChannel
<1>2. now \in Nat /\ members[a] \in Member /\ members \in [Addr -> Member]
    BY DEF VetoInv, TypeOK
<1>3. /\ members'[a].kickedAt = now /\ members'[a].cred.id = members[a].cred.id
      /\ members'[a].cred.revoked = TRUE /\ members'[a].cred.expiresAt = now + ArrivalGrace
    BY <1>1, <1>2 DEF Kicked, Member, Credential
<1>4. \A b \in Addr \ {a} : members'[b] = members[b]
    BY <1>1, <1>2
<1>5. ASSUME NEW b \in Addr, members'[b].kickedAt # NoVeto
      PROVE  /\ members'[b].cred.id # 0 /\ members'[b].cred.revoked
             /\ members'[b].kickedAt <= now'
             /\ members'[b].cred.expiresAt >= members'[b].kickedAt + ArrivalGrace
             /\ now' <= members'[b].kickedAt + KickGrace
             /\ beatDue' \/ now' < members'[b].kickedAt + KickGrace
    <2>1. CASE b = a
        <3>1. members[a].cred.id # 0
            BY DEF KickMember, Kickable
        <3>2. now <= now + KickGrace /\ now < now + KickGrace
            BY <1>2, TimeAssumption
        <3>3. now <= now /\ now + ArrivalGrace >= now + ArrivalGrace
            BY <1>2, TimeAssumption
        <3> QED BY <1>1, <1>3, <2>1, <3>1, <3>2, <3>3
    <2>2. CASE b # a
        BY <1>1, <1>4, <1>5, <2>2 DEF VetoInv, VetoWithinHold
    <2> QED BY <2>1, <2>2
<1>6. ASSUME NEW b \in Addr, members'[b].kickedAt # NoVeto
      PROVE  b \notin scope' /\ b \notin peers' /\ (b \in rules' => alert')
    <2>1. b \notin MemberIPs(members', now)
        BY <1>6 DEF MemberIPs, IsMember
    <2>2. b \notin peers'
        <3>1. CASE b # a
            BY <1>1, <1>4, <1>6, <3>1 DEF VetoInv, VetoExcludes
        <3> QED BY <1>1, <3>1
    <2>3. b \in rules' => alert'
        BY <2>1 DEF KickMember, RulesApplied
    <2> QED BY <1>1, <2>1, <2>2, <2>3
<1> QED BY <1>1, <1>5, <1>6 DEF VetoWithinHold, VetoExcludes

\* A room that begins or ends carries no veto.
LEMMA RoomVeto ==
    ASSUME VetoInv,
           \/ CreateRoom \/ ResumeRoom \/ CloseRoom
           \/ Crash \/ LeaveRoomOnShutdown
    PROVE  VetoWithinHold' /\ VetoExcludes'
<1>1. \A a \in Addr : EmptyTable[a].kickedAt = NoVeto
    BY DEF EmptyTable, NoMember
<1>2. \A a \in Addr : Loaded(bookFile.entries)[a].kickedAt = NoVeto
    BY DEF Loaded, NoMember
<1>3. ~open => members = EmptyTable
    BY DEF VetoInv, VetoWithinHold
<1>4. CASE CreateRoom
    <2>1. members' = EmptyTable /\ open'
        BY <1>3, <1>4 DEF CreateRoom
    <2> QED BY <1>1, <2>1 DEF VetoWithinHold, VetoExcludes
<1>5. CASE ResumeRoom
    <2>1. members' \in {EmptyTable, Loaded(bookFile.entries)} /\ open'
        BY <1>5 DEF ResumeRoom
    <2> QED BY <1>1, <1>2, <2>1 DEF VetoWithinHold, VetoExcludes
<1>6. CASE CloseRoom \/ Crash \/ LeaveRoomOnShutdown
    <2>1. members' = EmptyTable /\ open' = FALSE
        BY <1>6 DEF CloseRoom, Crash, LeaveRoomOnShutdown, NewProcess, RoomDown
    <2> QED BY <1>1, <2>1 DEF VetoWithinHold, VetoExcludes
<1> QED BY <1>4, <1>5, <1>6

\* What happens outside the host, the discarded room and the clock.
LEMMA WorldVeto ==
    ASSUME VetoInv,
           \/ DiscardSavedRoom \/ EngineDies \/ PassTime
           \/ \E a \in Addr : Arrive(a) \/ Depart(a)
    PROVE  VetoWithinHold' /\ VetoExcludes'
<1>1. CASE UNCHANGED <<open, members, now, beatDue, scope, peers, rules, alert>>
    BY <1>1 DEF VetoInv, VetoWithinHold, VetoExcludes
<1>2. CASE PassTime
    <2>1. UNCHANGED <<open, members, scope, peers, rules, alert>> /\ now' = now + 1
        BY <1>2 DEF PassTime, host
    <2>2. open => ~beatDue /\ beatDue'
        BY <1>2 DEF PassTime
    <2>3. VetoExcludes'
        BY <2>1 DEF VetoInv, VetoExcludes
    <2>4. CASE ~open
        <3>1. \A a \in Addr : EmptyTable[a].kickedAt = NoVeto
            BY DEF EmptyTable, NoMember
        <3> QED BY <2>1, <2>3, <2>4, <3>1 DEF VetoInv, VetoWithinHold
    <2>5. CASE open
        <3> SUFFICES ASSUME NEW a \in Addr, members[a].kickedAt # NoVeto
                     PROVE  /\ members[a].kickedAt <= now'
                            /\ now' <= members[a].kickedAt + KickGrace
            BY <2>1, <2>2, <2>3, <2>5 DEF VetoInv, VetoWithinHold
        <3>1. now \in Nat /\ members[a].kickedAt \in Nat
            BY DEF VetoInv, TypeOK, Member
        <3>2. members[a].kickedAt <= now /\ now < members[a].kickedAt + KickGrace
            BY <2>2, <2>5 DEF VetoInv, VetoWithinHold
        <3> QED BY <2>1, <3>1, <3>2, TimeAssumption
    <2> QED BY <2>4, <2>5
<1>3. CASE DiscardSavedRoom \/ EngineDies \/ \E a \in Addr : Arrive(a) \/ Depart(a)
    BY <1>1, <1>3 DEF DiscardSavedRoom, EngineDies, Arrive, Depart, host
<1> QED BY <1>2, <1>3

\* The inductive invariant: types, the two deadlines of a kick, the three lists.
LEMMA VetoNext == VetoInv /\ [Next]_vars => VetoInv'
<1> SUFFICES ASSUME VetoInv, [Next]_vars PROVE VetoInv'
    OBVIOUS
<1>1. TypeOK'
    BY TypeInductive DEF VetoInv
<1>2. VetoWithinHold' /\ VetoExcludes'
    <2>1. CASE UNCHANGED vars
        BY <2>1 DEF vars, host, VetoInv, VetoWithinHold, VetoExcludes
    <2>2. CASE Next
        BY <2>2, TickVeto, RereadVeto, ChannelUpVeto, SameTableVeto, IssueVeto, KickVeto,
           RoomVeto, WorldVeto DEF Next
    <2> QED BY <2>1, <2>2
<1> QED BY <1>1, <1>2 DEF VetoInv

LEMMA VetoInductive == Spec => []VetoInv
<1>1. Init => VetoInv
    <2>1. \A a \in Addr : EmptyTable[a].kickedAt = NoVeto
        BY DEF EmptyTable, NoMember
    <2>2. Init => VetoWithinHold /\ VetoExcludes
        BY <2>1 DEF Init, VetoWithinHold, VetoExcludes
    <2> QED BY <2>2, TypeInitially DEF VetoInv
<1> QED BY <1>1, VetoNext, PTL DEF Spec

\* Whichever layer of a kick fails, and whatever the engine goes on reporting,
\* the kicked member is in none of the three lists while the veto lasts, or the
\* alert of a kick done by half is raised.
THEOREM KickedAreOut == Spec => []VetoExcludes
<1>1. VetoInv => VetoExcludes
    BY DEF VetoInv
<1> QED BY <1>1, VetoInductive, PTL

\* The address a kick retains is retained beyond its veto.
THEOREM HoldOutlivesVeto == Spec => []VetoWithinHold
<1>1. VetoInv => VetoWithinHold
    BY DEF VetoInv
<1> QED BY <1>1, VetoInductive, PTL

\* So no one who has a seat is under the veto of a former owner of the address.
THEOREM NewcomersAreNotVetoed == Spec => []NewcomerNotVetoed
<1>1. VetoInv => NewcomerNotVetoed
    BY DEF VetoInv, VetoWithinHold, NewcomerNotVetoed, Seat
<1> QED BY <1>1, VetoInductive, PTL

(***************************************************************************)
(* One seat per key.  The book on disk has to say so too, because a new    *)
(* process starts from it; and it goes on saying so, because time only     *)
(* takes seats away.                                                       *)
(***************************************************************************)

\* A family of credentials in which no id and no key's seat is at two
\* addresses, and whose ids have all been given out.
SeatsApart(creds, t, n) ==
    \A a, b \in Addr :
        /\ creds[a].id <= n
        /\ creds[a].id # 0 /\ creds[a].id = creds[b].id => a = b
        /\ Seat(creds[a], t) /\ Seat(creds[b], t) /\ creds[a].key = creds[b].key => a = b

\* Every credential of the new table was in the old one at the same address, and
\* none that admitted no one admits anyone now.
Inherits(old, new, t) ==
    \A a \in Addr : LET c == old[a].cred
                        d == new[a].cred
                    IN  d.id # 0 => /\ d.id = c.id /\ d.key = c.key
                                    /\ Seat(d, t) => Seat(c, t)

SeatInv ==
    /\ TypeOK
    /\ SeatsApart(Entries(members), now, requests)
    /\ SeatsApart(bookFile.entries, now, requests)

LEMMA InheritsTransitive ==
    ASSUME NEW x, NEW y, NEW z, NEW t, Inherits(x, y, t), Inherits(y, z, t)
    PROVE  Inherits(x, z, t)
BY DEF Inherits

LEMMA InheritsApart ==
    ASSUME NEW old \in Table, NEW new \in Table, NEW t \in Nat, NEW n \in Nat,
           SeatsApart(Entries(old), t, n), Inherits(old, new, t)
    PROVE  SeatsApart(Entries(new), t, n)
<1> SUFFICES ASSUME NEW a \in Addr, NEW b \in Addr
             PROVE  /\ new[a].cred.id <= n
                    /\ new[a].cred.id # 0 /\ new[a].cred.id = new[b].cred.id => a = b
                    /\ /\ Seat(new[a].cred, t) /\ Seat(new[b].cred, t)
                       /\ new[a].cred.key = new[b].cred.key
                       => a = b
    BY DEF SeatsApart, Entries
<1>1. /\ old[a].cred.id <= n
      /\ old[a].cred.id # 0 /\ old[a].cred.id = old[b].cred.id => a = b
      /\ /\ Seat(old[a].cred, t) /\ Seat(old[b].cred, t)
         /\ old[a].cred.key = old[b].cred.key
         => a = b
    BY DEF SeatsApart, Entries
<1>2. \A c \in {a, b} : new[c].cred.id # 0 =>
        /\ new[c].cred.id = old[c].cred.id /\ new[c].cred.key = old[c].cred.key
        /\ Seat(new[c].cred, t) => Seat(old[c].cred, t)
    BY DEF Inherits
<1>3. \A c \in {a, b} : Seat(new[c].cred, t) => new[c].cred.id # 0
    BY DEF Seat, Live
<1>4. new[a].cred.id \in Nat
    BY DEF Table, Member, Credential
<1>5. new[a].cred.id <= n
    BY <1>1, <1>2, <1>4
<1> QED BY <1>1, <1>2, <1>3, <1>5

\* Time takes seats away, and gives out more ids.
LEMMA ApartLater ==
    ASSUME NEW creds \in [Addr -> Credential], NEW t \in Nat, NEW n \in Nat,
           NEW u \in Nat, NEW o \in Nat, t <= u, n <= o, SeatsApart(creds, t, n)
    PROVE  SeatsApart(creds, u, o)
<1>1. \A a \in Addr : Seat(creds[a], u) => Seat(creds[a], t)
    BY DEF Seat, Live, Credential
<1>2. \A a \in Addr : creds[a].id \in Nat
    BY DEF Credential
<1> QED BY <1>1, <1>2 DEF SeatsApart

LEMMA NoSeatsApart ==
    ASSUME NEW t, NEW n \in Nat
    PROVE  SeatsApart(Entries(EmptyTable), t, n)
<1>1. \A a \in Addr : Entries(EmptyTable)[a].id = 0
    BY DEF Entries, EmptyTable, NoMember, NoCred
<1> QED BY <1>1 DEF SeatsApart, Seat, Live

LEMMA ForgetInherits ==
    ASSUME NEW table \in Table, NEW channel, NEW t
    PROVE  Inherits(table, Forget(table, channel, t), t)
<1> SUFFICES ASSUME NEW a \in Addr
             PROVE  \/ Forget(table, channel, t)[a].cred = table[a].cred
                    \/ Forget(table, channel, t)[a].cred.id = 0
    BY DEF Inherits
<1>1. VetoLifted(table[a], t).cred = table[a].cred
    BY DEF VetoLifted, Table, Member
<1>2. NoMember.cred.id = 0
    BY DEF NoMember, NoCred
<1> QED BY <1>1, <1>2 DEF Forget

LEMMA RefreshInherits ==
    ASSUME NEW table \in Table, NEW report, NEW channel, NEW t
    PROVE  Inherits(table, Refresh(table, report, channel, t), t)
<1> DEFINE seen == [a \in Addr |-> [table[a] EXCEPT !.inMesh = (a \in report)]]
<1>1. seen \in Table
    BY SeenType
<1>2. Inherits(table, seen, t)
    BY DEF Inherits, Table, Member
<1> HIDE DEF seen
<1>3. Inherits(seen, Forget(seen, channel, t), t)
    BY <1>1, ForgetInherits
<1> QED BY <1>2, <1>3, InheritsTransitive DEF Refresh, seen

LEMMA RenewalsInherit ==
    ASSUME NEW table \in Table, NEW at \in RenewalRound(table)
    PROVE  Inherits(table, WithRenewals(table, at), now)
<1>1. \A a \in at : Seat(table[a].cred, now)
    BY DEF RenewalRound, RenewalDue
<1> SUFFICES ASSUME NEW a \in Addr
             PROVE  LET c == table[a].cred
                        d == WithRenewals(table, at)[a].cred
                    IN  d.id = c.id /\ d.key = c.key /\ (Seat(d, now) => Seat(c, now))
    BY DEF Inherits
<1>2. CASE a \in at
    BY <1>1, <1>2 DEF WithRenewals, Table, Member, Credential
<1>3. CASE a \notin at
    BY <1>3 DEF WithRenewals
<1> QED BY <1>2, <1>3

LEMMA SavedBook ==
    ASSUME NEW table, SaveMembers(table)
    PROVE  bookFile'.entries \in {bookFile.entries, Entries(table)}
BY DEF SaveMembers

\* A step that gives no credential out keeps seats apart, in the table and in
\* the book it may write on the way.
LEMMA InheritsKeepsSeats ==
    ASSUME SeatInv, TypeOK', now' = now, requests' = requests, NEW table \in Table,
           Inherits(members, table, now), Inherits(table, members', now),
           bookFile'.entries \in {bookFile.entries, Entries(table), Entries(members')}
    PROVE  SeatInv'
<1>1. members \in Table /\ members' \in Table /\ now \in Nat /\ requests \in Nat
    BY DEF SeatInv, TypeOK, Table
<1>2. SeatsApart(Entries(table), now, requests)
    BY <1>1, InheritsApart DEF SeatInv
<1>3. SeatsApart(Entries(members'), now, requests)
    BY <1>1, <1>2, InheritsApart
<1> QED BY <1>2, <1>3 DEF SeatInv

LEMMA InheritsSelf ==
    ASSUME NEW table, NEW t
    PROVE  Inherits(table, table, t)
BY DEF Inherits

LEMMA TickSeats ==
    ASSUME SeatInv, TypeOK', Tick \/ Sweep
    PROVE  SeatInv'
<1>1. PICK channel \in Channels :
        LET kept == Forget(members, channel, now)
        IN  \E at \in RenewalRound(kept) :
                members' = WithRenewals(kept, at) /\ Renewal(at, members')
    BY DEF Tick, Sweep
<1> DEFINE kept == Forget(members, channel, now)
<1>2. PICK at \in RenewalRound(kept) :
        members' = WithRenewals(kept, at) /\ Renewal(at, members')
    BY <1>1
<1>3. members \in Table /\ kept \in Table /\ now' = now /\ requests' = requests
    BY ForgetType DEF SeatInv, TypeOK, Table, Tick, Sweep
<1>4. Inherits(members, kept, now)
    BY <1>3, ForgetInherits
<1> HIDE DEF kept
<1>5. Inherits(kept, members', now)
    BY <1>2, <1>3, RenewalsInherit
<1>6. bookFile'.entries \in {bookFile.entries, Entries(members')}
    BY <1>2, SavedBook DEF Renewal
<1> QED BY <1>3, <1>4, <1>5, <1>6, InheritsKeepsSeats

LEMMA RereadSeats ==
    ASSUME SeatInv, TypeOK', OnPeersChanged \/ OnEngineDegraded \/ OnTunnelUp
    PROVE  SeatInv'
<1>1. PICK channel \in Channels :
        LET kept == Forget(members, channel, now)
        IN  \E at \in RenewalRound(kept) :
                LET renewed == WithRenewals(kept, at)
                IN  Renewal(at, renewed) /\ members' = Refresh(renewed, mesh, channel, now)
    BY DEF OnPeersChanged, OnEngineDegraded, OnTunnelUp, PeersChanged
<1> DEFINE kept == Forget(members, channel, now)
<1>2. PICK at \in RenewalRound(kept) :
        LET renewed == WithRenewals(kept, at)
        IN  Renewal(at, renewed) /\ members' = Refresh(renewed, mesh, channel, now)
    BY <1>1
<1>3. /\ members \in Table /\ kept \in Table /\ now \in Nat
      /\ now' = now /\ requests' = requests
    BY ForgetType DEF SeatInv, TypeOK, Table, OnPeersChanged, OnEngineDegraded, OnTunnelUp
<1>4. Inherits(members, kept, now)
    BY <1>3, ForgetInherits
<1> HIDE DEF kept
<1> DEFINE renewed == WithRenewals(kept, at)
<1>5. renewed \in Table
    BY <1>3, WithRenewalsType
<1>6. Inherits(members, renewed, now)
    BY <1>3, <1>4, RenewalsInherit, InheritsTransitive
<1> HIDE DEF renewed
<1>7. Renewal(at, renewed) /\ members' = Refresh(renewed, mesh, channel, now)
    BY <1>2 DEF renewed
<1>8. Inherits(renewed, members', now)
    BY <1>5, <1>7, RefreshInherits
<1>9. bookFile'.entries \in {bookFile.entries, Entries(renewed)}
    BY <1>7, SavedBook DEF Renewal
<1> QED BY <1>3, <1>5, <1>6, <1>8, <1>9, InheritsKeepsSeats

LEMMA ChannelUpSeats ==
    ASSUME SeatInv, TypeOK', OnMemberChannelUp
    PROVE  SeatInv'
<1>1. PICK channel \in Channels : members' = Refresh(members, mesh, channel, now)
    BY DEF OnMemberChannelUp, PeersChanged
<1>2. members \in Table
    BY DEF SeatInv, TypeOK, Table
<1>3. Inherits(members, members', now)
    BY <1>1, <1>2, RefreshInherits
<1>4. now' = now /\ requests' = requests /\ bookFile' = bookFile
    BY DEF OnMemberChannelUp, disk
<1> QED BY <1>2, <1>3, <1>4, InheritsSelf, InheritsKeepsSeats

\* A kick revokes, and with it takes a seat away.
LEMMA KickSeats ==
    ASSUME SeatInv, TypeOK', NEW a \in Addr, KickMember(a)
    PROVE  SeatInv'
<1>1. /\ now' = now /\ requests' = requests
      /\ members' = [members EXCEPT ![a] = Kicked(@)]
    BY DEF KickMember
<1>2. members \in Table
    BY DEF SeatInv, TypeOK, Table
<1>3. Inherits(members, members', now)
    <2>1. members[a].cred \in Credential /\ members[a] \in Member
        BY <1>2 DEF Table, Member
    <2>2. /\ Kicked(members[a]).cred.id = members[a].cred.id
          /\ Kicked(members[a]).cred.key = members[a].cred.key
          /\ Kicked(members[a]).cred.revoked
        BY <2>1 DEF Kicked, Member, Credential
    <2> QED BY <1>1, <1>2, <2>2 DEF Inherits, Seat, Table
<1>4. bookFile'.entries \in {bookFile.entries, Entries(members')}
    BY SavedBook DEF KickMember
<1> QED BY <1>1, <1>2, <1>3, <1>4, InheritsSelf, InheritsKeepsSeats

\* The only step that gives a credential out: its key has no other seat, its
\* address none that lives, and its id is new.
LEMMA IssueSeats ==
    ASSUME SeatInv, TypeOK', NEW k \in Key, IssueCredentialFor(k)
    PROVE  SeatInv'
<1>1. /\ members \in Table /\ members' \in Table /\ now \in Nat /\ requests \in Nat
      /\ bookFile.entries \in [Addr -> Credential] /\ requests + 1 \in Nat
    BY DEF SeatInv, TypeOK, Table
<1>2. now' = now /\ requests' = requests + 1
    BY DEF IssueCredentialFor
<1>3. /\ SeatsApart(Entries(members), now, requests)
      /\ SeatsApart(bookFile.entries, now, requests + 1)
    BY <1>1, ApartLater DEF SeatInv
<1>4. SUFFICES /\ SeatsApart(Entries(members'), now, requests + 1)
               /\ bookFile'.entries \in {bookFile.entries, Entries(members')}
    BY <1>2, <1>3 DEF SeatInv
<1>5. ASSUME NEW table \in Table, Inherits(members, table, now), NewSeat(table, k),
             \A a \in Addr : ~(Seat(table[a].cred, now) /\ table[a].cred.key = k)
      PROVE  /\ SeatsApart(Entries(members'), now, requests + 1)
             /\ bookFile'.entries \in {bookFile.entries, Entries(members')}
    <2>1. SeatsApart(Entries(table), now, requests)
        BY <1>1, <1>3, <1>5, InheritsApart
    <2>2. Entries(table) \in [Addr -> Credential]
        BY DEF Entries, Table, Member
    <2>3. CASE members' = table /\ UNCHANGED bookFile
        <3>1. SeatsApart(Entries(table), now, requests + 1)
            BY <1>1, <2>1, <2>2, ApartLater
        <3> QED BY <2>3, <3>1
    <2>4. CASE /\ ~(Addr \subseteq Taken(table)) /\ SaveMembers(members')
               /\ members' = WithCred(table, NextFree(table), NewCred(k))
        <3> DEFINE n == NextFree(table)
        <3>1. n \in Addr
            BY <2>4, NextFreeIsFree
        <3>2. Entries(members') = [Entries(table) EXCEPT ![n] = NewCred(k)]
            BY <2>4, <3>1 DEF Entries, WithCred, Table, Member
        <3>3. SeatsApart(Entries(members'), now, requests + 1)
            <4> HIDE DEF n
            <4> SUFFICES ASSUME NEW a \in Addr, NEW b \in Addr
                         PROVE LET C == Entries(members') IN
                            /\ C[a].id <= requests + 1
                            /\ C[a].id # 0 /\ C[a].id = C[b].id => a = b
                            /\ Seat(C[a], now) /\ Seat(C[b], now) /\ C[a].key = C[b].key
                                 => a = b
                BY DEF SeatsApart
            <4> DEFINE C == Entries(members')
                       D == Entries(table)
            <4>1. \A c \in Addr : C[c] = IF c = n THEN NewCred(k) ELSE D[c]
                BY <2>2, <3>1, <3>2
            <4>2. NewCred(k).id = requests + 1 /\ NewCred(k).key = k
                BY DEF NewCred
            <4>3. \A c \in Addr : D[c].id \in Nat /\ D[c].id <= requests
                BY <2>1, <2>2 DEF SeatsApart, Credential
            <4>4. \A c \in Addr : ~(Seat(D[c], now) /\ D[c].key = k)
                BY <1>5 DEF Entries
            <4>5. C[a].id <= requests + 1
                BY <1>1, <4>1, <4>2, <4>3
            <4>6. C[a].id # 0 /\ C[a].id = C[b].id => a = b
                BY <1>1, <2>1, <4>1, <4>2, <4>3 DEF SeatsApart
            <4>7. Seat(C[a], now) /\ Seat(C[b], now) /\ C[a].key = C[b].key => a = b
                BY <2>1, <4>1, <4>2, <4>4 DEF SeatsApart
            <4> QED BY <4>5, <4>6, <4>7
        <3> QED BY <2>4, <3>3, SavedBook
    <2> QED BY <1>5, <2>3, <2>4 DEF NewSeat
<1>6. ASSUME NEW a \in Holding(k), ReturnSeat(a)
      PROVE  /\ SeatsApart(Entries(members'), now, requests + 1)
             /\ bookFile'.entries \in {bookFile.entries, Entries(members')}
    <2>1. a \in Addr /\ Seat(members[a].cred, now)
        BY DEF Holding
    <2>2. Inherits(members, members', now)
        BY <1>1, <1>6, <2>1
           DEF ReturnSeat, WithCred, Inherits, Seat, Table, Member, Credential
    <2>3. SeatsApart(Entries(members'), now, requests)
        BY <1>1, <1>3, <2>2, InheritsApart
    <2>4. Entries(members') \in [Addr -> Credential]
        BY <1>1 DEF Entries, Table, Member
    <2> QED BY <1>1, <1>6, <2>3, <2>4, ApartLater, SavedBook DEF ReturnSeat
<1>7. ASSUME NEW a \in Holding(k), NewSeat(WithCred(members, a, NoCred), k)
      PROVE  /\ SeatsApart(Entries(members'), now, requests + 1)
             /\ bookFile'.entries \in {bookFile.entries, Entries(members')}
    <2> DEFINE table == WithCred(members, a, NoCred)
    <2>1. a \in Addr /\ table \in Table
        BY <1>1, WithCredType, NoCredType DEF Holding
    <2>2. \A b \in Addr : table[b].cred = IF b = a THEN NoCred ELSE members[b].cred
        BY <1>1, <2>1 DEF WithCred, Table, Member
    <2> HIDE DEF table
    <2>3. NoCred.id = 0
        BY DEF NoCred
    <2>4. Inherits(members, table, now)
        BY <2>2, <2>3 DEF Inherits
    <2>5. \A b \in Addr : ~(Seat(table[b].cred, now) /\ table[b].cred.key = k)
        BY <1>3, <2>1, <2>2, <2>3 DEF Holding, SeatsApart, Entries, Seat, Live
    <2> QED BY <1>5, <1>7, <2>1, <2>4, <2>5 DEF table
<1>8. CASE Holding(k) = {} /\ NewSeat(members, k)
    BY <1>1, <1>5, <1>8, InheritsSelf DEF Holding
<1> QED BY <1>6, <1>7, <1>8 DEF IssueCredentialFor

\* A room that begins takes no seats with it, or those of the book.
LEMMA RoomSeats ==
    ASSUME SeatInv, TypeOK',
           \/ CreateRoom \/ ResumeRoom \/ CloseRoom \/ DiscardSavedRoom
           \/ Crash \/ LeaveRoomOnShutdown \/ EngineDies
    PROVE  SeatInv'
<1>1. now' = now /\ requests' = requests /\ requests \in Nat
    BY DEF CreateRoom, ResumeRoom, CloseRoom, DiscardSavedRoom, Crash, LeaveRoomOnShutdown,
           EngineDies, NewProcess, SeatInv, TypeOK
<1>2. SeatsApart(Entries(EmptyTable), now, requests)
    BY <1>1, NoSeatsApart
<1>3. bookFile'.entries \in {bookFile.entries, Entries(EmptyTable)}
    BY DEF CreateRoom, ResumeRoom, CloseRoom, DiscardSavedRoom, Crash, LeaveRoomOnShutdown,
           EngineDies, NewProcess, Cleared, NoBook, disk
<1>4. SeatsApart(bookFile'.entries, now, requests)
    BY <1>2, <1>3 DEF SeatInv
<1>5. SeatsApart(Entries(Loaded(bookFile.entries)), now, requests)
    <2> DEFINE C == Entries(Loaded(bookFile.entries))
               D == bookFile.entries
    <2>1. \A a \in Addr : C[a] = D[a] \/ C[a].id = 0
        BY DEF Entries, Loaded, NoMember, NoCred
    <2>2. SeatsApart(D, now, requests)
        BY DEF SeatInv
    <2> HIDE DEF C, D
    <2> QED BY <1>1, <2>1, <2>2 DEF SeatsApart, Seat, Live, C, D
<1>6. members' \in {members, EmptyTable, Loaded(bookFile.entries)}
    BY DEF CreateRoom, ResumeRoom, CloseRoom, DiscardSavedRoom, Crash, LeaveRoomOnShutdown,
           EngineDies, NewProcess, RoomDown, host
<1>7. SeatsApart(Entries(members'), now, requests)
    BY <1>2, <1>5, <1>6 DEF SeatInv
<1> QED BY <1>1, <1>4, <1>7 DEF SeatInv

\* What leaves the table and the book alone, the clock included.
LEMMA QuietSeats ==
    ASSUME SeatInv, TypeOK',
           \/ ReapplyProtection \/ ActivateProfile \/ RenameRoom \/ RotateInviteCode
           \/ OnEngineRestarted \/ PassTime \/ \E a \in Addr : Arrive(a) \/ Depart(a)
           \/ UNCHANGED vars
    PROVE  SeatInv'
<1>1. UNCHANGED <<members, bookFile, requests>> /\ now' \in {now, now + 1}
    BY DEF ReapplyProtection, ActivateProfile, RenameRoom, RotateInviteCode,
           OnEngineRestarted, PassTime, Arrive, Depart, vars, host, disk
<1>2. /\ now \in Nat /\ requests \in Nat /\ now' \in Nat /\ now <= now'
      /\ Entries(members) \in [Addr -> Credential]
      /\ bookFile.entries \in [Addr -> Credential]
    BY <1>1 DEF SeatInv, TypeOK, Entries, Member
<1>3. /\ SeatsApart(Entries(members), now', requests)
      /\ SeatsApart(bookFile.entries, now', requests)
    BY <1>2, ApartLater DEF SeatInv
<1> QED BY <1>1, <1>3 DEF SeatInv

LEMMA SeatInitially == Init => SeatInv
<1> SUFFICES ASSUME Init PROVE SeatInv
    OBVIOUS
<1>1. TypeOK /\ members = EmptyTable /\ requests = 0
    BY TypeInitially DEF Init
<1>2. bookFile.entries = Entries(EmptyTable)
    BY DEF Init, NoBook
<1> QED BY <1>1, <1>2, NoSeatsApart DEF SeatInv

LEMMA SeatInductive ==
    ASSUME SeatInv, [Next]_vars
    PROVE  SeatInv'
<1>1. TypeOK'
    BY TypeInductive DEF SeatInv
<1>2. CASE UNCHANGED vars
    BY <1>1, <1>2, QuietSeats
<1>3. CASE Next
    BY <1>1, <1>3, TickSeats, RereadSeats, ChannelUpSeats, KickSeats, IssueSeats,
       RoomSeats, QuietSeats DEF Next
<1> QED BY <1>2, <1>3

\* A key never holds two seats, through every crash, reopening and fault: the
\* door never gives one out before giving the other back, nor does the book.
THEOREM NoKeySeatedTwice == Spec => []OneSeatPerKey
<1>1. SeatInv => OneSeatPerKey
    BY DEF SeatInv, SeatsApart, Entries, OneSeatPerKey
<1>2. SeatInv /\ [Next]_vars => SeatInv'
    BY SeatInductive
<1> QED BY <1>1, <1>2, SeatInitially, PTL DEF Spec

(***************************************************************************)
(* The engine and the book.  With an engine that carries revocations out   *)
(* and does not fail the renewal of an id it knows, it only lets in whom   *)
(* the table has a seat for; an engine that does not know an id, writes    *)
(* and rules that fail, crashes and reopenings make no difference.  That   *)
(* ids are apart is what keeps a renewal from moving someone else's date.  *)
(***************************************************************************)

\* Every credential of the list lives and is the one of the table.
Backed(table, list, t) ==
    \A r \in list : LET c == table[r.addr].cred IN
        /\ c.id = r.id /\ c.id # 0 /\ c.key = r.key
        /\ c.expiresAt = r.exp /\ ~c.revoked /\ t < r.exp

TrustInv ==
    /\ SeatInv
    /\ open \/ trust = {}
    /\ Backed(members, trust, now)

LEMMA ForgetBacked ==
    ASSUME TypeOK, NEW table \in Table, NEW channel, Backed(table, trust, now)
    PROVE  Backed(Forget(table, channel, now), trust, now)
<1> SUFFICES ASSUME NEW r \in trust
             PROVE  Forget(table, channel, now)[r.addr].cred = table[r.addr].cred
    BY DEF Backed
<1>1. r.addr \in Addr
    BY DEF TypeOK
<1>2. VetoLifted(table[r.addr], now).cred = table[r.addr].cred
    BY <1>1 DEF VetoLifted, Table, Member
<1>3. Live(table[r.addr].cred, now)
    BY DEF Backed, Live
<1> QED BY <1>1, <1>2, <1>3 DEF Forget

LEMMA RefreshBacked ==
    ASSUME TypeOK, NEW table \in Table, NEW report, NEW channel, Backed(table, trust, now)
    PROVE  Backed(Refresh(table, report, channel, now), trust, now)
<1> DEFINE seen == [a \in Addr |-> [table[a] EXCEPT !.inMesh = (a \in report)]]
<1>1. seen \in Table
    BY SeenType
<1>2. \A a \in Addr : seen[a].cred = table[a].cred
    BY DEF Table, Member
<1> HIDE DEF seen
<1>3. Backed(seen, trust, now)
    BY <1>2 DEF Backed, TypeOK
<1> QED BY <1>1, <1>3, ForgetBacked DEF Refresh, seen

\* The engine renews the very ids whose date the host moves.
LEMMA RenewedBacked ==
    ASSUME TypeOK, NEW table \in Table, NEW new, NEW at \in SUBSET Addr, NEW ids,
           SeatsApart(Entries(table), now, requests), Backed(table, trust, now),
           \A b \in Addr : new[b].cred = IF b \in at
                THEN [table[b].cred EXCEPT !.expiresAt = now + CredentialTTL]
                ELSE table[b].cred,
           ids = {table[a].cred.id : a \in at}
    PROVE  Backed(new, Renewed(ids), now)
<1> SUFFICES ASSUME NEW q \in Renewed(ids)
             PROVE  LET c == new[q.addr].cred IN
                    /\ c.id = q.id /\ c.id # 0 /\ c.key = q.key
                    /\ c.expiresAt = q.exp /\ ~c.revoked /\ now < q.exp
    BY DEF Backed
<1>1. PICK r \in trust :
        q = [r EXCEPT !.exp = IF r.id \in ids THEN now + CredentialTTL ELSE @]
    BY DEF Renewed
<1> DEFINE b == r.addr
           c == table[b].cred
<1>2. r \in [id : Nat, key : Key, addr : Addr, exp : Nat] /\ b \in Addr
    BY DEF TypeOK
<1>3. /\ q.addr = b /\ q.id = r.id /\ q.key = r.key
      /\ q.exp = IF r.id \in ids THEN now + CredentialTTL ELSE r.exp
    BY <1>1, <1>2
<1>4. /\ c.id = r.id /\ c.id # 0 /\ c.key = r.key /\ c.expiresAt = r.exp
      /\ ~c.revoked /\ now < r.exp /\ c \in Credential
    BY <1>2 DEF Backed, Table, Member
<1>5. r.id \in ids <=> b \in at
    <2>1. ASSUME NEW a \in at, table[a].cred.id = r.id PROVE a = b
        BY <1>2, <1>4, <2>1 DEF SeatsApart, Entries
    <2> QED BY <1>4, <2>1
<1>6. now < now + CredentialTTL
    BY TimeAssumption DEF TypeOK
<1> HIDE DEF b, c
<1>7. CASE b \in at
    <2>1. new[b].cred = [c EXCEPT !.expiresAt = now + CredentialTTL]
        BY <1>2, <1>7 DEF b, c
    <2>2. /\ new[b].cred.id = c.id /\ new[b].cred.key = c.key
          /\ new[b].cred.revoked = c.revoked
          /\ new[b].cred.expiresAt = now + CredentialTTL
        BY <1>4, <2>1 DEF Credential
    <2> QED BY <1>3, <1>4, <1>5, <1>6, <1>7, <2>2
<1>8. CASE b \notin at
    <2>1. new[b].cred = c
        BY <1>2, <1>8 DEF b, c
    <2> QED BY <1>3, <1>4, <1>5, <1>8, <2>1
<1> QED BY <1>7, <1>8

LEMMA RoundBacked ==
    ASSUME TypeOK, NEW table \in Table, NEW at \in RenewalRound(table), NEW renewed,
           renewed = WithRenewals(table, at), Renewal(at, renewed),
           SeatsApart(Entries(table), now, requests), Backed(table, trust, now)
    PROVE  Backed(renewed, trust', now)
<1>1. at \in SUBSET Addr
    BY DEF RenewalRound
<1>2. \A b \in Addr : renewed[b].cred = IF b \in at
            THEN [table[b].cred EXCEPT !.expiresAt = now + CredentialTTL]
            ELSE table[b].cred
    BY DEF WithRenewals, Table, Member
<1>3. \A a \in at : renewed[a].cred.id = table[a].cred.id
    BY <1>1, <1>2 DEF Table, Member, Credential
<1>4. {renewed[a].cred.id : a \in at} = {table[a].cred.id : a \in at}
    BY <1>3
<1>5. trust' = Renewed({renewed[a].cred.id : a \in at})
    BY DEF Renewal
<1> QED BY <1>1, <1>2, <1>4, <1>5, RenewedBacked

LEMMA TickBacked ==
    ASSUME TrustInv, Tick \/ Sweep
    PROVE  Backed(members', trust', now)
<1>1. PICK channel \in Channels :
        LET kept == Forget(members, channel, now)
        IN  \E at \in RenewalRound(kept) :
                members' = WithRenewals(kept, at) /\ Renewal(at, members')
    BY DEF Tick, Sweep
<1> DEFINE kept == Forget(members, channel, now)
<1>2. PICK at \in RenewalRound(kept) :
        members' = WithRenewals(kept, at) /\ Renewal(at, members')
    BY <1>1
<1>3. TypeOK /\ members \in Table /\ kept \in Table /\ now \in Nat /\ requests \in Nat
    BY ForgetType DEF TrustInv, SeatInv, TypeOK, Table
<1>4. Backed(kept, trust, now)
    BY <1>3, ForgetBacked DEF TrustInv
<1>5. SeatsApart(Entries(kept), now, requests)
    BY <1>3, ForgetInherits, InheritsApart DEF TrustInv, SeatInv
<1> HIDE DEF kept
<1> QED BY <1>2, <1>3, <1>4, <1>5, RoundBacked

LEMMA RereadBacked ==
    ASSUME TrustInv, OnPeersChanged \/ OnEngineDegraded \/ OnTunnelUp
    PROVE  Backed(members', trust', now)
<1>1. PICK channel \in Channels :
        LET kept == Forget(members, channel, now)
        IN  \E at \in RenewalRound(kept) :
                LET renewed == WithRenewals(kept, at)
                IN  Renewal(at, renewed) /\ members' = Refresh(renewed, mesh, channel, now)
    BY DEF OnPeersChanged, OnEngineDegraded, OnTunnelUp, PeersChanged
<1> DEFINE kept == Forget(members, channel, now)
<1>2. PICK at \in RenewalRound(kept) :
        LET renewed == WithRenewals(kept, at)
        IN  Renewal(at, renewed) /\ members' = Refresh(renewed, mesh, channel, now)
    BY <1>1
<1>3. TypeOK /\ members \in Table /\ kept \in Table /\ now \in Nat /\ requests \in Nat
    BY ForgetType DEF TrustInv, SeatInv, TypeOK, Table
<1>4. Backed(kept, trust, now)
    BY <1>3, ForgetBacked DEF TrustInv
<1>5. SeatsApart(Entries(kept), now, requests)
    BY <1>3, ForgetInherits, InheritsApart DEF TrustInv, SeatInv
<1> HIDE DEF kept
<1> DEFINE renewed == WithRenewals(kept, at)
<1>6. renewed \in Table
    BY <1>3, WithRenewalsType
<1> HIDE DEF renewed
<1>7. Renewal(at, renewed) /\ members' = Refresh(renewed, mesh, channel, now)
    BY <1>2 DEF renewed
<1>8. Backed(renewed, trust', now)
    BY <1>3, <1>4, <1>5, <1>7, RoundBacked DEF renewed
<1>9. \A r \in trust' : r.addr \in Addr
    BY <1>3, <1>6, <1>7, RenewalType
<1> DEFINE seen == [a \in Addr |-> [renewed[a] EXCEPT !.inMesh = (a \in mesh)]]
<1>10. seen \in Table /\ \A a \in Addr : seen[a].cred = renewed[a].cred
    <2>1. seen \in Table
        BY <1>6, SeenType
    <2>2. \A a \in Addr : seen[a].cred = renewed[a].cred
        BY <1>6 DEF Table, Member
    <2> QED BY <2>1, <2>2
<1> HIDE DEF seen
<1>11. \A r \in trust' : members'[r.addr].cred = renewed[r.addr].cred
    <2> SUFFICES ASSUME NEW r \in trust'
                 PROVE  members'[r.addr].cred = renewed[r.addr].cred
        OBVIOUS
    <2>1. members' = Forget(seen, channel, now)
        BY <1>7 DEF Refresh, seen
    <2>2. VetoLifted(seen[r.addr], now).cred = seen[r.addr].cred
        BY <1>9, <1>10 DEF VetoLifted, Table, Member
    <2>3. Live(seen[r.addr].cred, now)
        BY <1>8, <1>9, <1>10 DEF Backed, Live
    <2> QED BY <1>9, <1>10, <2>1, <2>2, <2>3 DEF Forget
<1> QED BY <1>8, <1>11 DEF Backed

LEMMA ChannelUpBacked ==
    ASSUME TrustInv, OnMemberChannelUp
    PROVE  Backed(members', trust', now)
<1>1. PICK channel \in Channels : members' = Refresh(members, mesh, channel, now)
    BY DEF OnMemberChannelUp, PeersChanged
<1>2. TypeOK /\ members \in Table /\ trust' = trust
    BY DEF TrustInv, SeatInv, TypeOK, Table, OnMemberChannelUp, world
<1> QED BY <1>1, <1>2, RefreshBacked DEF TrustInv

\* The new seat is at an address no trusted credential is at.
LEMMA IssueBacked ==
    ASSUME TrustInv, NEW k \in Key, IssueCredentialFor(k), "renewTimeout" \notin Fault
    PROVE  Backed(members', trust', now)
<1>1. TypeOK /\ members \in Table /\ now \in Nat /\ requests \in Nat
    BY DEF TrustInv, SeatInv, TypeOK, Table
<1>2. ASSUME NEW a \in Holding(k), ReturnSeat(a)
      PROVE  Backed(members', trust', now)
    <2> DEFINE c == [members[a].cred EXCEPT !.expiresAt = now + CredentialTTL]
               ids == {members[b].cred.id : b \in {a}}
    <2>1. a \in Addr
        BY DEF Holding
    <2>2. members' = WithCred(members, a, c) /\ trust' = Renewed(ids)
        <3>1. ids = {members[a].cred.id}
            OBVIOUS
        <3> QED BY <1>2, <3>1 DEF ReturnSeat
    <2>3. \A b \in Addr : members'[b].cred = IF b \in {a}
                THEN [members[b].cred EXCEPT !.expiresAt = now + CredentialTTL]
                ELSE members[b].cred
        BY <1>1, <2>1, <2>2 DEF WithCred, Table, Member
    <2> HIDE DEF ids
    <2> QED BY <1>1, <2>1, <2>2, <2>3, RenewedBacked DEF TrustInv, SeatInv, ids
<1>3. ASSUME NEW table \in Table, NewSeat(table, k), Backed(table, trust, now)
      PROVE  Backed(members', trust', now)
    <2>1. CASE members' = table /\ UNCHANGED trust
        BY <1>3, <2>1
    <2>2. CASE /\ ~(Addr \subseteq Taken(table))
               /\ members' = WithCred(table, NextFree(table), NewCred(k))
               /\ trust' = trust \cup {Trust(NewCred(k), NextFree(table))}
        <3> DEFINE n == NextFree(table)
        <3>1. n \in Addr /\ n \notin Taken(table)
            BY <2>2, NextFreeIsFree
        <3>2. \A b \in Addr : members'[b].cred = IF b = n THEN NewCred(k) ELSE table[b].cred
            BY <2>2, <3>1 DEF WithCred, Table, Member
        <3>3. ASSUME NEW r \in trust PROVE r.addr \in Addr /\ r.addr # n
            <4>1. r.addr \in Addr
                BY <1>1 DEF TypeOK
            <4>2. Live(table[r.addr].cred, now)
                BY <1>3 DEF Backed, Live
            <4> QED BY <3>1, <4>1, <4>2 DEF Taken
        <3> HIDE DEF n
        <3>4. Backed(members', trust, now)
            BY <1>3, <3>2, <3>3 DEF Backed
        <3> DEFINE q == Trust(NewCred(k), n)
        <3>5. /\ q.addr = n /\ q.id = requests + 1 /\ q.key = k
              /\ q.exp = now + CredentialTTL /\ now < now + CredentialTTL /\ requests + 1 # 0
            BY <1>1, TimeAssumption DEF Trust, NewCred
        <3>6. members'[n].cred = NewCred(k)
            BY <3>1, <3>2 DEF n
        <3>7. Backed(members', {q}, now)
            BY <3>5, <3>6 DEF Backed, NewCred
        <3>8. trust' = trust \cup {q}
            BY <2>2 DEF n
        <3> HIDE DEF q
        <3> QED BY <3>4, <3>7, <3>8 DEF Backed
    <2> QED BY <1>3, <2>1, <2>2 DEF NewSeat
<1>4. ASSUME NEW a \in Holding(k), NewSeat(WithCred(members, a, NoCred), k),
             ~Trusted(members[a].cred)
      PROVE  Backed(members', trust', now)
    <2>1. a \in Addr
        BY DEF Holding
    <2>2. WithCred(members, a, NoCred) \in Table
        BY <1>1, WithCredType, NoCredType
    <2>3. \A b \in Addr \ {a} : WithCred(members, a, NoCred)[b] = members[b]
        BY <1>1 DEF WithCred, Table
    <2>4. \A r \in trust : r.addr \in Addr \ {a}
        BY <1>1, <1>4 DEF Trusted, TrustInv, Backed, TypeOK
    <2>5. Backed(WithCred(members, a, NoCred), trust, now)
        BY <2>3, <2>4 DEF Backed, TrustInv
    <2> QED BY <1>3, <1>4, <2>2, <2>5
<1>5. CASE NewSeat(members, k)
    BY <1>1, <1>3, <1>5 DEF TrustInv
<1> QED BY <1>2, <1>4, <1>5 DEF IssueCredentialFor

\* A revocation that is carried out, or that asks for an id the engine does not
\* know, leaves nothing behind.
LEMMA KickBacked ==
    ASSUME TrustInv, NEW a \in Addr, KickMember(a), "revoke" \notin Fault
    PROVE  Backed(members', trust', now)
<1>1. PICK done \in BOOLEAN : Revocation(a, done)
    BY DEF KickMember
<1>2. TypeOK
    BY DEF TrustInv, SeatInv
<1>3. trust' \subseteq trust /\ \A r \in trust' : r.id # members[a].cred.id
    BY <1>1 DEF Revocation, Trusted
<1>4. \A r \in trust' : r.addr \in Addr \ {a}
    BY <1>2, <1>3 DEF TypeOK, TrustInv, Backed
<1>5. \A b \in Addr \ {a} : members'[b] = members[b]
    BY <1>2 DEF KickMember, TypeOK
<1> QED BY <1>3, <1>4, <1>5 DEF Backed, TrustInv

LEMMA TrustNext ==
    ASSUME TrustInv, [Next]_vars, Fault \cap {"revoke", "renewTimeout"} = {}
    PROVE  TrustInv'
<1>1. SeatInv'
    BY SeatInductive DEF TrustInv
<1>2. CASE \/ Tick \/ Sweep \/ OnPeersChanged \/ OnEngineDegraded \/ OnTunnelUp
           \/ OnMemberChannelUp \/ (\E k \in Key : IssueCredentialFor(k))
           \/ (\E a \in Addr : KickMember(a))
    <2>1. open' /\ now' = now
        BY <1>2 DEF Tick, Sweep, OnPeersChanged, OnEngineDegraded, OnTunnelUp,
                    OnMemberChannelUp, IssueCredentialFor, KickMember
    <2>2. "revoke" \notin Fault /\ "renewTimeout" \notin Fault
        BY Zenon
    <2>3. Backed(members', trust', now)
        BY <1>2, <2>2, TickBacked, RereadBacked, ChannelUpBacked, IssueBacked, KickBacked
    <2> QED BY <1>1, <2>1, <2>3 DEF TrustInv, Backed
<1>3. CASE \/ ReapplyProtection \/ ActivateProfile \/ RenameRoom \/ RotateInviteCode
           \/ OnEngineRestarted \/ DiscardSavedRoom
           \/ (\E a \in Addr : Arrive(a) \/ Depart(a)) \/ UNCHANGED vars
    <2>1. UNCHANGED <<members, trust, now, open>>
        BY <1>3 DEF ReapplyProtection, ActivateProfile, RenameRoom, RotateInviteCode,
                    OnEngineRestarted, DiscardSavedRoom, Arrive, Depart, vars, host, world
    <2> QED BY <1>1, <2>1 DEF TrustInv, Backed
<1>4. CASE \/ CreateRoom \/ ResumeRoom \/ CloseRoom \/ Crash \/ LeaveRoomOnShutdown
           \/ EngineDies
    <2>1. trust' = {}
        BY <1>4 DEF CreateRoom, ResumeRoom, CloseRoom, Crash, LeaveRoomOnShutdown,
                    EngineDies, NewProcess, RoomDown, TrustInv, world
    <2> QED BY <1>1, <2>1 DEF TrustInv, Backed
<1>5. CASE PassTime
    <2>1. /\ open' = open /\ members' = members
          /\ trust' = {r \in trust : now' < r.exp}
        BY <1>5 DEF PassTime, host
    <2>2. open' \/ trust' = {}
        BY <2>1 DEF TrustInv
    <2>3. Backed(members', trust', now')
        BY <2>1 DEF TrustInv, Backed
    <2> QED BY <1>1, <2>2, <2>3 DEF TrustInv, Backed
<1> QED BY <1>2, <1>3, <1>4, <1>5 DEF Next

\* If the engine carries revocations out and renews the ids it knows, it lets in
\* no one the host could not find to kick, renew or seat again.
THEOREM EngineLetsInTheBook ==
    ASSUME Fault \cap {"revoke", "renewTimeout"} = {}
    PROVE  Spec => []EngineTrustInBook
<1>1. Init => TrustInv
    BY SeatInitially DEF Init, TrustInv, Backed
<1>2. TrustInv /\ [Next]_vars => TrustInv'
    BY TrustNext
<1>3. TrustInv => EngineTrustInBook
    BY DEF TrustInv, Backed, EngineTrustInBook
<1> QED BY <1>1, <1>2, <1>3, PTL DEF Spec

(***************************************************************************)
(* Whoever is let in.                                                      *)
(***************************************************************************)

\* While a room stays open a list only ever becomes the members of the table,
\* and rules that could not be applied only lose who is no member, which
\* leaves the alert as it was or raises it.
RulesKeep(table) ==
    /\ rules \cap MemberIPs(table, now) \subseteq rules'
    /\ rules' \subseteq MemberIPs(table, now) \/ (rules' \subseteq rules /\ (alert => alert'))

LEMMA ListsKeepMembers ==
    ASSUME [Next]_vars, open, open'
    PROVE  \/ UNCHANGED <<scope, rules, alert>>
           \/ /\ now' = now
              /\ scope' \in {scope, MemberIPs(members', now)}
              /\ RulesKeep(members')
<1>1. CASE Tick \/ Sweep
    BY <1>1 DEF Tick, Sweep, RulesKeep, ApplyPolicy, RulesApplied, RulesFailed
<1>2. CASE OnPeersChanged \/ OnMemberChannelUp
    <2>1. \E table, channel : PeersChanged(table, channel)
        BY <1>2 DEF OnPeersChanged, OnMemberChannelUp
    <2>2. now' = now
        BY <1>2 DEF OnPeersChanged, OnMemberChannelUp
    <2> QED BY <2>1, <2>2 DEF RulesKeep, PeersChanged, RulesApplied, RulesFailed, RestrictControlChannel
<1>3. CASE OnEngineDegraded
    BY <1>3 DEF OnEngineDegraded
<1>4. CASE OnTunnelUp
    BY <1>4 DEF RulesKeep, OnTunnelUp, RulesApplied, RestrictControlChannel
<1>5. CASE \/ ReapplyProtection \/ ActivateProfile \/ RenameRoom \/ RotateInviteCode
           \/ OnEngineRestarted
    BY <1>5 DEF RulesKeep, ReapplyProtection, ActivateProfile, RenameRoom, RotateInviteCode, host,
                OnEngineRestarted, ApplyPolicy, RulesApplied, RulesFailed, RestrictControlChannel
<1>6. ASSUME NEW k \in Key, IssueCredentialFor(k)
      PROVE  \/ UNCHANGED <<scope, rules, alert>>
             \/ /\ now' = now
                /\ scope' \in {scope, MemberIPs(members', now)}
                /\ RulesKeep(members')
    <2>1. /\ now' = now
          /\ \/ UNCHANGED <<scope, rules, alert>>
             \/ ApplyPolicy(members') /\ RestrictControlChannel(members')
        BY <1>6 DEF IssueCredentialFor, ReturnSeat, NewSeat
    <2> QED BY <2>1 DEF RulesKeep, ApplyPolicy, RulesApplied, RulesFailed, RestrictControlChannel
<1>7. ASSUME NEW a \in Addr, KickMember(a)
      PROVE  /\ now' = now
             /\ scope' \in {scope, MemberIPs(members', now)}
             /\ RulesKeep(members')
    BY <1>7 DEF RulesKeep, KickMember, RulesApplied, RestrictControlChannel
<1>8. CASE CreateRoom \/ ResumeRoom \/ CloseRoom \/ Crash \/ LeaveRoomOnShutdown
    BY <1>8 DEF CreateRoom, ResumeRoom, CloseRoom, Crash, LeaveRoomOnShutdown, NewProcess, RoomDown
<1>9. CASE \/ DiscardSavedRoom \/ EngineDies \/ PassTime
           \/ (\E a \in Addr : Arrive(a) \/ Depart(a)) \/ UNCHANGED vars
    BY <1>9 DEF DiscardSavedRoom, EngineDies, PassTime, Arrive, Depart, vars, host
<1> QED BY <1>1, <1>2, <1>3, <1>4, <1>5, <1>6, <1>7, <1>8, <1>9 DEF Next

\* Who has a seat, is let in and keeps the seat.
StaysIn ==
    \A a \in Addr :
        /\ Seat(members[a].cred, now) /\ a \in scope \cap rules
        /\ Seat(members'[a].cred, now')
        => a \in scope' \cap rules'

LEMMA SeatedStay ==
    ASSUME VetoInv', [Next]_vars, open, open'
    PROVE  StaysIn
<1> SUFFICES ASSUME NEW a \in Addr, a \in scope, a \in rules,
                    Seat(members'[a].cred, now')
             PROVE  a \in scope' /\ a \in rules'
    BY DEF StaysIn
<1>1. members'[a].kickedAt = NoVeto
    BY DEF VetoInv, VetoWithinHold, Seat
<1>2. now' = now => a \in MemberIPs(members', now)
    BY <1>1 DEF MemberIPs, IsMember
<1> QED BY <1>2, ListsKeepMembers DEF RulesKeep

\* Whoever has a seat and is let in by the listener and the firewall stays let
\* in while the seat and the room last, whatever fails and whoever is kicked,
\* comes or goes meanwhile.
THEOREM WhoIsSeatedStaysIn == Spec => AdmissionKept
<1>1. VetoInv' /\ [Next]_vars
        => [open /\ open' => \A a \in Addr :
                /\ Seat(members[a].cred, now) /\ a \in scope \cap rules
                /\ Seat(members'[a].cred, now')
                => a \in scope' \cap rules']_vars
    BY SeatedStay DEF StaysIn
<1> QED BY <1>1, VetoInductive, PTL DEF Spec, AdmissionKept

(***************************************************************************)
(* Whoever was revoked.  The mesh is the engine's: what keeps a revoked    *)
(* member out after their veto is that the engine lets go of them in less  *)
(* than the veto lasts, that the host has seen it, and that nobody comes   *)
(* back at an address the engine trusts no one at.                         *)
(***************************************************************************)

\* A kick that is not of this instant, or is no longer remembered.
Past(m, t) == m.kickedAt = NoVeto \/ m.kickedAt < t

MeshInv ==
    /\ VetoInv /\ TrustInv
    /\ open \/ mesh = {}
    /\ mesh \subseteq expelled \cup {r.addr : r \in trust}
    /\ \A a \in Addr : members[a].cred.revoked /\ Past(members[a], now) =>
            ~members[a].inMesh /\ a \notin mesh

\* Whoever is revoked in the new table was so in the old one, with no later
\* kick, and is seen in the mesh only if they were or are.
Follows(old, new) ==
    \A a \in Addr : new[a].cred.revoked =>
        /\ old[a].cred.revoked
        /\ new[a].inMesh => old[a].inMesh \/ a \in mesh
        /\ Past(new[a], now) => Past(old[a], now)

LEMMA FollowsTransitive ==
    ASSUME NEW x, NEW y, NEW z, Follows(x, y), Follows(y, z)
    PROVE  Follows(x, z)
BY DEF Follows

LEMMA ForgetFollows ==
    ASSUME NEW table \in Table, NEW channel, now \in Nat
    PROVE  Follows(table, Forget(table, channel, now))
<1> SUFFICES ASSUME NEW a \in Addr, Forget(table, channel, now)[a].cred.revoked
             PROVE  /\ table[a].cred.revoked
                    /\ Forget(table, channel, now)[a].inMesh => table[a].inMesh
                    /\ Past(Forget(table, channel, now)[a], now) => Past(table[a], now)
    BY DEF Follows
<1> DEFINE m == VetoLifted(table[a], now)
<1>1. Forget(table, channel, now)[a] \in {m, NoMember}
    BY DEF Forget
<1>2. ~NoMember.cred.revoked
    BY DEF NoMember, NoCred
<1>3. Forget(table, channel, now)[a] = m
    BY <1>1, <1>2
<1>4. table[a] \in Member
    BY DEF Table
<1>5. m.cred = table[a].cred /\ m.inMesh = table[a].inMesh
    BY <1>4 DEF VetoLifted, Member
<1>6. m = table[a] \/ (now - table[a].kickedAt >= KickGrace /\ table[a].kickedAt \in Nat)
    BY <1>4 DEF VetoLifted, Member
<1>7. m = table[a] \/ table[a].kickedAt < now
    BY <1>6, TimeAssumption
<1>8. Past(m, now) => Past(table[a], now)
    BY <1>7 DEF Past
<1> HIDE DEF m
<1> QED BY <1>3, <1>5, <1>8

LEMMA RefreshFollows ==
    ASSUME NEW table \in Table, NEW channel, now \in Nat
    PROVE  Follows(table, Refresh(table, mesh, channel, now))
<1> DEFINE seen == [a \in Addr |-> [table[a] EXCEPT !.inMesh = (a \in mesh)]]
<1>1. seen \in Table
    BY SeenType
<1>2. \A a \in Addr : /\ seen[a].cred = table[a].cred /\ seen[a].kickedAt = table[a].kickedAt
                      /\ seen[a].inMesh => a \in mesh
    BY DEF Table, Member
<1> HIDE DEF seen
<1>3. Follows(table, seen)
    BY <1>2 DEF Follows, Past
<1>4. Follows(seen, Forget(seen, channel, now))
    BY <1>1, ForgetFollows
<1>5. Refresh(table, mesh, channel, now) = Forget(seen, channel, now)
    BY DEF Refresh, seen
<1> QED BY <1>3, <1>4, <1>5, FollowsTransitive

LEMMA RenewalsFollow ==
    ASSUME NEW table \in Table, NEW at
    PROVE  Follows(table, WithRenewals(table, at))
<1>1. \A a \in Addr : LET m == WithRenewals(table, at)[a] IN
        /\ m.cred.revoked = table[a].cred.revoked
        /\ m.inMesh = table[a].inMesh /\ m.kickedAt = table[a].kickedAt
    BY DEF WithRenewals, Table, Member, Credential
<1> QED BY <1>1 DEF Follows, Past

\* A credential that is not revoked may be put anywhere.
LEMMA WithCredFollows ==
    ASSUME NEW table \in Table, NEW a \in Addr, NEW c, ~c.revoked
    PROVE  Follows(table, WithCred(table, a, c))
<1>1. \A b \in Addr : LET m == WithCred(table, a, c)[b] IN
        /\ m.cred = IF b = a THEN c ELSE table[b].cred
        /\ m.inMesh = table[b].inMesh /\ m.kickedAt = table[b].kickedAt
    BY DEF WithCred, Table, Member
<1> QED BY <1>1 DEF Follows, Past

\* Every handler that kicks no one leaves the revoked as they were, and the
\* engine trusts the addresses it trusted.
HostKeeps ==
    /\ Follows(members, members')
    /\ open /\ open' /\ now' = now /\ mesh' = mesh /\ expelled' = expelled
    /\ {r.addr : r \in trust} \subseteq {r.addr : r \in trust'}

LEMMA RenewedKeepsAddr ==
    ASSUME TypeOK, NEW ids, trust' = Renewed(ids)
    PROVE  {r.addr : r \in trust} \subseteq {r.addr : r \in trust'}
<1> SUFFICES ASSUME NEW r \in trust PROVE \E q \in trust' : q.addr = r.addr
    OBVIOUS
<1> DEFINE q == [r EXCEPT !.exp = IF r.id \in ids THEN now + CredentialTTL ELSE @]
<1>1. q \in trust'
    BY DEF Renewed
<1>2. q.addr = r.addr
    BY DEF TypeOK
<1> QED BY <1>1, <1>2

LEMMA TickKeeps ==
    ASSUME TypeOK, Tick \/ Sweep
    PROVE  HostKeeps
<1>1. PICK channel \in Channels :
        LET kept == Forget(members, channel, now)
        IN  \E at \in RenewalRound(kept) :
                members' = WithRenewals(kept, at) /\ Renewal(at, members')
    BY DEF Tick, Sweep
<1> DEFINE kept == Forget(members, channel, now)
<1>2. PICK at \in RenewalRound(kept) :
        members' = WithRenewals(kept, at) /\ Renewal(at, members')
    BY <1>1
<1>3. members \in Table /\ now \in Nat /\ kept \in Table
    BY ForgetType DEF TypeOK, Table
<1>4. Follows(members, kept)
    BY <1>3, ForgetFollows
<1> HIDE DEF kept
<1>5. Follows(kept, members')
    BY <1>2, <1>3, RenewalsFollow
<1>6. {r.addr : r \in trust} \subseteq {r.addr : r \in trust'}
    BY <1>2, RenewedKeepsAddr DEF Renewal
<1>7. open /\ open' /\ now' = now /\ mesh' = mesh /\ expelled' = expelled
    BY DEF Tick, Sweep
<1> QED BY <1>4, <1>5, <1>6, <1>7, FollowsTransitive DEF HostKeeps

LEMMA RereadKeeps ==
    ASSUME TypeOK, OnPeersChanged \/ OnEngineDegraded \/ OnTunnelUp
    PROVE  HostKeeps
<1>1. PICK channel \in Channels :
        LET kept == Forget(members, channel, now)
        IN  \E at \in RenewalRound(kept) :
                LET renewed == WithRenewals(kept, at)
                IN  Renewal(at, renewed) /\ members' = Refresh(renewed, mesh, channel, now)
    BY DEF OnPeersChanged, OnEngineDegraded, OnTunnelUp, PeersChanged
<1> DEFINE kept == Forget(members, channel, now)
<1>2. PICK at \in RenewalRound(kept) :
        LET renewed == WithRenewals(kept, at)
        IN  Renewal(at, renewed) /\ members' = Refresh(renewed, mesh, channel, now)
    BY <1>1
<1>3. members \in Table /\ kept \in Table /\ now \in Nat
    BY ForgetType DEF TypeOK, Table
<1>4. Follows(members, kept)
    BY <1>3, ForgetFollows
<1> HIDE DEF kept
<1> DEFINE renewed == WithRenewals(kept, at)
<1>5. renewed \in Table /\ Follows(kept, renewed)
    BY <1>3, WithRenewalsType, RenewalsFollow
<1> HIDE DEF renewed
<1>6. Renewal(at, renewed) /\ members' = Refresh(renewed, mesh, channel, now)
    BY <1>2 DEF renewed
<1>7. Follows(renewed, members')
    BY <1>3, <1>5, <1>6, RefreshFollows
<1>8. {r.addr : r \in trust} \subseteq {r.addr : r \in trust'}
    BY <1>6, RenewedKeepsAddr DEF Renewal
<1>9. open /\ open' /\ now' = now /\ mesh' = mesh /\ expelled' = expelled
    BY DEF OnPeersChanged, OnEngineDegraded, OnTunnelUp
<1> QED BY <1>4, <1>5, <1>7, <1>8, <1>9, FollowsTransitive DEF HostKeeps

LEMMA ChannelUpKeeps ==
    ASSUME TypeOK, OnMemberChannelUp
    PROVE  HostKeeps
<1>1. PICK channel \in Channels : members' = Refresh(members, mesh, channel, now)
    BY DEF OnMemberChannelUp, PeersChanged
<1>2. Follows(members, members')
    BY <1>1, RefreshFollows DEF TypeOK, Table
<1> QED BY <1>2 DEF HostKeeps, OnMemberChannelUp, world

LEMMA IssueKeeps ==
    ASSUME TypeOK, NEW k \in Key, IssueCredentialFor(k)
    PROVE  HostKeeps
<1>1. members \in Table /\ now \in Nat
    BY DEF TypeOK, Table
<1>2. ASSUME NEW table \in Table, NewSeat(table, k), Follows(members, table)
      PROVE  /\ Follows(members, members')
             /\ {r.addr : r \in trust} \subseteq {r.addr : r \in trust'}
    <2>1. CASE members' = table /\ UNCHANGED trust
        BY <1>2, <2>1
    <2>2. CASE /\ ~(Addr \subseteq Taken(table))
               /\ members' = WithCred(table, NextFree(table), NewCred(k))
               /\ trust' = trust \cup {Trust(NewCred(k), NextFree(table))}
        <3>1. NextFree(table) \in Addr /\ ~NewCred(k).revoked
            BY <2>2, NextFreeIsFree DEF NewCred
        <3>2. Follows(table, members')
            BY <2>2, <3>1, WithCredFollows
        <3> QED BY <1>2, <2>2, <3>2, FollowsTransitive
    <2> QED BY <1>2, <2>1, <2>2 DEF NewSeat
<1>3. ASSUME NEW a \in Holding(k), ReturnSeat(a)
      PROVE  /\ Follows(members, members')
             /\ {r.addr : r \in trust} \subseteq {r.addr : r \in trust'}
    <2> DEFINE c == [members[a].cred EXCEPT !.expiresAt = now + CredentialTTL]
    <2>1. a \in Addr /\ ~members[a].cred.revoked /\ members[a].cred \in Credential
        BY <1>1 DEF Holding, Seat, Table, Member
    <2>2. ~c.revoked
        BY <2>1 DEF Credential
    <2>3. members' = WithCred(members, a, c)
        BY <1>3 DEF ReturnSeat
    <2> HIDE DEF c
    <2>4. Follows(members, members')
        BY <1>1, <2>1, <2>2, <2>3, WithCredFollows
    <2> QED BY <1>3, <2>4, RenewedKeepsAddr DEF ReturnSeat
<1>4. ASSUME NEW a \in Holding(k), NewSeat(WithCred(members, a, NoCred), k)
      PROVE  /\ Follows(members, members')
             /\ {r.addr : r \in trust} \subseteq {r.addr : r \in trust'}
    <2>1. a \in Addr /\ ~NoCred.revoked
        BY DEF Holding, NoCred
    <2>2. WithCred(members, a, NoCred) \in Table
        BY <1>1, <2>1, WithCredType, NoCredType
    <2>3. Follows(members, WithCred(members, a, NoCred))
        BY <1>1, <2>1, WithCredFollows
    <2> QED BY <1>2, <1>4, <2>2, <2>3
<1>5. ASSUME NewSeat(members, k)
      PROVE  /\ Follows(members, members')
             /\ {r.addr : r \in trust} \subseteq {r.addr : r \in trust'}
    <2>1. Follows(members, members)
        BY DEF Follows
    <2> QED BY <1>1, <1>2, <1>5, <2>1
<1>6. open /\ open' /\ now' = now /\ mesh' = mesh /\ expelled' = expelled
    BY DEF IssueCredentialFor
<1> QED BY <1>3, <1>4, <1>5, <1>6 DEF IssueCredentialFor, HostKeeps

\* Handlers that do not touch the table, the clock, or the world.
LEMMA QuietKeeps ==
    ASSUME open,
           \/ ReapplyProtection \/ ActivateProfile \/ RenameRoom \/ RotateInviteCode
           \/ OnEngineRestarted \/ DiscardSavedRoom \/ UNCHANGED vars
    PROVE  HostKeeps
BY DEF HostKeeps, Follows, ReapplyProtection, ActivateProfile, RenameRoom, RotateInviteCode,
       OnEngineRestarted, DiscardSavedRoom, vars, host, world

\* What any of those steps has to show.
LEMMA MeshKept ==
    ASSUME MeshInv, HostKeeps
    PROVE  /\ mesh' \subseteq expelled' \cup {r.addr : r \in trust'}
           /\ \A a \in Addr : members'[a].cred.revoked /\ Past(members'[a], now') =>
                    ~members'[a].inMesh /\ a \notin mesh'
BY DEF MeshInv, HostKeeps, Follows

\* The kick: what the engine stops trusting at an address of the mesh is the
\* session it is closing.
LEMMA KickMesh ==
    ASSUME MeshInv, NEW a \in Addr, KickMember(a), "revoke" \notin Fault
    PROVE  /\ mesh' \subseteq expelled' \cup {r.addr : r \in trust'}
           /\ \A b \in Addr : members'[b].cred.revoked /\ Past(members'[b], now') =>
                    ~members'[b].inMesh /\ b \notin mesh'
<1>1. TypeOK /\ SeatInv /\ Backed(members, trust, now) /\ mesh' = mesh /\ now' = now
    BY DEF MeshInv, TrustInv, VetoInv, KickMember
<1>2. PICK done \in BOOLEAN : Revocation(a, done)
    BY DEF KickMember
<1>3. ASSUME NEW r \in trust, r.id = members[a].cred.id
      PROVE  r.addr = a
    <2>1. r.addr \in Addr /\ members[r.addr].cred.id = r.id /\ r.id # 0
        BY <1>1 DEF TypeOK, Backed
    <2>2. SeatsApart(Entries(members), now, requests)
        BY <1>1 DEF SeatInv
    <2> QED BY <1>3, <2>1, <2>2 DEF SeatsApart, Entries
<1>4. mesh' \subseteq expelled' \cup {r.addr : r \in trust'}
    <2> SUFFICES ASSUME NEW b \in mesh, b \notin expelled'
                 PROVE  \E r \in trust' : r.addr = b
        BY <1>1
    <2>1. expelled \subseteq expelled'
        BY <1>2 DEF Revocation
    <2>2. PICK r \in trust : r.addr = b
        BY <2>1 DEF MeshInv
    <2>3. CASE r.id = members[a].cred.id
        <3>1. b = a /\ Trusted(members[a].cred)
            BY <1>3, <2>2, <2>3 DEF Trusted
        <3>2. expelled' # expelled \cup ({a} \cap mesh)
            BY <3>1
        <3>3. trust' = trust
            BY <1>2, <3>1, <3>2 DEF Revocation
        <3> QED BY <2>2, <3>3
    <2>4. CASE r.id # members[a].cred.id
        BY <1>2, <2>2, <2>4 DEF Revocation
    <2> QED BY <2>3, <2>4
<1>5. \A b \in Addr \ {a} : members'[b] = members[b]
    BY <1>1 DEF KickMember, TypeOK
<1>6. ~Past(members'[a], now')
    <2>1. members'[a].kickedAt = now
        BY <1>1 DEF KickMember, Kicked, TypeOK, Member
    <2>2. now \in Nat
        BY <1>1 DEF TypeOK
    <2> QED BY <1>1, <2>1, <2>2 DEF Past, NoVeto
<1>7. ASSUME NEW b \in Addr, members'[b].cred.revoked, Past(members'[b], now')
      PROVE  ~members'[b].inMesh /\ b \notin mesh'
    BY <1>1, <1>5, <1>6, <1>7 DEF MeshInv
<1> QED BY <1>4, <1>7

\* The clock only moves once the engine has let go of whoever it was closing and
\* the host has seen the mesh as it is.
LEMMA ClockMesh ==
    ASSUME MeshInv, PassTime, "meshWatch" \notin Fault
    PROVE  /\ open' \/ mesh' = {}
           /\ mesh' \subseteq expelled' \cup {r.addr : r \in trust'}
           /\ \A a \in Addr : members'[a].cred.revoked /\ Past(members'[a], now') =>
                    ~members'[a].inMesh /\ a \notin mesh'
<1>1. UNCHANGED <<open, members, mesh>> /\ expelled' = mesh \cap {r.addr : r \in trust \ trust'}
    BY DEF PassTime, host
<1>2. CASE ~open
    <2>1. mesh = {} /\ members = EmptyTable
        BY <1>2 DEF MeshInv, VetoInv, VetoWithinHold
    <2>2. \A a \in Addr : ~EmptyTable[a].cred.revoked
        BY DEF EmptyTable, NoMember, NoCred
    <2> QED BY <1>1, <2>1, <2>2
<1>3. CASE open
    <2>1. mesh \subseteq {r.addr : r \in trust} /\ HostSeesMesh
        BY <1>3 DEF MeshInv, PassTime
    <2>2. mesh' \subseteq expelled' \cup {r.addr : r \in trust'}
        BY <1>1, <2>1
    <2>3. \A a \in Addr : members[a].cred.revoked => a \notin mesh
        BY <2>1 DEF MeshInv, TrustInv, Backed
    <2> QED BY <1>1, <1>3, <2>1, <2>2, <2>3 DEF HostSeesMesh
<1> QED BY <1>2, <1>3

LEMMA MeshNext ==
    ASSUME MeshInv, [Next]_vars,
           Fault \cap {"revoke", "renewTimeout", "meshWatch", "linger"} = {}
    PROVE  MeshInv'
<1>1. VetoInv' /\ TrustInv'
    <2>1. Fault \cap {"revoke", "renewTimeout"} = {}
        OBVIOUS
    <2>2. TrustInv'
        BY <2>1, TrustNext DEF MeshInv
    <2>3. VetoInv'
        BY VetoNext DEF MeshInv
    <2> QED BY <2>2, <2>3
<1>2. "revoke" \notin Fault /\ "meshWatch" \notin Fault /\ "linger" \notin Fault
    BY Zenon
<1>3. TypeOK
    BY DEF MeshInv, VetoInv
<1>4. \A a \in Addr : ~EmptyTable[a].cred.revoked
    BY DEF EmptyTable, NoMember, NoCred
<1>5. CASE HostKeeps
    BY <1>1, <1>5, MeshKept DEF MeshInv, HostKeeps
<1>6. CASE \/ Tick \/ Sweep \/ OnPeersChanged \/ OnEngineDegraded \/ OnTunnelUp
           \/ OnMemberChannelUp \/ (\E k \in Key : IssueCredentialFor(k))
    BY <1>3, <1>5, <1>6, TickKeeps, RereadKeeps, ChannelUpKeeps, IssueKeeps
<1>7. CASE \/ ReapplyProtection \/ ActivateProfile \/ RenameRoom \/ RotateInviteCode
           \/ OnEngineRestarted \/ DiscardSavedRoom \/ UNCHANGED vars
    <2>1. CASE open
        BY <1>5, <1>7, <2>1, QuietKeeps
    <2>2. CASE ~open
        <3>1. UNCHANGED <<open, members, trust, mesh, expelled, now>>
            BY <1>7, <2>2 DEF ReapplyProtection, ActivateProfile, RenameRoom, RotateInviteCode,
                              OnEngineRestarted, DiscardSavedRoom, vars, host, world
        <3> QED BY <1>1, <3>1 DEF MeshInv
    <2> QED BY <2>1, <2>2
<1>8. CASE \E a \in Addr : KickMember(a)
    <2>1. PICK a \in Addr : KickMember(a)
        BY <1>8
    <2>2. open'
        BY <2>1 DEF KickMember
    <2> QED BY <1>1, <1>2, <2>1, <2>2, KickMesh DEF MeshInv
<1>9. CASE CreateRoom \/ ResumeRoom
    <2>1. mesh' = {} /\ open'
        BY <1>9 DEF CreateRoom, ResumeRoom, MeshInv, world
    <2>2. \A a \in Addr : ~members'[a].inMesh
        <3>1. CASE CreateRoom
            <4>1. members' = EmptyTable
                BY <3>1 DEF CreateRoom, MeshInv, VetoInv, VetoWithinHold
            <4> QED BY <4>1 DEF EmptyTable, NoMember
        <3>2. CASE ResumeRoom
            BY <3>2 DEF ResumeRoom, EmptyTable, Loaded, NoMember
        <3> QED BY <1>9, <3>1, <3>2
    <2> QED BY <1>1, <2>1, <2>2 DEF MeshInv
<1>10. CASE CloseRoom \/ Crash \/ LeaveRoomOnShutdown
    <2>1. mesh' = {} /\ members' = EmptyTable
        BY <1>2, <1>10 DEF CloseRoom, Crash, LeaveRoomOnShutdown, NewProcess, RoomDown
    <2> QED BY <1>1, <1>4, <2>1 DEF MeshInv
<1>11. CASE EngineDies
    <2>1. mesh' = {} /\ UNCHANGED <<open, members, now>> /\ open
        BY <1>2, <1>11 DEF EngineDies, host
    <2> QED BY <1>1, <2>1 DEF MeshInv
<1>12. CASE \E a \in Addr : Arrive(a)
    <2>1. PICK a \in Addr : Arrive(a)
        BY <1>12
    <2>2. PICK r \in trust : r.addr = a
        BY <2>1 DEF Arrive
    <2>3. ~members[a].cred.revoked
        BY <2>2 DEF MeshInv, TrustInv, Backed
    <2>4. /\ UNCHANGED <<open, members, trust, expelled, now>> /\ open /\ mesh' = mesh \cup {a}
        BY <2>1 DEF Arrive, host
    <2> QED BY <1>1, <2>2, <2>3, <2>4 DEF MeshInv
<1>13. CASE \E a \in Addr : Depart(a)
    <2>1. PICK a \in Addr : Depart(a)
        BY <1>13
    <2>2. /\ UNCHANGED <<open, members, trust, now>>
          /\ mesh' = mesh \ {a} /\ expelled' = expelled \ {a}
        BY <2>1 DEF Depart, host
    <2> QED BY <1>1, <2>2 DEF MeshInv
<1>14. CASE PassTime
    BY <1>1, <1>2, <1>14, ClockMesh DEF MeshInv
<1> QED BY <1>6, <1>7, <1>8, <1>9, <1>10, <1>11, <1>12, <1>13, <1>14 DEF Next

\* No one revoked is a member of the table: the veto, and then the mesh, say no.
LEMMA RevokedIsNoMember ==
    ASSUME NEW table, NEW t, NEW a, table[a].cred.revoked,
           Past(table[a], t) => ~table[a].inMesh
    PROVE  a \notin MemberIPs(table, t)
BY DEF Past, MemberIPs, IsMember, Seat

\* A member revoked in this step is one that was kicked in it.
LEMMA RevokedBefore ==
    ASSUME MeshInv, [Next]_vars, open, open', NEW a \in Addr, members'[a].cred.revoked
    PROVE  members[a].cred.revoked \/ KickMember(a)
<1>1. TypeOK
    BY DEF MeshInv, VetoInv
<1>2. CASE HostKeeps
    BY <1>2 DEF HostKeeps, Follows
<1>3. CASE \/ Tick \/ Sweep \/ OnPeersChanged \/ OnEngineDegraded \/ OnTunnelUp
           \/ OnMemberChannelUp \/ (\E k \in Key : IssueCredentialFor(k))
    BY <1>1, <1>2, <1>3, TickKeeps, RereadKeeps, ChannelUpKeeps, IssueKeeps
<1>4. CASE \/ ReapplyProtection \/ ActivateProfile \/ RenameRoom \/ RotateInviteCode
           \/ OnEngineRestarted \/ DiscardSavedRoom \/ UNCHANGED vars
    BY <1>2, <1>4, QuietKeeps
<1>5. CASE EngineDies \/ PassTime \/ \E b \in Addr : Arrive(b) \/ Depart(b)
    BY <1>5 DEF EngineDies, PassTime, Arrive, Depart, host
<1>6. ASSUME NEW b \in Addr, KickMember(b), b # a
      PROVE  members[a].cred.revoked
    BY <1>1, <1>6 DEF KickMember, TypeOK
<1>7. ~(CreateRoom \/ ResumeRoom \/ CloseRoom \/ Crash \/ LeaveRoomOnShutdown)
    BY DEF CreateRoom, ResumeRoom, CloseRoom, Crash, LeaveRoomOnShutdown, NewProcess, RoomDown
<1> QED BY <1>3, <1>4, <1>5, <1>6, <1>7 DEF Next

\* A kick takes its target out of the scope, and out of the rules or raises the
\* alert.
LEMMA KickShuts ==
    ASSUME MeshInv', NEW a \in Addr, KickMember(a), members'[a].cred.revoked
    PROVE  a \notin scope' /\ (a \in rules' => alert')
<1>1. a \notin MemberIPs(members', now')
    BY RevokedIsNoMember DEF MeshInv
<1>2. now' = now
    BY DEF KickMember
<1> QED BY <1>1, <1>2 DEF KickMember, RestrictControlChannel, RulesApplied

LEMMA RevokedNext ==
    ASSUME MeshInv, MeshInv', [Next]_vars, RevokedNeverAuthorised
    PROVE  RevokedNeverAuthorised'
<1> SUFFICES ASSUME open', NEW a \in Addr, members'[a].cred.revoked
             PROVE  a \notin scope' /\ (a \in rules' => alert')
    BY DEF RevokedNeverAuthorised
<1>1. a \notin MemberIPs(members', now')
    BY RevokedIsNoMember DEF MeshInv
<1>2. CASE KickMember(a)
    BY <1>2, KickShuts
<1>3. CASE open /\ ~KickMember(a)
    <2>1. members[a].cred.revoked
        BY <1>3, RevokedBefore
    <2>2. a \notin scope /\ (a \in rules => alert)
        BY <1>3, <2>1 DEF RevokedNeverAuthorised
    <2>3. CASE UNCHANGED <<scope, rules, alert>>
        BY <2>2, <2>3
    <2>4. CASE /\ now' = now
               /\ scope' \in {scope, MemberIPs(members', now)}
               /\ RulesKeep(members')
        BY <1>1, <2>2, <2>4 DEF RulesKeep
    <2> QED BY <1>3, <2>3, <2>4, ListsKeepMembers
<1>4. CASE ~open
    <2>1. CASE CreateRoom \/ ResumeRoom
        BY <2>1 DEF CreateRoom, ResumeRoom
    <2>2. CASE UNCHANGED open
        BY <1>4, <2>2
    <2> QED BY <1>4, <2>1, <2>2 DEF Next, Tick, Sweep, OnPeersChanged, OnEngineDegraded,
            OnTunnelUp, OnMemberChannelUp, IssueCredentialFor, KickMember, ReapplyProtection,
            ActivateProfile, RenameRoom, RotateInviteCode, OnEngineRestarted, DiscardSavedRoom,
            CloseRoom, Crash, LeaveRoomOnShutdown, NewProcess, RoomDown, EngineDies, Arrive,
            Depart, PassTime, vars, host
<1> QED BY <1>2, <1>3, <1>4

LEMMA MeshInitially == Init => MeshInv
<1> SUFFICES ASSUME Init PROVE MeshInv
    OBVIOUS
<1>1. \A a \in Addr : EmptyTable[a].kickedAt = NoVeto /\ ~EmptyTable[a].cred.revoked
    BY DEF EmptyTable, NoMember, NoCred
<1>2. VetoInv
    BY <1>1, TypeInitially DEF Init, VetoInv, VetoWithinHold, VetoExcludes
<1>3. TrustInv
    BY SeatInitially DEF Init, TrustInv, Backed
<1> QED BY <1>1, <1>2, <1>3 DEF Init, MeshInv

LEMMA MeshInductive ==
    ASSUME Fault \cap {"revoke", "renewTimeout", "meshWatch", "linger"} = {}
    PROVE  Spec => []MeshInv
<1>1. MeshInv /\ [Next]_vars => MeshInv'
    BY MeshNext
<1> QED BY <1>1, MeshInitially, PTL DEF Spec

\* A revocation that the engine carries out is for good: when the veto is over
\* the listener and the firewall go on shutting out whoever was kicked, unless
\* the alert says otherwise.  Writes that fail, rules that fail, ids the engine
\* has forgotten, crashes and reopenings make no difference.
THEOREM RevokedStayOut ==
    ASSUME Fault \cap {"revoke", "renewTimeout", "meshWatch", "linger"} = {}
    PROVE  Spec => []RevokedNeverAuthorised
<1>1. Init => RevokedNeverAuthorised
    BY DEF Init, RevokedNeverAuthorised
<1>2. MeshInv /\ MeshInv' /\ [Next]_vars /\ RevokedNeverAuthorised => RevokedNeverAuthorised'
    BY RevokedNext
<1>3. Spec => []MeshInv
    BY MeshInductive
<1> QED BY <1>1, <1>2, <1>3, PTL DEF Spec

(***************************************************************************)
(* The listener and the firewall.  A handler that reads the members again  *)
(* moves the scope only if the peers it shows change, so what keeps the    *)
(* listener open to a member is that no reading makes a member of someone  *)
(* who was none: whoever comes into the mesh had a seat.                   *)
(***************************************************************************)

\* Of this table, no one is left out of the listener, and reading the mesh
\* again makes no new member.
Settled(table) ==
    /\ MemberIPs(table, now) \subseteq scope
    /\ \A a \in Addr : table[a].kickedAt # NoVeto => table[a].cred.revoked
    /\ \A a \in Addr : table[a].cred.revoked /\ Past(table[a], now) =>
            ~table[a].inMesh /\ a \notin mesh
    /\ \A a \in expelled : table[a].kickedAt = NoVeto => table[a].inMesh
    /\ \A a \in mesh : a \in expelled \/ Seat(table[a].cred, now)

LEMMA ForgetSettles ==
    ASSUME TypeOK, NEW table \in Table, NEW channel, Settled(table)
    PROVE  Settled(Forget(table, channel, now))
<1> DEFINE new == Forget(table, channel, now)
<1>1. now \in Nat /\ mesh \subseteq Addr /\ expelled \subseteq mesh
    BY DEF TypeOK
<1>2. ASSUME NEW a \in Addr
      PROVE  \/ new[a] = table[a]
             \/ /\ new[a] = [table[a] EXCEPT !.kickedAt = NoVeto]
                /\ table[a].kickedAt # NoVeto /\ Past(table[a], now)
             \/ /\ new[a] = NoMember
                /\ ~table[a].inMesh /\ ~Live(table[a].cred, now)
                /\ table[a].kickedAt = NoVeto \/ Past(table[a], now)
    <2>1. table[a] \in Member
        BY DEF Table
    <2>2. \/ VetoLifted(table[a], now) = table[a]
          \/ /\ VetoLifted(table[a], now) = [table[a] EXCEPT !.kickedAt = NoVeto]
             /\ table[a].kickedAt # NoVeto /\ now - table[a].kickedAt >= KickGrace
        BY DEF VetoLifted
    <2>3. ASSUME table[a].kickedAt # NoVeto, now - table[a].kickedAt >= KickGrace
          PROVE  Past(table[a], now)
        BY <1>1, <2>1, <2>3, TimeAssumption DEF Past, Member
    <2>4. /\ VetoLifted(table[a], now).inMesh = table[a].inMesh
          /\ VetoLifted(table[a], now).cred = table[a].cred
        BY <2>1, <2>2 DEF Member
    <2>5. \/ new[a] = VetoLifted(table[a], now)
          \/ /\ new[a] = NoMember
             /\ ~VetoLifted(table[a], now).inMesh
             /\ ~Live(VetoLifted(table[a], now).cred, now)
             /\ VetoLifted(table[a], now).kickedAt = NoVeto
        BY DEF Forget
    <2>6. CASE new[a] = VetoLifted(table[a], now)
        BY <2>2, <2>3, <2>6
    <2>7. CASE /\ new[a] = NoMember
               /\ ~VetoLifted(table[a], now).inMesh
               /\ ~Live(VetoLifted(table[a], now).cred, now)
               /\ VetoLifted(table[a], now).kickedAt = NoVeto
        BY <2>2, <2>3, <2>4, <2>7
    <2> QED BY <2>5, <2>6, <2>7
<1>3. /\ NoMember.kickedAt = NoVeto /\ ~NoMember.inMesh /\ ~NoMember.cred.revoked
      /\ ~Live(NoMember.cred, now)
    BY DEF NoMember, NoCred, Live
<1> HIDE DEF new
<1>4. ASSUME NEW a \in Addr, ~(new[a] = table[a])
      PROVE  /\ ~IsMember(new[a], now) \/ IsMember(table[a], now)
             /\ new[a].kickedAt = NoVeto
             /\ ~new[a].inMesh \/ ~new[a].cred.revoked
             /\ a \notin mesh
    <2>1. CASE /\ new[a] = [table[a] EXCEPT !.kickedAt = NoVeto]
               /\ table[a].kickedAt # NoVeto /\ Past(table[a], now)
        <3>1. new[a].kickedAt = NoVeto /\ new[a].cred = table[a].cred
            BY <2>1 DEF Table, Member
        <3>2. table[a].cred.revoked /\ ~table[a].inMesh /\ a \notin mesh
            BY <2>1 DEF Settled
        <3>3. new[a].inMesh = table[a].inMesh
            BY <2>1 DEF Table, Member
        <3>4. ~IsMember(new[a], now)
            BY <3>1, <3>2, <3>3 DEF IsMember, Seat
        <3> QED BY <3>1, <3>2, <3>3, <3>4
    <2>2. CASE /\ new[a] = NoMember
               /\ ~table[a].inMesh /\ ~Live(table[a].cred, now)
               /\ table[a].kickedAt = NoVeto \/ Past(table[a], now)
        <3>1. a \notin mesh
            BY <1>1, <2>2 DEF Settled, Seat
        <3> QED BY <1>3, <2>2, <3>1 DEF IsMember, Seat
    <2> QED BY <1>2, <1>4, <2>1, <2>2
<1>5. Settled(new)
    BY <1>1, <1>4 DEF Settled, MemberIPs
<1> QED BY <1>5 DEF new

LEMMA SeenSettles ==
    ASSUME TypeOK, NEW table \in Table, Settled(table),
           NEW new, new = [a \in Addr |-> [table[a] EXCEPT !.inMesh = (a \in mesh)]]
    PROVE  Settled(new)
<1>1. \A a \in Addr : /\ new[a].cred = table[a].cred /\ new[a].kickedAt = table[a].kickedAt
                      /\ new[a].inMesh <=> a \in mesh
    BY DEF Table, Member
<1>2. mesh \subseteq Addr /\ expelled \subseteq mesh
    BY DEF TypeOK
<1>3. ASSUME NEW a \in Addr, IsMember(new[a], now) PROVE a \in scope
    <2>1. table[a].kickedAt = NoVeto /\ (a \in mesh \/ Seat(table[a].cred, now))
        BY <1>1, <1>3 DEF IsMember
    <2>2. table[a].inMesh \/ Seat(table[a].cred, now)
        BY <2>1 DEF Settled
    <2> QED BY <2>1, <2>2 DEF IsMember, Settled, MemberIPs
<1>4. \A a \in Addr : new[a].cred.revoked /\ Past(new[a], now) => ~new[a].inMesh /\ a \notin mesh
    BY <1>1 DEF Settled, Past
<1> QED BY <1>1, <1>2, <1>3, <1>4 DEF Settled, MemberIPs

LEMMA RefreshSettles ==
    ASSUME TypeOK, NEW table \in Table, NEW channel, Settled(table)
    PROVE  Settled(Refresh(table, mesh, channel, now))
<1> DEFINE seen == [a \in Addr |-> [table[a] EXCEPT !.inMesh = (a \in mesh)]]
<1>1. seen \in Table /\ Settled(seen)
    BY SeenType, SeenSettles
<1> HIDE DEF seen
<1> QED BY <1>1, ForgetSettles DEF Refresh, seen

LEMMA RenewalsSettle ==
    ASSUME TypeOK, NEW table \in Table, NEW at \in RenewalRound(table), Settled(table)
    PROVE  Settled(WithRenewals(table, at))
<1> DEFINE new == WithRenewals(table, at)
<1>1. \A a \in at : Seat(table[a].cred, now)
    BY DEF RenewalRound, RenewalDue
<1>2. now \in Nat /\ now < now + CredentialTTL /\ mesh \subseteq Addr /\ expelled \subseteq mesh
    BY TimeAssumption DEF TypeOK
<1>3. \A a \in Addr :
        /\ new[a].inMesh = table[a].inMesh /\ new[a].kickedAt = table[a].kickedAt
        /\ new[a].cred.revoked = table[a].cred.revoked
        /\ Seat(new[a].cred, now) <=> Seat(table[a].cred, now)
    <2> SUFFICES ASSUME NEW a \in Addr
                 PROVE  /\ new[a].inMesh = table[a].inMesh /\ new[a].kickedAt = table[a].kickedAt
                        /\ new[a].cred.revoked = table[a].cred.revoked
                        /\ Seat(new[a].cred, now) <=> Seat(table[a].cred, now)
        OBVIOUS
    <2>1. table[a] \in Member /\ table[a].cred \in Credential
        BY DEF Table, Member
    <2>2. CASE a \in at
        <3>1. new[a] = [table[a] EXCEPT !.cred.expiresAt = now + CredentialTTL]
            BY <2>2 DEF WithRenewals
        <3>2. /\ new[a].inMesh = table[a].inMesh /\ new[a].kickedAt = table[a].kickedAt
              /\ new[a].cred.revoked = table[a].cred.revoked /\ new[a].cred.id = table[a].cred.id
              /\ new[a].cred.expiresAt = now + CredentialTTL
            BY <2>1, <3>1 DEF Member, Credential
        <3>3. Seat(table[a].cred, now)
            BY <1>1, <2>2
        <3> HIDE DEF new
        <3>4. Seat(new[a].cred, now)
            BY <1>2, <3>2, <3>3 DEF Seat, Live
        <3> QED BY <3>2, <3>3, <3>4
    <2>3. CASE a \notin at
        BY <2>3 DEF WithRenewals
    <2> QED BY <2>2, <2>3
<1> HIDE DEF new
<1>4. \A a \in Addr : IsMember(new[a], now) => IsMember(table[a], now)
    BY <1>3 DEF IsMember
<1>5. \A a \in Addr : Past(new[a], now) => Past(table[a], now)
    BY <1>3 DEF Past
<1>6. Settled(new)
    BY <1>2, <1>3, <1>4, <1>5 DEF Settled, MemberIPs
<1> QED BY <1>6 DEF new

\* No one is left out of the listener, and whoever the engine is closing the
\* session of has been seen in the mesh, or kicked.
Admitted ==
    open => /\ MemberIPs(members, now) \subseteq scope
            /\ \A a \in expelled : members[a].kickedAt = NoVeto => members[a].inMesh

\* In the life of one process no room is taken back and no engine dies.
OneLife == saved = NoRoom /\ restarts = 0

LEMMA AdmittedSettles ==
    ASSUME MeshInv, Admitted, open
    PROVE  Settled(members)
<1>1. TypeOK /\ Backed(members, trust, now)
    BY DEF MeshInv, VetoInv, TrustInv
<1>2. \A a \in Addr : members[a].kickedAt # NoVeto => members[a].cred.revoked
    BY DEF MeshInv, VetoInv, VetoWithinHold
<1>3. ASSUME NEW a \in mesh, a \notin expelled
      PROVE  Seat(members[a].cred, now)
    <2>1. PICK r \in trust : r.addr = a
        BY <1>3 DEF MeshInv
    <2> QED BY <1>1, <2>1 DEF Backed, Seat, Live
<1> QED BY <1>2, <1>3 DEF Settled, MeshInv, Admitted

LEMMA SettledAdmits ==
    ASSUME TypeOK, Settled(members'), now' = now, expelled' = expelled,
           scope' \in {scope, MemberIPs(members', now)}
    PROVE  Admitted'
BY DEF Settled, Admitted

LEMMA TickAdmits ==
    ASSUME MeshInv, Admitted, Tick \/ Sweep
    PROVE  Admitted'
<1>1. PICK channel \in Channels :
        LET kept == Forget(members, channel, now)
        IN  \E at \in RenewalRound(kept) : members' = WithRenewals(kept, at)
    BY DEF Tick, Sweep
<1> DEFINE kept == Forget(members, channel, now)
<1>2. PICK at \in RenewalRound(kept) : members' = WithRenewals(kept, at)
    BY <1>1
<1>3. TypeOK /\ members \in Table /\ kept \in Table
    BY ForgetType DEF MeshInv, VetoInv, TypeOK, Table
<1>4. open /\ now' = now /\ expelled' = expelled /\ scope' = scope
    BY DEF Tick, Sweep
<1>5. Settled(kept)
    BY <1>3, <1>4, AdmittedSettles, ForgetSettles
<1> HIDE DEF kept
<1>6. Settled(members')
    BY <1>2, <1>3, <1>5, RenewalsSettle
<1> QED BY <1>3, <1>4, <1>6, SettledAdmits

LEMMA RereadAdmits ==
    ASSUME MeshInv, Admitted, OnPeersChanged \/ OnEngineDegraded \/ OnTunnelUp
    PROVE  Admitted'
<1>1. PICK channel \in Channels :
        LET kept == Forget(members, channel, now)
        IN  \E at \in RenewalRound(kept) :
                LET renewed == WithRenewals(kept, at)
                IN  members' = Refresh(renewed, mesh, channel, now)
    BY DEF OnPeersChanged, OnEngineDegraded, OnTunnelUp, PeersChanged
<1> DEFINE kept == Forget(members, channel, now)
<1>2. PICK at \in RenewalRound(kept) :
        members' = Refresh(WithRenewals(kept, at), mesh, channel, now)
    BY <1>1
<1>3. TypeOK /\ members \in Table /\ kept \in Table
    BY ForgetType DEF MeshInv, VetoInv, TypeOK, Table
<1>4. open /\ now' = now /\ expelled' = expelled
    BY DEF OnPeersChanged, OnEngineDegraded, OnTunnelUp
<1>5. scope' \in {scope, MemberIPs(members', now)}
    <2>1. CASE OnPeersChanged
        <3>1. \E table, c : PeersChanged(table, c)
            BY <2>1 DEF OnPeersChanged
        <3> QED BY <3>1 DEF PeersChanged, RestrictControlChannel
    <2>2. CASE OnEngineDegraded
        BY <2>2 DEF OnEngineDegraded
    <2>3. CASE OnTunnelUp
        BY <2>3 DEF OnTunnelUp, RestrictControlChannel
    <2> QED BY <2>1, <2>2, <2>3
<1>6. Settled(kept)
    BY <1>3, <1>4, AdmittedSettles, ForgetSettles
<1> HIDE DEF kept
<1>7. Settled(WithRenewals(kept, at))
    BY <1>3, <1>6, RenewalsSettle
<1>8. WithRenewals(kept, at) \in Table
    BY <1>3, WithRenewalsType DEF TypeOK
<1>9. Settled(members')
    BY <1>2, <1>3, <1>7, <1>8, RefreshSettles
<1> QED BY <1>3, <1>4, <1>5, <1>9, SettledAdmits

LEMMA ChannelUpAdmits ==
    ASSUME MeshInv, Admitted, OnMemberChannelUp
    PROVE  Admitted'
<1>1. PICK channel \in Channels : members' = Refresh(members, mesh, channel, now)
    BY DEF OnMemberChannelUp, PeersChanged
<1>2. TypeOK /\ members \in Table
    BY DEF MeshInv, VetoInv, TypeOK, Table
<1>3. open /\ now' = now /\ expelled' = expelled
    BY DEF OnMemberChannelUp, world
<1>4. scope' \in {scope, MemberIPs(members', now)}
    BY DEF OnMemberChannelUp, PeersChanged, RestrictControlChannel
<1>5. Settled(members)
    BY <1>3, AdmittedSettles
<1>6. Settled(members')
    BY <1>1, <1>2, <1>5, RefreshSettles
<1> QED BY <1>2, <1>3, <1>4, <1>6, SettledAdmits

\* A request that gives no seat, or drops one, makes no member.
LEMMA IssueAdmits ==
    ASSUME MeshInv, Admitted, NEW k \in Key, IssueCredentialFor(k)
    PROVE  Admitted'
<1>1. /\ members \in Table /\ now' = now /\ expelled' = expelled /\ open
      /\ expelled \subseteq Addr
    BY DEF MeshInv, VetoInv, TypeOK, Table, IssueCredentialFor
<1>2. \A a \in expelled : members[a].kickedAt = NoVeto => members[a].inMesh
    BY <1>1 DEF Admitted
<1>3. ASSUME NEW table \in Table, NEW a \in Addr, NEW c
      PROVE  /\ \A b \in Addr : /\ WithCred(table, a, c)[b].inMesh = table[b].inMesh
                                /\ WithCred(table, a, c)[b].kickedAt = table[b].kickedAt
             /\ \A b \in Addr \ {a} : WithCred(table, a, c)[b] = table[b]
             /\ WithCred(table, a, c)[a].cred = c
    BY DEF WithCred, Table, Member
<1>4. \A b \in Addr : /\ members'[b].inMesh = members[b].inMesh
                      /\ members'[b].kickedAt = members[b].kickedAt
    <2>1. ASSUME NEW table \in Table, NewSeat(table, k),
                 \A b \in Addr : /\ table[b].inMesh = members[b].inMesh
                                 /\ table[b].kickedAt = members[b].kickedAt
          PROVE  \A b \in Addr : /\ members'[b].inMesh = members[b].inMesh
                                 /\ members'[b].kickedAt = members[b].kickedAt
        <3>1. CASE members' = table
            BY <2>1, <3>1
        <3>2. CASE /\ ~(Addr \subseteq Taken(table))
                   /\ members' = WithCred(table, NextFree(table), NewCred(k))
            BY <1>3, <2>1, <3>2, NextFreeIsFree
        <3> QED BY <2>1, <3>1, <3>2 DEF NewSeat
    <2>2. ASSUME NEW a \in Holding(k), ReturnSeat(a)
          PROVE  \A b \in Addr : /\ members'[b].inMesh = members[b].inMesh
                                 /\ members'[b].kickedAt = members[b].kickedAt
        BY <1>1, <1>3, <2>2 DEF ReturnSeat, Holding
    <2>3. ASSUME NEW a \in Holding(k), NewSeat(WithCred(members, a, NoCred), k)
          PROVE  \A b \in Addr : /\ members'[b].inMesh = members[b].inMesh
                                 /\ members'[b].kickedAt = members[b].kickedAt
        <3>1. a \in Addr /\ WithCred(members, a, NoCred) \in Table
            BY <1>1, WithCredType, NoCredType DEF Holding
        <3> QED BY <1>1, <1>3, <2>1, <2>3, <3>1
    <2>4. ASSUME NewSeat(members, k)
          PROVE  \A b \in Addr : /\ members'[b].inMesh = members[b].inMesh
                                 /\ members'[b].kickedAt = members[b].kickedAt
        BY <1>1, <2>1, <2>4
    <2> QED BY <2>2, <2>3, <2>4 DEF IssueCredentialFor
<1>5. MemberIPs(members', now) \subseteq scope'
    <2>1. CASE RestrictControlChannel(members')
        BY <2>1 DEF RestrictControlChannel
    <2>2. CASE scope' = scope /\ \A b \in Addr : members'[b].cred \in {members[b].cred, NoCred}
        <3>1. ~Seat(NoCred, now)
            BY DEF Seat, Live, NoCred
        <3> QED BY <1>1, <1>4, <2>2, <3>1 DEF MemberIPs, IsMember, Admitted
    <2>3. ASSUME NEW table \in Table, NewSeat(table, k),
                 \A b \in Addr : table[b].cred \in {members[b].cred, NoCred}
          PROVE  \/ RestrictControlChannel(members')
                 \/ scope' = scope /\ \A b \in Addr : members'[b].cred \in {members[b].cred, NoCred}
        BY <2>3 DEF NewSeat
    <2>4. ASSUME NEW a \in Holding(k), NewSeat(WithCred(members, a, NoCred), k)
          PROVE  \/ RestrictControlChannel(members')
                 \/ scope' = scope /\ \A b \in Addr : members'[b].cred \in {members[b].cred, NoCred}
        <3>1. a \in Addr /\ WithCred(members, a, NoCred) \in Table
            BY <1>1, WithCredType, NoCredType DEF Holding
        <3> QED BY <1>1, <1>3, <2>3, <2>4, <3>1
    <2>5. ASSUME NEW a \in Holding(k), ReturnSeat(a) PROVE RestrictControlChannel(members')
        BY <2>5 DEF ReturnSeat
    <2>6. ASSUME NewSeat(members, k)
          PROVE  \/ RestrictControlChannel(members')
                 \/ scope' = scope /\ \A b \in Addr : members'[b].cred \in {members[b].cred, NoCred}
        BY <1>1, <2>3, <2>6
    <2> QED BY <2>1, <2>2, <2>4, <2>5, <2>6 DEF IssueCredentialFor
<1> QED BY <1>1, <1>2, <1>4, <1>5 DEF Admitted

LEMMA KickAdmits ==
    ASSUME MeshInv, Admitted, NEW a \in Addr, KickMember(a)
    PROVE  Admitted'
<1>1. /\ members \in Table /\ now \in Nat /\ now' = now /\ open /\ expelled \subseteq Addr
      /\ members' = [members EXCEPT ![a] = Kicked(@)] /\ scope' = MemberIPs(members', now)
    BY DEF MeshInv, VetoInv, TypeOK, Table, KickMember, RestrictControlChannel
<1>2. members'[a].kickedAt # NoVeto /\ \A b \in Addr \ {a} : members'[b] = members[b]
    BY <1>1 DEF Kicked, Table, Member, NoVeto
<1>3. expelled' \subseteq expelled \cup {a}
    BY DEF KickMember, Revocation
<1> QED BY <1>1, <1>2, <1>3 DEF Admitted

\* Time only takes seats away, and whoever the engine stops trusting then had
\* been seen.
LEMMA ClockAdmits ==
    ASSUME MeshInv, Admitted, PassTime, "meshWatch" \notin Fault
    PROVE  Admitted'
<1>1. UNCHANGED <<open, members, scope>> /\ now' = now + 1
    BY DEF PassTime, host
<1>2. CASE open
    <2>1. TypeOK
        BY DEF MeshInv, VetoInv
    <2>2. \A a \in Addr : Seat(members[a].cred, now') => Seat(members[a].cred, now)
        BY <1>1, <2>1 DEF Seat, Live, TypeOK, Member, Credential
    <2>3. MemberIPs(members, now') \subseteq MemberIPs(members, now)
        BY <2>2 DEF MemberIPs, IsMember
    <2>4. \A a \in expelled' : a \in Addr /\ members[a].inMesh
        BY <1>2, <2>1 DEF PassTime, HostSeesMesh, TypeOK
    <2> QED BY <1>1, <1>2, <2>3, <2>4 DEF Admitted
<1> QED BY <1>1, <1>2 DEF Admitted

LEMMA LifeNext ==
    ASSUME OneLife, [Next]_vars, MaxRestart = 0
    PROVE  OneLife' /\ ~(ResumeRoom \/ Crash \/ LeaveRoomOnShutdown \/ EngineDies)
<1>1. ~(ResumeRoom \/ Crash \/ LeaveRoomOnShutdown \/ EngineDies)
    BY DEF OneLife, ResumeRoom, NoRoom, Crash, LeaveRoomOnShutdown, EngineDies, NewProcess
<1>2. UNCHANGED restarts
    BY <1>1 DEF Next, Tick, Sweep, OnPeersChanged, OnEngineDegraded, OnTunnelUp,
           OnMemberChannelUp, IssueCredentialFor, KickMember, ReapplyProtection, ActivateProfile,
           RenameRoom, RotateInviteCode, OnEngineRestarted, CreateRoom, CloseRoom,
           DiscardSavedRoom, Arrive, Depart, PassTime, vars
<1>3. UNCHANGED saved \/ saved' = NoRoom
    BY <1>1 DEF Next, Tick, Sweep, OnPeersChanged, OnEngineDegraded, OnTunnelUp,
           OnMemberChannelUp, IssueCredentialFor, KickMember, ReapplyProtection,
           ActivateProfile, RenameRoom, RotateInviteCode, OnEngineRestarted, CreateRoom,
           CloseRoom, DiscardSavedRoom, Arrive, Depart, PassTime, vars, disk
<1> QED BY <1>1, <1>2, <1>3 DEF OneLife

LEMMA AdmittedNext ==
    ASSUME MeshInv, Admitted, OneLife, [Next]_vars, MaxRestart = 0, "meshWatch" \notin Fault
    PROVE  Admitted' /\ OneLife'
<1>1. OneLife' /\ ~(ResumeRoom \/ Crash \/ LeaveRoomOnShutdown \/ EngineDies)
    BY LifeNext
<1>2. CASE \/ Tick \/ Sweep \/ OnPeersChanged \/ OnEngineDegraded \/ OnTunnelUp
           \/ OnMemberChannelUp \/ (\E k \in Key : IssueCredentialFor(k))
           \/ (\E a \in Addr : KickMember(a))
    BY <1>1, <1>2, TickAdmits, RereadAdmits, ChannelUpAdmits, IssueAdmits, KickAdmits
<1>3. CASE \/ ReapplyProtection \/ ActivateProfile \/ RenameRoom \/ RotateInviteCode
           \/ OnEngineRestarted \/ DiscardSavedRoom \/ (\E a \in Addr : Arrive(a) \/ Depart(a))
           \/ UNCHANGED vars
    <2>1. /\ UNCHANGED <<members, now, open>> /\ expelled' \subseteq expelled
          /\ scope' \in {scope, MemberIPs(members', now)}
        BY <1>3 DEF ReapplyProtection, ActivateProfile, RenameRoom, RotateInviteCode,
               OnEngineRestarted, DiscardSavedRoom, Arrive, Depart, vars, host, world,
               RestrictControlChannel
    <2> QED BY <1>1, <2>1 DEF Admitted
<1>4. CASE CreateRoom
    <2>1. members' = EmptyTable /\ expelled' = {}
        BY <1>4 DEF CreateRoom, MeshInv, VetoInv, VetoWithinHold, TypeOK, world
    <2>2. MemberIPs(EmptyTable, now') = {}
        BY DEF MemberIPs, IsMember, EmptyTable, NoMember, NoCred, Seat, Live
    <2> QED BY <1>1, <2>1, <2>2 DEF Admitted
<1>5. CASE CloseRoom
    BY <1>1, <1>5 DEF CloseRoom, RoomDown, Admitted
<1>6. CASE PassTime
    BY <1>1, <1>6, ClockAdmits
<1> QED BY <1>1, <1>2, <1>3, <1>4, <1>5, <1>6 DEF Next

\* In the life of one process, an engine that revokes and renews and a host told
\* of the mesh: the listener never refuses whom the rules let in.
THEOREM ListenerAcceptsMembers ==
    ASSUME Fault \cap {"revoke", "renewTimeout", "meshWatch", "linger"} = {}, MaxRestart = 0
    PROVE  Spec => []ListenerAgrees
<1>1. Init => Admitted /\ OneLife
    BY DEF Init, Admitted, OneLife
<1>2. MeshInv /\ Admitted /\ OneLife /\ [Next]_vars => Admitted' /\ OneLife'
    BY AdmittedNext
<1>3. Admitted => ListenerAgrees
    BY DEF Admitted, ListenerAgrees
<1>4. Spec => []MeshInv
    BY MeshInductive
<1> QED BY <1>1, <1>2, <1>3, <1>4, PTL DEF Spec

(***************************************************************************)
(* Whoever comes back.  A seat is given up only when the engine does not   *)
(* know its credential, so what keeps an address is that, in the life of   *)
(* one process, the engine knows every seat and lets it go on the very     *)
(* day the table does.                                                     *)
(***************************************************************************)

\* The engine knows every seat of the table, with its date.
SeatsKnown(table, list) ==
    \A a \in Addr : Seat(table[a].cred, now) =>
        \E r \in list : r.id = table[a].cred.id /\ r.exp = table[a].cred.expiresAt

\* Nothing but the engine's dates is lost with entries.
LEMMA FewerKnown ==
    ASSUME NEW table, NEW new, NEW list, SeatsKnown(table, list),
           \A a \in Addr : new[a].cred = table[a].cred \/ ~Seat(new[a].cred, now)
    PROVE  SeatsKnown(new, list)
BY DEF SeatsKnown

LEMMA ForgetKnown ==
    ASSUME NEW table \in Table, NEW channel
    PROVE  \A a \in Addr : \/ Forget(table, channel, now)[a].cred = table[a].cred
                           \/ ~Seat(Forget(table, channel, now)[a].cred, now)
<1> SUFFICES ASSUME NEW a \in Addr
             PROVE  \/ Forget(table, channel, now)[a].cred = table[a].cred
                    \/ ~Seat(Forget(table, channel, now)[a].cred, now)
    OBVIOUS
<1>1. VetoLifted(table[a], now).cred = table[a].cred
    BY DEF VetoLifted, Table, Member
<1>2. ~Seat(NoMember.cred, now)
    BY DEF NoMember, NoCred, Seat, Live
<1> QED BY <1>1, <1>2 DEF Forget

LEMMA RefreshKnown ==
    ASSUME NEW table \in Table, NEW report, NEW channel
    PROVE  \A a \in Addr : \/ Refresh(table, report, channel, now)[a].cred = table[a].cred
                           \/ ~Seat(Refresh(table, report, channel, now)[a].cred, now)
<1> DEFINE seen == [a \in Addr |-> [table[a] EXCEPT !.inMesh = (a \in report)]]
<1>1. seen \in Table
    BY SeenType
<1>2. \A a \in Addr : seen[a].cred = table[a].cred
    BY DEF Table, Member
<1> HIDE DEF seen
<1> QED BY <1>1, <1>2, ForgetKnown DEF Refresh, seen

\* The engine moves the dates of the ids it is asked to, and of no other.
LEMMA RenewedKnown ==
    ASSUME TypeOK, NEW table \in Table, NEW new, NEW at \in SUBSET Addr, NEW ids,
           SeatsApart(Entries(table), now, requests), SeatsKnown(table, trust),
           \A a \in at : Seat(table[a].cred, now),
           \A b \in Addr : new[b].cred = IF b \in at
                THEN [table[b].cred EXCEPT !.expiresAt = now + CredentialTTL]
                ELSE table[b].cred,
           ids = {table[a].cred.id : a \in at}
    PROVE  SeatsKnown(new, Renewed(ids))
<1> SUFFICES ASSUME NEW b \in Addr, Seat(new[b].cred, now)
             PROVE  \E q \in Renewed(ids) :
                        q.id = new[b].cred.id /\ q.exp = new[b].cred.expiresAt
    BY DEF SeatsKnown
<1> DEFINE c == table[b].cred
<1>1. c \in Credential
    BY DEF Table, Member
<1>2. /\ new[b].cred.id = c.id
      /\ new[b].cred.expiresAt = IF b \in at THEN now + CredentialTTL ELSE c.expiresAt
    BY <1>1 DEF Credential
<1>3. Seat(c, now)
    <2>1. CASE b \in at
        BY <2>1
    <2>2. CASE b \notin at
        BY <2>2
    <2> QED BY <2>1, <2>2
<1>4. PICK r \in trust : r.id = c.id /\ r.exp = c.expiresAt
    BY <1>3 DEF SeatsKnown
<1> DEFINE q == [r EXCEPT !.exp = IF r.id \in ids THEN now + CredentialTTL ELSE @]
<1>5. q \in Renewed(ids)
    BY DEF Renewed
<1>6. q.id = r.id /\ q.exp = IF r.id \in ids THEN now + CredentialTTL ELSE r.exp
    BY DEF TypeOK
<1>7. r.id \in ids <=> b \in at
    <2>1. ASSUME NEW a \in at, table[a].cred.id = c.id PROVE a = b
        BY <1>3, <2>1 DEF SeatsApart, Entries, Seat, Live
    <2> QED BY <1>4, <2>1
<1> HIDE DEF q, c
<1> QED BY <1>2, <1>4, <1>5, <1>6, <1>7

LEMMA RoundKnown ==
    ASSUME TypeOK, NEW table \in Table, NEW at \in RenewalRound(table), NEW renewed,
           renewed = WithRenewals(table, at), Renewal(at, renewed),
           SeatsApart(Entries(table), now, requests), SeatsKnown(table, trust)
    PROVE  SeatsKnown(renewed, trust')
<1>1. at \in SUBSET Addr /\ \A a \in at : Seat(table[a].cred, now)
    BY DEF RenewalRound, RenewalDue
<1>2. \A b \in Addr : renewed[b].cred = IF b \in at
            THEN [table[b].cred EXCEPT !.expiresAt = now + CredentialTTL]
            ELSE table[b].cred
    BY DEF WithRenewals, Table, Member
<1>3. \A a \in at : renewed[a].cred.id = table[a].cred.id
    BY <1>1, <1>2 DEF Table, Member, Credential
<1>4. {renewed[a].cred.id : a \in at} = {table[a].cred.id : a \in at}
    BY <1>3
<1>5. trust' = Renewed({renewed[a].cred.id : a \in at})
    BY DEF Renewal
<1> QED BY <1>1, <1>2, <1>4, <1>5, RenewedKnown

\* The seats after a step were seats before it, at the same addresses, and the
\* engine knows them.
SeatsGoOn ==
    /\ Inherits(members, members', now) /\ now' = now
    /\ SeatsKnown(members', trust')

LEMMA TickKnown ==
    ASSUME SeatInv, SeatsKnown(members, trust), Tick \/ Sweep
    PROVE  SeatsGoOn
<1>1. PICK channel \in Channels :
        LET kept == Forget(members, channel, now)
        IN  \E at \in RenewalRound(kept) :
                members' = WithRenewals(kept, at) /\ Renewal(at, members')
    BY DEF Tick, Sweep
<1> DEFINE kept == Forget(members, channel, now)
<1>2. PICK at \in RenewalRound(kept) :
        members' = WithRenewals(kept, at) /\ Renewal(at, members')
    BY <1>1
<1>3. TypeOK /\ members \in Table /\ kept \in Table /\ now \in Nat /\ requests \in Nat /\ now' = now
    BY ForgetType DEF SeatInv, TypeOK, Table, Tick, Sweep
<1>4. Inherits(members, kept, now)
    BY <1>3, ForgetInherits
<1>5. SeatsKnown(kept, trust)
    BY <1>3, ForgetKnown, FewerKnown
<1> HIDE DEF kept
<1>6. SeatsApart(Entries(kept), now, requests)
    BY <1>3, <1>4, InheritsApart DEF SeatInv
<1>7. SeatsKnown(members', trust')
    BY <1>2, <1>3, <1>5, <1>6, RoundKnown
<1>8. Inherits(kept, members', now)
    BY <1>2, <1>3, RenewalsInherit
<1> QED BY <1>3, <1>4, <1>7, <1>8, InheritsTransitive DEF SeatsGoOn

LEMMA RereadKnown ==
    ASSUME SeatInv, SeatsKnown(members, trust), OnPeersChanged \/ OnEngineDegraded \/ OnTunnelUp
    PROVE  SeatsGoOn
<1>1. PICK channel \in Channels :
        LET kept == Forget(members, channel, now)
        IN  \E at \in RenewalRound(kept) :
                LET renewed == WithRenewals(kept, at)
                IN  Renewal(at, renewed) /\ members' = Refresh(renewed, mesh, channel, now)
    BY DEF OnPeersChanged, OnEngineDegraded, OnTunnelUp, PeersChanged
<1> DEFINE kept == Forget(members, channel, now)
<1>2. PICK at \in RenewalRound(kept) :
        LET renewed == WithRenewals(kept, at)
        IN  Renewal(at, renewed) /\ members' = Refresh(renewed, mesh, channel, now)
    BY <1>1
<1>3. TypeOK /\ members \in Table /\ kept \in Table /\ now \in Nat /\ requests \in Nat /\ now' = now
    BY ForgetType DEF SeatInv, TypeOK, Table, OnPeersChanged, OnEngineDegraded, OnTunnelUp
<1>4. Inherits(members, kept, now)
    BY <1>3, ForgetInherits
<1>5. SeatsKnown(kept, trust)
    BY <1>3, ForgetKnown, FewerKnown
<1> HIDE DEF kept
<1>6. SeatsApart(Entries(kept), now, requests)
    BY <1>3, <1>4, InheritsApart DEF SeatInv
<1> DEFINE renewed == WithRenewals(kept, at)
<1>7. renewed \in Table /\ Inherits(kept, renewed, now)
    BY <1>3, WithRenewalsType, RenewalsInherit
<1> HIDE DEF renewed
<1>8. Renewal(at, renewed) /\ members' = Refresh(renewed, mesh, channel, now)
    BY <1>2 DEF renewed
<1>9. SeatsKnown(renewed, trust')
    BY <1>3, <1>5, <1>6, <1>8, RoundKnown DEF renewed
<1>10. SeatsKnown(members', trust')
    BY <1>7, <1>8, <1>9, RefreshKnown, FewerKnown
<1>11. Inherits(renewed, members', now)
    BY <1>7, <1>8, RefreshInherits
<1> QED BY <1>3, <1>4, <1>7, <1>10, <1>11, InheritsTransitive DEF SeatsGoOn

LEMMA ChannelUpKnown ==
    ASSUME SeatInv, SeatsKnown(members, trust), OnMemberChannelUp
    PROVE  SeatsGoOn
<1>1. PICK channel \in Channels : members' = Refresh(members, mesh, channel, now)
    BY DEF OnMemberChannelUp, PeersChanged
<1>2. members \in Table /\ trust' = trust /\ now' = now
    BY DEF SeatInv, TypeOK, Table, OnMemberChannelUp, world
<1> QED BY <1>1, <1>2, RefreshKnown, FewerKnown, RefreshInherits DEF SeatsGoOn

\* The engine stops trusting the id of whoever is kicked, and it is no one else's.
LEMMA KickKnown ==
    ASSUME SeatInv, SeatsKnown(members, trust), NEW a \in Addr, KickMember(a)
    PROVE  SeatsGoOn
<1>1. /\ members \in Table /\ now' = now
      /\ members' = [members EXCEPT ![a] = Kicked(@)]
    BY DEF SeatInv, TypeOK, Table, KickMember
<1>2. /\ members'[a].cred.id = members[a].cred.id
      /\ members'[a].cred.key = members[a].cred.key
      /\ members'[a].cred.revoked
    BY <1>1 DEF Kicked, Table, Member, Credential
<1>3. \A b \in Addr \ {a} : members'[b] = members[b]
    BY <1>1 DEF Table
<1>4. Inherits(members, members', now)
    BY <1>2, <1>3 DEF Inherits, Seat
<1>5. PICK done \in BOOLEAN : Revocation(a, done)
    BY DEF KickMember
<1>6. ASSUME NEW b \in Addr, Seat(members'[b].cred, now)
      PROVE  \E r \in trust' :
                r.id = members'[b].cred.id /\ r.exp = members'[b].cred.expiresAt
    <2>1. b # a /\ members'[b] = members[b]
        BY <1>2, <1>3, <1>6 DEF Seat
    <2>2. PICK r \in trust : r.id = members[b].cred.id /\ r.exp = members[b].cred.expiresAt
        BY <1>6, <2>1 DEF SeatsKnown
    <2>3. r.id # members[a].cred.id
        BY <1>6, <2>1, <2>2 DEF SeatInv, SeatsApart, Entries, Seat, Live
    <2>4. r \in trust'
        BY <1>5, <2>2, <2>3 DEF Revocation
    <2> QED BY <2>1, <2>2, <2>4
<1>7. SeatsKnown(members', trust')
    BY <1>6 DEF SeatsKnown
<1> QED BY <1>1, <1>4, <1>7 DEF SeatsGoOn

\* Two seats of one key, before and after a step, are the same one.
OwnSeat ==
    \A a, b \in Addr :
        /\ Seat(members[a].cred, now) /\ Seat(members'[b].cred, now')
        /\ members[a].cred.key = members'[b].cred.key
        => a = b

LEMMA GoesOnOwn ==
    ASSUME SeatInv, SeatsGoOn
    PROVE  OwnSeat
<1> SUFFICES ASSUME NEW a \in Addr, NEW b \in Addr, Seat(members[a].cred, now),
                    Seat(members'[b].cred, now), members[a].cred.key = members'[b].cred.key
             PROVE  a = b
    BY DEF OwnSeat, SeatsGoOn
<1>1. Seat(members[b].cred, now) /\ members'[b].cred.key = members[b].cred.key
    BY DEF SeatsGoOn, Inherits, Seat, Live
<1> QED BY <1>1 DEF SeatInv, SeatsApart, Entries

\* The door: whoever has a seat is given that one, and only who has none is
\* given another.
LEMMA IssueKnown ==
    ASSUME SeatInv, SeatsKnown(members, trust), NEW k \in Key, IssueCredentialFor(k),
           "renewTimeout" \notin Fault
    PROVE  SeatsKnown(members', trust') /\ OwnSeat
<1>1. TypeOK /\ members \in Table /\ now \in Nat /\ now' = now
    BY DEF SeatInv, TypeOK, Table, IssueCredentialFor
<1>2. ASSUME NEW a \in Holding(k), ReturnSeat(a)
      PROVE  SeatsKnown(members', trust') /\ OwnSeat
    <2> DEFINE c == [members[a].cred EXCEPT !.expiresAt = now + CredentialTTL]
               ids == {members[b].cred.id : b \in {a}}
    <2>1. a \in Addr /\ Seat(members[a].cred, now)
        BY DEF Holding
    <2>2. members' = WithCred(members, a, c) /\ trust' = Renewed(ids)
        <3>1. ids = {members[a].cred.id}
            OBVIOUS
        <3> QED BY <1>2, <3>1 DEF ReturnSeat
    <2>3. \A b \in Addr : members'[b].cred = IF b \in {a}
                THEN [members[b].cred EXCEPT !.expiresAt = now + CredentialTTL]
                ELSE members[b].cred
        BY <1>1, <2>1, <2>2 DEF WithCred, Table, Member
    <2> HIDE DEF ids
    <2>4. SeatsKnown(members', trust')
        BY <1>1, <2>1, <2>2, <2>3, RenewedKnown DEF SeatInv, ids
    <2>5. Inherits(members, members', now)
        <3>1. members'[a].cred = c /\ members[a].cred \in Credential
            BY <1>1, <2>1, <2>3 DEF Table, Member
        <3>2. members'[a].cred.id = members[a].cred.id /\ members'[a].cred.key = members[a].cred.key
            BY <3>1 DEF Credential
        <3> QED BY <2>1, <2>3, <3>2 DEF Inherits
    <2> QED BY <1>1, <2>4, <2>5, GoesOnOwn DEF SeatsGoOn
<1>3. \A a \in Holding(k) : Trusted(members[a].cred)
    BY DEF Holding, SeatsKnown, Trusted
<1>4. ASSUME Holding(k) = {}, NewSeat(members, k)
      PROVE  SeatsKnown(members', trust') /\ OwnSeat
    <2>1. CASE members' = members /\ UNCHANGED trust
        <3>1. SeatsGoOn
            BY <1>1, <2>1, InheritsSelf DEF SeatsGoOn
        <3> QED BY <3>1, GoesOnOwn DEF SeatsGoOn
    <2>2. CASE /\ ~(Addr \subseteq Taken(members))
               /\ members' = WithCred(members, NextFree(members), NewCred(k))
               /\ trust' = trust \cup {Trust(NewCred(k), NextFree(members))}
        <3> DEFINE n == NextFree(members)
                   q == Trust(NewCred(k), n)
        <3>1. n \in Addr
            BY <1>1, <2>2, NextFreeIsFree
        <3>2. \A b \in Addr : members'[b].cred = IF b = n THEN NewCred(k) ELSE members[b].cred
            BY <1>1, <2>2, <3>1 DEF WithCred, Table, Member
        <3>3. q \in trust' /\ q.id = NewCred(k).id /\ q.exp = NewCred(k).expiresAt /\ trust \subseteq trust'
            BY <2>2 DEF Trust
        <3>4. NewCred(k).key = k /\ \A b \in Addr : Seat(members[b].cred, now) => members[b].cred.key # k
            BY <1>4 DEF NewCred, Holding
        <3> HIDE DEF n, q
        <3>5. SeatsKnown(members', trust')
            BY <3>2, <3>3 DEF SeatsKnown
        <3>6. OwnSeat
            <4> SUFFICES ASSUME NEW a \in Addr, NEW b \in Addr, Seat(members[a].cred, now),
                                Seat(members'[b].cred, now),
                                members[a].cred.key = members'[b].cred.key
                         PROVE  a = b
                BY <1>1 DEF OwnSeat
            <4>1. b # n
                BY <3>2, <3>4
            <4> QED BY <3>2, <4>1 DEF SeatInv, SeatsApart, Entries
        <3> QED BY <3>5, <3>6
    <2> QED BY <1>4, <2>1, <2>2 DEF NewSeat
<1> QED BY <1>2, <1>3, <1>4 DEF IssueCredentialFor

AddressInv ==
    /\ SeatInv /\ OneLife
    /\ open \/ members = EmptyTable
    /\ SeatsKnown(members, trust)

\* The engine and the table let go of a credential on the same day.
LEMMA ClockKnown ==
    ASSUME SeatInv, SeatsKnown(members, trust), PassTime
    PROVE  SeatsKnown(members, trust)' /\ OwnSeat
<1>1. /\ members' = members /\ now' = now + 1 /\ now \in Nat /\ members \in Table
      /\ trust' = {r \in trust : now' < r.exp}
    BY DEF PassTime, host, SeatInv, TypeOK, Table
<1>2. \A a \in Addr : members[a].cred \in Credential
    BY <1>1 DEF Table, Member
<1>3. \A a \in Addr : Seat(members[a].cred, now') =>
            Seat(members[a].cred, now) /\ now' < members[a].cred.expiresAt
    BY <1>1, <1>2 DEF Seat, Live, Credential
<1>4. ASSUME NEW a \in Addr, Seat(members'[a].cred, now')
      PROVE  \E r \in trust' : r.id = members'[a].cred.id /\ r.exp = members'[a].cred.expiresAt
    <2>1. PICK r \in trust : r.id = members[a].cred.id /\ r.exp = members[a].cred.expiresAt
        BY <1>1, <1>3, <1>4 DEF SeatsKnown
    <2> QED BY <1>1, <1>3, <1>4, <2>1
<1>5. OwnSeat
    BY <1>1, <1>3 DEF OwnSeat, SeatInv, SeatsApart, Entries
<1> QED BY <1>4, <1>5 DEF SeatsKnown

LEMMA AddressNext ==
    ASSUME AddressInv, [Next]_vars, MaxRestart = 0, "renewTimeout" \notin Fault
    PROVE  AddressInv' /\ (open /\ open' => OwnSeat)
<1>1. SeatInv' /\ OneLife' /\ ~(ResumeRoom \/ Crash \/ LeaveRoomOnShutdown \/ EngineDies)
    BY SeatInductive, LifeNext DEF AddressInv
<1>2. SeatInv /\ SeatsKnown(members, trust)
    BY DEF AddressInv
<1>3. SeatsKnown(EmptyTable, trust')
    BY DEF SeatsKnown, EmptyTable, NoMember, NoCred, Seat, Live
<1>4. CASE \/ Tick \/ Sweep \/ OnPeersChanged \/ OnEngineDegraded \/ OnTunnelUp
           \/ OnMemberChannelUp \/ (\E a \in Addr : KickMember(a))
    <2>1. SeatsGoOn
        BY <1>2, <1>4, TickKnown, RereadKnown, ChannelUpKnown, KickKnown
    <2>2. open' /\ now' = now
        BY <1>4 DEF Tick, Sweep, OnPeersChanged, OnEngineDegraded, OnTunnelUp,
                    OnMemberChannelUp, KickMember
    <2> QED BY <1>1, <1>2, <2>1, <2>2, GoesOnOwn DEF AddressInv, SeatsGoOn, SeatsKnown
<1>5. CASE \E k \in Key : IssueCredentialFor(k)
    <2>1. SeatsKnown(members', trust') /\ OwnSeat
        BY <1>2, <1>5, IssueKnown
    <2>2. open' /\ now' = now
        BY <1>5 DEF IssueCredentialFor
    <2> QED BY <1>1, <2>1, <2>2 DEF AddressInv, SeatsKnown
<1>6. CASE \/ ReapplyProtection \/ ActivateProfile \/ RenameRoom \/ RotateInviteCode
           \/ OnEngineRestarted \/ DiscardSavedRoom
           \/ (\E a \in Addr : Arrive(a) \/ Depart(a)) \/ UNCHANGED vars
    <2>1. UNCHANGED <<members, trust, now, open>>
        BY <1>6 DEF ReapplyProtection, ActivateProfile, RenameRoom, RotateInviteCode,
                    OnEngineRestarted, DiscardSavedRoom, Arrive, Depart, vars, host, world
    <2>2. SeatsGoOn
        BY <1>2, <2>1, InheritsSelf DEF SeatsGoOn
    <2> QED BY <1>1, <1>2, <2>1, <2>2, GoesOnOwn DEF AddressInv, SeatsKnown
<1>7. CASE CreateRoom \/ CloseRoom
    <2>1. members' = EmptyTable /\ ~(open /\ open')
        BY <1>7 DEF CreateRoom, CloseRoom, RoomDown, AddressInv
    <2> QED BY <1>1, <1>3, <2>1 DEF AddressInv, SeatsKnown, EmptyTable, NoMember, NoCred, Seat, Live
<1>8. CASE PassTime
    <2>1. UNCHANGED <<open, members>>
        BY <1>8 DEF PassTime, host
    <2> QED BY <1>1, <1>2, <1>8, <2>1, ClockKnown DEF AddressInv
<1> QED BY <1>1, <1>4, <1>5, <1>6, <1>7, <1>8 DEF Next

\* In the life of one process, with an engine that renews the ids it knows,
\* whoever asks again while their seat lasts is given the address they had.
THEOREM WhoComesBackKeepsTheAddress ==
    ASSUME MaxRestart = 0, "renewTimeout" \notin Fault
    PROVE  Spec => AddressKept
<1> DEFINE Kept == \A a, b \in Addr :
                        /\ open /\ open'
                        /\ Seat(members[a].cred, now) /\ Seat(members'[b].cred, now')
                        /\ members[a].cred.key = members'[b].cred.key
                        => a = b
<1>1. Init => AddressInv
    BY SeatInitially DEF Init, AddressInv, OneLife, SeatsKnown, EmptyTable, NoMember, NoCred,
                         Seat, Live
<1>2. AddressInv /\ [Next]_vars => AddressInv' /\ [Kept]_vars
    BY AddressNext DEF OwnSeat
<1> QED BY <1>1, <1>2, PTL DEF Spec, AddressKept

(***************************************************************************)
(* The disk.  The book is written before the room that remembers its       *)
(* generation, and a code is never handed out twice: so whichever of the   *)
(* two writes is lost, and whenever the process ends, the book of a room   *)
(* is never older than the room says.                                      *)
(***************************************************************************)

\* What a handler may do to the disk and to what is kept of it.
WritesNothing == UNCHANGED <<open, code, gen, saved, bookFile, roomFile, codes>>

WritesMembers ==
    /\ open /\ UNCHANGED <<open, code, saved, codes>>
    /\ \E table : SaveMembers(table)

WritesRoom ==
    /\ open /\ UNCHANGED <<open, code, gen, saved, bookFile, codes>>
    /\ SaveRoom(code, gen)

LEMMA RenewalWrites ==
    ASSUME NEW at, NEW table, Renewal(at, table), open, UNCHANGED <<open, code, saved, codes>>
    PROVE  WritesNothing \/ WritesMembers
BY DEF Renewal, WritesNothing, WritesMembers

LEMMA DiskEffect ==
    ASSUME [Next]_vars
    PROVE  \/ WritesNothing \/ WritesMembers \/ WritesRoom
           \/ RotateInviteCode \/ CreateRoom \/ ResumeRoom \/ CloseRoom \/ DiscardSavedRoom
           \/ Crash \/ LeaveRoomOnShutdown
<1>1. CASE Tick \/ Sweep \/ OnPeersChanged \/ OnEngineDegraded \/ OnTunnelUp
    <2>1. \E at, table : Renewal(at, table)
        BY <1>1 DEF Tick, Sweep, OnPeersChanged, OnEngineDegraded, OnTunnelUp
    <2>2. open /\ UNCHANGED <<open, code, saved, codes>>
        BY <1>1 DEF Tick, Sweep, OnPeersChanged, OnEngineDegraded, OnTunnelUp
    <2> QED BY <2>1, <2>2, RenewalWrites
<1>2. ASSUME NEW k \in Key, IssueCredentialFor(k)
      PROVE  WritesNothing \/ WritesMembers
    <2>1. open /\ UNCHANGED <<open, code, saved, codes>>
        BY <1>2 DEF IssueCredentialFor
    <2>2. (\E table : SaveMembers(table)) \/ UNCHANGED <<gen, bookFile, roomFile>>
        BY <1>2 DEF IssueCredentialFor, ReturnSeat, NewSeat
    <2> QED BY <2>1, <2>2 DEF WritesNothing, WritesMembers
<1>3. ASSUME NEW a \in Addr, KickMember(a)
      PROVE  WritesNothing \/ WritesMembers
    <2>1. open /\ UNCHANGED <<open, code, saved, codes>>
        BY <1>3 DEF KickMember
    <2>2. SaveMembers(members') \/ UNCHANGED <<gen, bookFile, roomFile>>
        BY <1>3 DEF KickMember
    <2> QED BY <2>1, <2>2 DEF WritesNothing, WritesMembers
<1>4. CASE \/ OnMemberChannelUp \/ ReapplyProtection \/ EngineDies \/ OnEngineRestarted
           \/ PassTime \/ (\E a \in Addr : Arrive(a) \/ Depart(a)) \/ UNCHANGED vars
    BY <1>4 DEF OnMemberChannelUp, ReapplyProtection, EngineDies, OnEngineRestarted, PassTime,
                Arrive, Depart, vars, host, disk, WritesNothing
<1>5. CASE ActivateProfile \/ RenameRoom
    BY <1>5 DEF ActivateProfile, RenameRoom, host, WritesNothing, WritesRoom
<1> QED BY <1>1, <1>2, <1>3, <1>4, <1>5 DEF Next

\* The book and the room of one code, read as generations: the book is there
\* and is the one of this code.
BookOf(c) == bookFile.gen # 0 /\ bookFile.code = c

DiskInv ==
    /\ TypeOK /\ BookNotBehindRoom
    /\ code <= codes /\ saved.code <= codes /\ bookFile.code <= codes /\ roomFile.code <= codes
    /\ open => code # 0 /\ code # saved.code
    /\ open /\ BookOf(code) => bookFile.gen >= gen
    /\ open /\ roomFile.code = code => roomFile.gen <= gen
    /\ saved.code # 0 /\ BookOf(saved.code) => bookFile.gen >= saved.gen
    /\ saved.code # 0 /\ roomFile.code = saved.code => roomFile.gen <= saved.gen

LEMMA DiskNext ==
    ASSUME DiskInv, [Next]_vars
    PROVE  DiskInv'
<1>1. TypeOK'
    BY TypeInductive DEF DiskInv
<1>2. /\ code \in Nat /\ gen \in Nat /\ codes \in Nat
      /\ saved \in [code : Nat, gen : Nat] /\ roomFile \in [code : Nat, gen : Nat]
      /\ bookFile.gen \in Nat /\ bookFile.code \in Nat
    BY DEF DiskInv, TypeOK
<1>3. CASE WritesNothing
    BY <1>1, <1>3 DEF DiskInv, WritesNothing, BookOf, BookNotBehindRoom
<1>4. CASE WritesMembers
    <2>1. PICK table : SaveMembers(table)
        BY <1>4 DEF WritesMembers
    <2>2. open /\ UNCHANGED <<open, code, saved, codes>>
        BY <1>4 DEF WritesMembers
    <2>3. CASE UNCHANGED <<bookFile, gen, roomFile>>
        BY <1>1, <2>2, <2>3 DEF DiskInv, BookOf, BookNotBehindRoom
    <2>4. CASE /\ bookFile' = [gen |-> gen + 1, code |-> code, entries |-> Entries(table)]
               /\ gen' = gen + 1
               /\ roomFile' \in {roomFile, [code |-> code, gen |-> gen + 1]}
        <3>1. bookFile'.gen = gen + 1 /\ bookFile'.code = code
            BY <2>4
        <3>2. roomFile' = roomFile \/ (roomFile'.code = code /\ roomFile'.gen = gen + 1)
            BY <2>4
        <3> QED BY <1>1, <1>2, <2>2, <2>4, <3>1, <3>2 DEF DiskInv, BookOf, BookNotBehindRoom
    <2> QED BY <2>1, <2>3, <2>4 DEF SaveMembers, SaveRoom
<1>5. CASE WritesRoom
    <2>1. roomFile' = roomFile \/ (roomFile'.code = code /\ roomFile'.gen = gen)
        BY <1>5 DEF WritesRoom, SaveRoom
    <2> QED BY <1>1, <1>2, <1>5, <2>1 DEF DiskInv, WritesRoom, BookOf, BookNotBehindRoom
<1>6. CASE RotateInviteCode \/ CreateRoom
    <2>1. /\ open' /\ code' = codes + 1 /\ codes' = codes + 1
          /\ UNCHANGED <<gen, saved, bookFile>>
        BY <1>6 DEF RotateInviteCode, CreateRoom
    <2>2. roomFile' \in {roomFile, [code |-> codes + 1, gen |-> gen]}
        <3>1. SaveRoom(codes + 1, gen)
            BY <1>6, <2>1 DEF RotateInviteCode, CreateRoom
        <3> QED BY <3>1 DEF SaveRoom
    <2> QED BY <1>1, <1>2, <2>1, <2>2 DEF DiskInv, BookOf, BookNotBehindRoom
<1>7. CASE ResumeRoom
    <2>1. /\ open' /\ code' = saved.code /\ saved.code # 0 /\ saved' = NoRoom
          /\ UNCHANGED <<bookFile, codes>>
          /\ gen' = IF BookAccepted(saved) THEN bookFile.gen ELSE saved.gen
        BY <1>7 DEF ResumeRoom
    <2>2. roomFile' = roomFile \/ (roomFile'.code = saved.code /\ roomFile'.gen = gen')
        BY <1>7, <2>1 DEF ResumeRoom, SaveRoom
    <2>3. BookOf(saved.code) => gen' = bookFile.gen
        BY <2>1 DEF DiskInv, BookOf, BookAccepted
    <2>4. gen' >= saved.gen
        BY <1>2, <2>1 DEF BookAccepted
    <2>5. NoRoom.code = 0
        BY DEF NoRoom
    <2> QED BY <1>1, <1>2, <2>1, <2>2, <2>3, <2>4, <2>5 DEF DiskInv, BookOf, BookNotBehindRoom
<1>8. CASE CloseRoom \/ DiscardSavedRoom
    <2>1. /\ bookFile' \in {NoBook, bookFile} /\ roomFile' \in {NoRoom, roomFile} /\ gen' = 0
          /\ saved' \in {NoRoom, saved} /\ codes' = codes
        BY <1>8 DEF CloseRoom, DiscardSavedRoom, Cleared
    <2>2. \/ open' = FALSE /\ code' = 0
          \/ UNCHANGED <<open, code>> /\ roomFile' = NoRoom
        BY <1>8 DEF CloseRoom, DiscardSavedRoom, RoomDown
    <2>3. NoRoom.code = 0 /\ NoRoom.gen = 0 /\ NoBook.gen = 0 /\ NoBook.code = 0
        BY DEF NoRoom, NoBook
    <2> QED BY <1>1, <1>2, <2>1, <2>2, <2>3 DEF DiskInv, BookOf, BookNotBehindRoom
<1>9. CASE Crash \/ LeaveRoomOnShutdown
    <2>1. /\ open' = FALSE /\ code' = 0 /\ gen' = 0 /\ saved' = roomFile'
          /\ UNCHANGED <<bookFile, codes>>
        BY <1>9 DEF Crash, LeaveRoomOnShutdown, NewProcess, RoomDown
    <2>2. roomFile' = roomFile \/ (open /\ roomFile'.code = code /\ roomFile'.gen = gen)
        BY <1>9 DEF Crash, LeaveRoomOnShutdown, SaveRoom
    <2>3. BookNotBehindRoom'
        BY <1>2, <2>1, <2>2 DEF DiskInv, BookOf, BookNotBehindRoom
    <2> QED BY <1>1, <1>2, <2>1, <2>2, <2>3 DEF DiskInv, BookOf, BookNotBehindRoom
<1> QED BY <1>3, <1>4, <1>5, <1>6, <1>7, <1>8, <1>9, DiskEffect

\* Whatever write fails, file outlives its room, or process ends between the
\* two writes, the book this host wrote is not taken for a restored older copy.
THEOREM BookIsNeverBehind == Spec => []BookNotBehindRoom
<1>1. Init => DiskInv
    BY TypeInitially DEF Init, DiskInv, BookOf, BookNotBehindRoom, NoRoom, NoBook
<1>2. DiskInv /\ [Next]_vars => DiskInv'
    BY DiskNext
<1>3. DiskInv => BookNotBehindRoom
    BY DEF DiskInv
<1> QED BY <1>1, <1>2, <1>3, PTL DEF Spec

(***************************************************************************)
(* What the book remembers.  Every change that makes a seat or a           *)
(* revocation is followed by a write of the table it made; every other     *)
(* one leaves the revoked as they were and makes no seat.  So while the    *)
(* book goes to disk, a room taken back has them all.                      *)
(***************************************************************************)

Stays(old, new) ==
    \A a \in Addr : LET c == old[a].cred
                        d == new[a].cred
                    IN  /\ d.id # 0 /\ d.revoked => d = c
                        /\ Seat(d, now) => Seat(c, now)

LEMMA StaysTransitive ==
    ASSUME NEW x, NEW y, NEW z, Stays(x, y), Stays(y, z)
    PROVE  Stays(x, z)
BY DEF Stays

LEMMA ForgetStays ==
    ASSUME NEW table \in Table, NEW channel
    PROVE  Stays(table, Forget(table, channel, now))
<1> SUFFICES ASSUME NEW a \in Addr
             PROVE  \/ Forget(table, channel, now)[a].cred = table[a].cred
                    \/ Forget(table, channel, now)[a].cred = NoCred
    BY DEF Stays, NoCred, Seat, Live
<1>1. VetoLifted(table[a], now).cred = table[a].cred
    BY DEF VetoLifted, Table, Member
<1> QED BY <1>1 DEF Forget, NoMember

LEMMA RefreshStays ==
    ASSUME NEW table \in Table, NEW report, NEW channel
    PROVE  Stays(table, Refresh(table, report, channel, now))
<1> DEFINE seen == [a \in Addr |-> [table[a] EXCEPT !.inMesh = (a \in report)]]
<1>1. seen \in Table
    BY SeenType
<1>2. Stays(table, seen)
    BY DEF Stays, Table, Member
<1> HIDE DEF seen
<1>3. Stays(seen, Forget(seen, channel, now))
    BY <1>1, ForgetStays
<1> QED BY <1>2, <1>3, StaysTransitive DEF Refresh, seen

LEMMA RenewalsStay ==
    ASSUME NEW table \in Table, NEW at \in RenewalRound(table)
    PROVE  Stays(table, WithRenewals(table, at))
<1>1. \A a \in at : Seat(table[a].cred, now)
    BY DEF RenewalRound, RenewalDue
<1> SUFFICES ASSUME NEW a \in Addr
             PROVE  LET c == table[a].cred
                        d == WithRenewals(table, at)[a].cred
                    IN  (d.id # 0 /\ d.revoked => d = c) /\ (Seat(d, now) => Seat(c, now))
    BY DEF Stays
<1>2. CASE a \in at
    <2>1. WithRenewals(table, at)[a].cred.revoked = table[a].cred.revoked
        BY <1>2 DEF WithRenewals, Table, Member, Credential
    <2> QED BY <1>1, <1>2, <2>1 DEF Seat
<1>3. CASE a \notin at
    BY <1>3 DEF WithRenewals
<1> QED BY <1>2, <1>3

\* The handlers that give nothing out and kick no one: the table may be written
\* on the way, and goes on as it is from there.
HostStays ==
    /\ open /\ open' /\ now' = now /\ code' = code
    /\ \E table : /\ Stays(members, table) /\ Stays(table, members')
                  /\ SaveMembers(table) \/ UNCHANGED bookFile

LEMMA TickStays ==
    ASSUME TypeOK, Tick \/ Sweep
    PROVE  HostStays
<1>1. PICK channel \in Channels :
        LET kept == Forget(members, channel, now)
        IN  \E at \in RenewalRound(kept) :
                members' = WithRenewals(kept, at) /\ Renewal(at, members')
    BY DEF Tick, Sweep
<1> DEFINE kept == Forget(members, channel, now)
<1>2. PICK at \in RenewalRound(kept) :
        members' = WithRenewals(kept, at) /\ Renewal(at, members')
    BY <1>1
<1>3. members \in Table /\ kept \in Table
    BY ForgetType DEF TypeOK, Table
<1>4. Stays(members, kept)
    BY <1>3, ForgetStays
<1> HIDE DEF kept
<1>5. Stays(kept, members')
    BY <1>2, <1>3, RenewalsStay
<1>6. Stays(members, members') /\ Stays(members', members')
    BY <1>4, <1>5, StaysTransitive DEF Stays
<1>7. SaveMembers(members') \/ UNCHANGED bookFile
    BY <1>2 DEF Renewal
<1>8. open /\ open' /\ now' = now /\ code' = code
    BY DEF Tick, Sweep
<1> QED BY <1>6, <1>7, <1>8 DEF HostStays

LEMMA RereadStays ==
    ASSUME TypeOK, OnPeersChanged \/ OnEngineDegraded \/ OnTunnelUp
    PROVE  HostStays
<1>1. PICK channel \in Channels :
        LET kept == Forget(members, channel, now)
        IN  \E at \in RenewalRound(kept) :
                LET renewed == WithRenewals(kept, at)
                IN  Renewal(at, renewed) /\ members' = Refresh(renewed, mesh, channel, now)
    BY DEF OnPeersChanged, OnEngineDegraded, OnTunnelUp, PeersChanged
<1> DEFINE kept == Forget(members, channel, now)
<1>2. PICK at \in RenewalRound(kept) :
        LET renewed == WithRenewals(kept, at)
        IN  Renewal(at, renewed) /\ members' = Refresh(renewed, mesh, channel, now)
    BY <1>1
<1>3. members \in Table /\ kept \in Table /\ now \in Nat
    BY ForgetType DEF TypeOK, Table
<1>4. Stays(members, kept)
    BY <1>3, ForgetStays
<1> HIDE DEF kept
<1> DEFINE renewed == WithRenewals(kept, at)
<1>5. renewed \in Table
    BY <1>3, WithRenewalsType
<1>6. Stays(kept, renewed)
    BY <1>3, RenewalsStay
<1> HIDE DEF renewed
<1>7. Renewal(at, renewed) /\ members' = Refresh(renewed, mesh, channel, now)
    BY <1>2 DEF renewed
<1>8. Stays(members, renewed) /\ Stays(renewed, members')
    BY <1>4, <1>5, <1>6, <1>7, RefreshStays, StaysTransitive
<1>9. SaveMembers(renewed) \/ UNCHANGED bookFile
    BY <1>7 DEF Renewal
<1>10. open /\ open' /\ now' = now /\ code' = code
    BY DEF OnPeersChanged, OnEngineDegraded, OnTunnelUp
<1> QED BY <1>8, <1>9, <1>10 DEF HostStays

LEMMA ChannelUpStays ==
    ASSUME TypeOK, OnMemberChannelUp
    PROVE  HostStays
<1>1. PICK channel \in Channels : members' = Refresh(members, mesh, channel, now)
    BY DEF OnMemberChannelUp, PeersChanged
<1>2. members \in Table /\ bookFile' = bookFile /\ open /\ open' /\ now' = now /\ code' = code
    BY DEF TypeOK, Table, OnMemberChannelUp, disk
<1>3. Stays(members, members') /\ Stays(members, members)
    BY <1>1, <1>2, RefreshStays DEF Stays
<1> QED BY <1>2, <1>3 DEF HostStays

\* A request either writes the table it leaves, or leaves no more than it found.
LEMMA IssueStays ==
    ASSUME TypeOK, NEW k \in Key, IssueCredentialFor(k)
    PROVE  SaveMembers(members') \/ (UNCHANGED bookFile /\ Stays(members, members'))
<1>1. members \in Table
    BY DEF TypeOK, Table
<1>2. Stays(members, members)
    BY DEF Stays
<1>3. ASSUME NEW table, Stays(members, table), NewSeat(table, k)
      PROVE  SaveMembers(members') \/ (UNCHANGED bookFile /\ Stays(members, members'))
    BY <1>3 DEF NewSeat
<1>4. ASSUME NEW a \in Holding(k)
      PROVE  Stays(members, WithCred(members, a, NoCred))
    <2>1. \A b \in Addr : WithCred(members, a, NoCred)[b].cred \in {members[b].cred, NoCred}
        BY <1>1 DEF WithCred, Table, Member, Holding
    <2>2. NoCred.id = 0 /\ ~Seat(NoCred, now)
        BY DEF NoCred, Seat, Live
    <2> QED BY <2>1, <2>2 DEF Stays
<1>5. ASSUME NEW a \in Holding(k), ReturnSeat(a) PROVE SaveMembers(members')
    BY <1>5 DEF ReturnSeat
<1> QED BY <1>2, <1>3, <1>4, <1>5 DEF IssueCredentialFor

\* The book of this code knows of every revocation.
BookKnows ==
    open /\ BookOf(code) => \A a \in Addr : LET c == members[a].cred IN
        Live(c, now) /\ c.revoked =>
            bookFile.entries[a].id = c.id /\ bookFile.entries[a].revoked

LEMMA SavedKnows ==
    ASSUME NEW table, Stays(table, members'), SaveMembers(table), "saveBook" \notin Fault,
           now' = now
    PROVE  BookKnows'
<1>1. bookFile'.entries = Entries(table)
    BY DEF SaveMembers
<1> QED BY <1>1 DEF BookKnows, Stays, Live, Entries

\* With nothing written, no more is revoked.
LEMMA UnsavedKnows ==
    ASSUME BookKnows, Stays(members, members'), UNCHANGED <<bookFile, code, now>>, open
    PROVE  BookKnows'
BY DEF BookKnows, Stays, Live, BookOf

KnowsInv == VetoInv /\ DiskInv /\ BookKnows

LEMMA KnowsNext ==
    ASSUME KnowsInv, [Next]_vars,
           Fault \cap {"saveBook", "apply", "revoke", "unknownId"} = {}
    PROVE  BookKnows'
<1>1. TypeOK /\ DiskInv /\ BookKnows /\ (~open => members = EmptyTable)
    BY DEF KnowsInv, DiskInv, VetoInv, VetoWithinHold
<1>2. /\ "saveBook" \notin Fault /\ "apply" \notin Fault
      /\ "revoke" \notin Fault /\ "unknownId" \notin Fault
    BY Zenon
<1>3. CASE HostStays
    <2>1. PICK table : /\ Stays(members, table) /\ Stays(table, members')
                       /\ SaveMembers(table) \/ UNCHANGED bookFile
        BY <1>3 DEF HostStays
    <2>2. open /\ now' = now /\ code' = code
        BY <1>3 DEF HostStays
    <2>3. CASE SaveMembers(table)
        BY <1>2, <2>1, <2>2, <2>3, SavedKnows
    <2>4. CASE UNCHANGED bookFile
        BY <1>1, <2>1, <2>2, <2>4, StaysTransitive, UnsavedKnows
    <2> QED BY <2>1, <2>3, <2>4
<1>4. CASE \/ Tick \/ Sweep \/ OnPeersChanged \/ OnEngineDegraded \/ OnTunnelUp
           \/ OnMemberChannelUp
    BY <1>1, <1>3, <1>4, TickStays, RereadStays, ChannelUpStays
<1>5. ASSUME NEW k \in Key, IssueCredentialFor(k)
      PROVE  BookKnows'
    <2>1. open /\ now' = now /\ code' = code
        BY <1>5 DEF IssueCredentialFor
    <2>2. Stays(members', members')
        BY DEF Stays
    <2>3. SaveMembers(members') \/ (UNCHANGED bookFile /\ Stays(members, members'))
        BY <1>1, <1>5, IssueStays
    <2> QED BY <1>1, <1>2, <2>1, <2>2, <2>3, SavedKnows, UnsavedKnows
<1>6. ASSUME NEW a \in Addr, KickMember(a)
      PROVE  BookKnows'
    <2>1. now' = now
        BY <1>6 DEF KickMember
    <2>2. Stays(members', members')
        BY DEF Stays
    <2>3. \A done \in BOOLEAN : Revocation(a, done) => done
        BY <1>2 DEF Revocation
    <2>4. SaveMembers(members')
        BY <1>2, <1>6, <2>3 DEF KickMember
    <2> QED BY <1>2, <2>1, <2>2, <2>4, SavedKnows
<1>7. CASE \/ ReapplyProtection \/ ActivateProfile \/ RenameRoom \/ EngineDies
           \/ OnEngineRestarted \/ (\E a \in Addr : Arrive(a) \/ Depart(a)) \/ UNCHANGED vars
    <2>1. UNCHANGED <<open, code, members, bookFile, now>>
        BY <1>7 DEF ReapplyProtection, ActivateProfile, RenameRoom, EngineDies,
                    OnEngineRestarted, Arrive, Depart, vars, host, disk
    <2> QED BY <1>1, <2>1 DEF BookKnows, BookOf
<1>8. CASE RotateInviteCode \/ CreateRoom
    <2>1. code' = codes + 1 /\ bookFile' = bookFile
        BY <1>8 DEF RotateInviteCode, CreateRoom
    <2>2. ~BookOf(code)'
        BY <1>1, <2>1 DEF DiskInv, TypeOK, BookOf
    <2> QED BY <2>2 DEF BookKnows
<1>9. CASE ResumeRoom
    <2>1. now' = now /\ bookFile' = bookFile /\ members' \in {EmptyTable, Loaded(bookFile.entries)}
        BY <1>9 DEF ResumeRoom
    <2>2. \A a \in Addr : ~EmptyTable[a].cred.revoked
        BY DEF EmptyTable, NoMember, NoCred
    <2>3. \A a \in Addr : LET c == Loaded(bookFile.entries)[a].cred IN
                c.revoked => c = bookFile.entries[a]
        BY DEF Loaded, NoMember, NoCred
    <2> QED BY <2>1, <2>2, <2>3 DEF BookKnows
<1>10. CASE CloseRoom \/ Crash \/ LeaveRoomOnShutdown
    <2>1. open' = FALSE
        BY <1>10 DEF CloseRoom, Crash, LeaveRoomOnShutdown, NewProcess, RoomDown
    <2> QED BY <2>1 DEF BookKnows
<1>11. CASE DiscardSavedRoom
    <2>1. UNCHANGED <<open, code, members, now>> /\ bookFile' \in {NoBook, bookFile}
        BY <1>11 DEF DiscardSavedRoom, Cleared
    <2>2. NoBook.gen = 0
        BY DEF NoBook
    <2> QED BY <1>1, <2>1, <2>2 DEF BookKnows, BookOf
<1>12. CASE PassTime
    <2>1. UNCHANGED <<open, code, members, bookFile>> /\ now' = now + 1
        BY <1>12 DEF PassTime, host, disk
    <2>2. \A a \in Addr : Live(members[a].cred, now') => Live(members[a].cred, now)
        BY <1>1, <2>1 DEF TypeOK, Live, Member, Credential
    <2> QED BY <1>1, <2>1, <2>2 DEF BookKnows, BookOf
<1> QED BY <1>4, <1>5, <1>6, <1>7, <1>8, <1>9, <1>10, <1>11, <1>12 DEF Next

\* While the book can be written and a kick is carried out in both layers, no
\* power cut brings back someone revoked: a book that would be taken back knows
\* of every revocation that still holds an address.
THEOREM KicksOutliveThePower ==
    ASSUME Fault \cap {"saveBook", "apply", "revoke", "unknownId"} = {}
    PROVE  Spec => []DiskKnowsRevocation
<1>1. Init => DiskInv /\ BookKnows
    BY TypeInitially DEF Init, DiskInv, BookOf, BookNotBehindRoom, NoRoom, NoBook, BookKnows
<1>2. VetoInv /\ DiskInv /\ BookKnows /\ [Next]_vars => DiskInv' /\ BookKnows'
    BY DiskNext, KnowsNext DEF KnowsInv
<1>3. BookKnows => DiskKnowsRevocation
    BY DEF BookKnows, BookOf, BookAccepted, DiskKnowsRevocation
<1> QED BY <1>1, <1>2, <1>3, VetoInductive, PTL DEF Spec

\* Of the seats: a step that is no new code and throws no saved room away under
\* an open one leaves whoever has a seat in a book of that code.
LEMMA SavedSeats ==
    ASSUME TypeOK, NEW table, SaveMembers(table), "saveBook" \notin Fault, code' = code
    PROVE  BookOf(code)'
<1>1. bookFile' = [gen |-> gen + 1, code |-> code, entries |-> Entries(table)]
    BY DEF SaveMembers
<1>2. bookFile'.gen # 0 /\ bookFile'.code = code
    BY <1>1 DEF TypeOK
<1> QED BY <1>2 DEF BookOf

LEMMA SeatsNext ==
    ASSUME VetoInv, DiskInv, SeatsInBook, [Next]_vars, "saveBook" \notin Fault,
           open => UNCHANGED <<code, saved>>
    PROVE  SeatsInBook'
<1>1. TypeOK /\ (~open => members = EmptyTable)
    BY DEF VetoInv, VetoWithinHold
<1>2. ~\E a \in Addr : Seat(EmptyTable[a].cred, now')
    BY DEF EmptyTable, NoMember, NoCred, Seat, Live
<1>4. CASE HostStays
    <2>1. PICK table : /\ Stays(members, table) /\ Stays(table, members')
                       /\ SaveMembers(table) \/ UNCHANGED bookFile
        BY <1>4 DEF HostStays
    <2>2. open /\ now' = now /\ code' = code
        BY <1>4 DEF HostStays
    <2>3. CASE SaveMembers(table)
        BY <1>1, <2>2, <2>3, SavedSeats DEF SeatsInBook, BookOf
    <2>4. CASE UNCHANGED bookFile
        BY <2>1, <2>2, <2>4 DEF SeatsInBook, Stays, BookOf
    <2> QED BY <2>1, <2>3, <2>4
<1>5. CASE \/ Tick \/ Sweep \/ OnPeersChanged \/ OnEngineDegraded \/ OnTunnelUp
           \/ OnMemberChannelUp
    BY <1>1, <1>4, <1>5, TickStays, RereadStays, ChannelUpStays
<1>6. ASSUME NEW k \in Key, IssueCredentialFor(k)
      PROVE  SeatsInBook'
    <2>1. open /\ now' = now /\ code' = code
        BY <1>6 DEF IssueCredentialFor
    <2>2. SaveMembers(members') \/ (UNCHANGED bookFile /\ Stays(members, members'))
        BY <1>1, <1>6, IssueStays
    <2>3. CASE SaveMembers(members')
        BY <1>1, <2>1, <2>3, SavedSeats DEF SeatsInBook, BookOf
    <2>4. CASE UNCHANGED bookFile /\ Stays(members, members')
        BY <2>1, <2>4 DEF SeatsInBook, Stays, BookOf
    <2> QED BY <2>2, <2>3, <2>4
<1>7. ASSUME NEW a \in Addr, KickMember(a)
      PROVE  SeatsInBook'
    <2>1. /\ open /\ open' = open /\ code' = code /\ now' = now
          /\ members' = [members EXCEPT ![a] = Kicked(@)]
        BY <1>7 DEF KickMember
    <2>2. SaveMembers(members') \/ UNCHANGED bookFile
        BY <1>7 DEF KickMember
    <2>3. members'[a].cred.revoked /\ \A b \in Addr \ {a} : members'[b] = members[b]
        BY <1>1, <2>1 DEF Kicked, TypeOK, Member, Credential
    <2>4. \A b \in Addr : Seat(members'[b].cred, now) => Seat(members[b].cred, now)
        BY <2>3 DEF Seat
    <2>5. CASE SaveMembers(members')
        BY <1>1, <2>1, <2>5, SavedSeats DEF SeatsInBook, BookOf
    <2>6. CASE UNCHANGED bookFile
        BY <2>1, <2>4, <2>6 DEF SeatsInBook, BookOf
    <2> QED BY <2>2, <2>5, <2>6
<1>8. CASE \/ ReapplyProtection \/ ActivateProfile \/ RenameRoom \/ EngineDies
           \/ OnEngineRestarted \/ (\E a \in Addr : Arrive(a) \/ Depart(a)) \/ UNCHANGED vars
    <2>1. UNCHANGED <<open, code, members, bookFile, now>>
        BY <1>8 DEF ReapplyProtection, ActivateProfile, RenameRoom, EngineDies,
                    OnEngineRestarted, Arrive, Depart, vars, host, disk
    <2> QED BY <2>1 DEF SeatsInBook, BookOf
<1>9. ~RotateInviteCode
    <2>1. ~(open /\ code' = codes + 1)
        BY DEF DiskInv, TypeOK
    <2> QED BY <2>1 DEF RotateInviteCode
<1>10. CASE CreateRoom
    <2>1. members' = EmptyTable
        BY <1>1, <1>10 DEF CreateRoom
    <2> QED BY <1>2, <2>1 DEF SeatsInBook
<1>11. CASE ResumeRoom
    <2>1. CASE BookAccepted(saved)
        BY <1>11, <2>1 DEF ResumeRoom, SeatsInBook, BookAccepted
    <2>2. CASE ~BookAccepted(saved)
        BY <1>2, <1>11, <2>2 DEF ResumeRoom, SeatsInBook
    <2> QED BY <2>1, <2>2
<1>12. CASE CloseRoom \/ Crash \/ LeaveRoomOnShutdown
    <2>1. open' = FALSE
        BY <1>12 DEF CloseRoom, Crash, LeaveRoomOnShutdown, NewProcess, RoomDown
    <2> QED BY <2>1 DEF SeatsInBook
<1>13. CASE DiscardSavedRoom
    <2>1. ~open
        BY <1>13 DEF DiscardSavedRoom, NoRoom
    <2> QED BY <1>13, <2>1 DEF DiscardSavedRoom, SeatsInBook
<1>14. CASE PassTime
    <2>1. UNCHANGED <<open, code, members, bookFile>> /\ now' = now + 1
        BY <1>14 DEF PassTime, host, disk
    <2>2. \A a \in Addr : Seat(members[a].cred, now') => Seat(members[a].cred, now)
        BY <1>1, <2>1 DEF TypeOK, Seat, Live, Member, Credential
    <2> QED BY <2>1, <2>2 DEF SeatsInBook, BookOf
<1> QED BY <1>5, <1>6, <1>7, <1>8, <1>9, <1>10, <1>11, <1>12, <1>13, <1>14 DEF Next

\* A machine that can write its book takes the seats of its room back after a
\* power cut, whichever write of the room was lost, until it renews its code or
\* throws a saved room away, and again from the first book of the new code on:
\* whatever the codes and the restarts, no other step takes whoever has a seat
\* out of the book, and a book they are in is one that reopening would take.
THEOREM SeatsOutliveThePower ==
    ASSUME "saveBook" \notin Fault
    PROVE  Spec => SeatsStayInBook /\ [](SeatsInBook => RestartKeepsBook)
<1>1. Init => DiskInv
    BY TypeInitially DEF Init, DiskInv, BookOf, BookNotBehindRoom, NoRoom, NoBook
<1>2. DiskInv /\ [Next]_vars => DiskInv'
    BY DiskNext
<1>3. VetoInv /\ DiskInv /\ [Next]_vars =>
          [SeatsInBook /\ (open => UNCHANGED <<code, saved>>) => SeatsInBook']_vars
    BY SeatsNext
<1>4. DiskInv => (SeatsInBook => RestartKeepsBook)
    BY DEF DiskInv, TypeOK, SeatsInBook, BookOf, BookAccepted, BookNotBehindRoom, RestartKeepsBook
<1> QED BY <1>1, <1>2, <1>3, <1>4, VetoInductive, PTL DEF Spec, SeatsStayInBook

(***************************************************************************)
(* The seats.  What the host does to a member table is one of four things: *)
(* it renews some seats and drops what no longer lends nor holds anything, *)
(* it gives a free address out, it turns a seat into a hold, or it starts  *)
(* from nothing or from the book.  Each is a step of Seats.                *)
(***************************************************************************)

Lending == Leases(Entries(members), now)
Written == Leases(bookFile.entries, now)

\* Every credential is somebody's.
Keyed(creds) == \A a \in Addr : creds[a].id # 0 => creds[a].key # NoKey

LendInv ==
    /\ SeatInv
    /\ ~open => members = EmptyTable
    /\ Keyed(Entries(members))
    /\ Keyed(bookFile.entries)

\* The seats at some addresses are renewed, and elsewhere only entries go that
\* neither lend nor hold.
Rolls(old, new, at) ==
    /\ \A a \in at : a \in Addr /\ Seat(old[a].cred, now)
    /\ \A a \in Addr :
        IF a \in at THEN new[a].cred = [old[a].cred EXCEPT !.expiresAt = now + CredentialTTL]
        ELSE \/ new[a].cred = old[a].cred
             \/ ~Live(old[a].cred, now) /\ new[a].cred = NoCred

LEMMA RollsSelf ==
    ASSUME NEW table
    PROVE  Rolls(table, table, {})
BY DEF Rolls

LEMMA ForgetRolls ==
    ASSUME NEW table \in Table, NEW channel
    PROVE  Rolls(table, Forget(table, channel, now), {})
<1>1. \A a \in Addr : VetoLifted(table[a], now).cred = table[a].cred
    BY DEF VetoLifted, Table, Member
<1> QED BY <1>1 DEF Forget, Rolls, NoMember

LEMMA RollsOn ==
    ASSUME NEW x, NEW y, NEW z, NEW at, Rolls(x, y, {}), Rolls(y, z, at)
    PROVE  Rolls(x, z, at)
<1>1. ~Live(NoCred, now)
    BY DEF Live, NoCred
<1> QED BY <1>1 DEF Rolls, Seat

LEMMA RollsOut ==
    ASSUME NEW x \in Table, NEW y, NEW z, NEW at, now \in Nat,
           Rolls(x, y, at), Rolls(y, z, {})
    PROVE  Rolls(x, z, at)
<1>1. ASSUME NEW a \in at
      PROVE  z[a].cred = [x[a].cred EXCEPT !.expiresAt = now + CredentialTTL]
    <2>1. a \in Addr /\ Seat(x[a].cred, now) /\ x[a].cred \in Credential
        BY DEF Rolls, Table, Member
    <2>2. y[a].cred = [x[a].cred EXCEPT !.expiresAt = now + CredentialTTL]
        BY <2>1 DEF Rolls
    <2>3. Live(y[a].cred, now)
        BY <2>1, <2>2, TimeAssumption DEF Seat, Live, Credential
    <2> QED BY <2>1, <2>2, <2>3 DEF Rolls
<1> QED BY <1>1 DEF Rolls

LEMMA RefreshRolls ==
    ASSUME NEW table \in Table, NEW report, NEW channel
    PROVE  Rolls(table, Refresh(table, report, channel, now), {})
<1> DEFINE seen == [a \in Addr |-> [table[a] EXCEPT !.inMesh = (a \in report)]]
<1>1. seen \in Table
    BY SeenType
<1>2. Rolls(table, seen, {})
    BY DEF Rolls, Table, Member
<1> HIDE DEF seen
<1>3. Rolls(seen, Forget(seen, channel, now), {})
    BY <1>1, ForgetRolls
<1> QED BY <1>2, <1>3, RollsOn DEF Refresh, seen

LEMMA RenewalsRoll ==
    ASSUME NEW table \in Table, NEW at \in RenewalRound(table)
    PROVE  Rolls(table, WithRenewals(table, at), at)
<1>1. \A a \in at : a \in Addr /\ Seat(table[a].cred, now)
    BY DEF RenewalRound, RenewalDue
<1>2. ASSUME NEW a \in Addr
      PROVE  WithRenewals(table, at)[a].cred =
                IF a \in at THEN [table[a].cred EXCEPT !.expiresAt = now + CredentialTTL]
                ELSE table[a].cred
    BY DEF WithRenewals, Table, Member
<1> QED BY <1>1, <1>2 DEF Rolls

\* What the table lends afterwards.
LEMMA RolledLeases ==
    ASSUME NEW old \in Table, NEW new, NEW at, Rolls(old, new, at), now \in Nat
    PROVE  Leases(Entries(new), now) =
            [a \in Addr |->
                IF a \in at THEN [Leases(Entries(old), now)[a] EXCEPT !.until = now + CredentialTTL]
                ELSE Leases(Entries(old), now)[a]]
<1> SUFFICES ASSUME NEW a \in Addr
             PROVE  LeaseOf(new[a].cred, now) =
                        IF a \in at THEN [LeaseOf(old[a].cred, now) EXCEPT !.until = now + CredentialTTL]
                        ELSE LeaseOf(old[a].cred, now)
    BY DEF Leases, Entries
<1>1. old[a].cred \in Credential
    BY DEF Table, Member
<1>2. CASE a \in at
    <2>1. new[a].cred = [old[a].cred EXCEPT !.expiresAt = now + CredentialTTL]
        BY <1>2 DEF Rolls
    <2>2. Seat(old[a].cred, now)
        BY <1>2 DEF Rolls
    <2>3. Live(new[a].cred, now) /\ ~new[a].cred.revoked
        BY <1>1, <2>1, <2>2, TimeAssumption DEF Seat, Live, Credential
    <2>4. /\ new[a].cred.key = old[a].cred.key
          /\ new[a].cred.expiresAt = now + CredentialTTL
        BY <1>1, <2>1 DEF Credential
    <2> QED BY <1>2, <2>2, <2>3, <2>4 DEF LeaseOf, Seat
<1>3. CASE a \notin at
    <2>1. \/ new[a].cred = old[a].cred
          \/ ~Live(old[a].cred, now) /\ new[a].cred = NoCred
        BY <1>3 DEF Rolls
    <2> QED BY <1>3, <2>1 DEF LeaseOf, Live, NoCred
<1> QED BY <1>2, <1>3

LEMMA RolledKeyed ==
    ASSUME NEW old \in Table, NEW new, NEW at, Rolls(old, new, at), Keyed(Entries(old))
    PROVE  Keyed(Entries(new))
<1>1. \A a \in Addr : old[a].cred \in Credential
    BY DEF Table, Member
<1>2. ASSUME NEW a \in Addr, new[a].cred.id # 0
      PROVE  new[a].cred.key # NoKey
    <2>1. new[a].cred # NoCred
        BY <1>2 DEF NoCred
    <2>2. \/ new[a].cred = old[a].cred
          \/ new[a].cred = [old[a].cred EXCEPT !.expiresAt = now + CredentialTTL]
        BY <2>1 DEF Rolls
    <2>3. new[a].cred.id = old[a].cred.id /\ new[a].cred.key = old[a].cred.key
        BY <1>1, <2>2 DEF Credential
    <2> QED BY <1>2, <2>3 DEF Keyed, Entries
<1> QED BY <1>2 DEF Keyed, Entries

\* The handlers that give nothing out and kick no one: what they renew they
\* write, and what they drop after that is of no one.
HostRolls ==
    /\ open /\ open' /\ now' = now
    /\ \E at :
        /\ Rolls(members, members', at)
        /\ \/ UNCHANGED bookFile
           \/ /\ at # {}
              /\ \E table \in Table :
                    /\ Rolls(members, table, at) /\ Rolls(table, members', {})
                    /\ bookFile'.entries = Entries(table)

LEMMA RenewalBook ==
    ASSUME NEW at, NEW table, Renewal(at, table)
    PROVE  UNCHANGED bookFile \/ (at # {} /\ bookFile'.entries = Entries(table))
BY DEF Renewal, SaveMembers

LEMMA TickRolls ==
    ASSUME TypeOK, Tick \/ Sweep
    PROVE  HostRolls
<1>1. PICK channel \in Channels :
        LET kept == Forget(members, channel, now)
        IN  \E at \in RenewalRound(kept) :
                members' = WithRenewals(kept, at) /\ Renewal(at, members')
    BY DEF Tick, Sweep
<1> DEFINE kept == Forget(members, channel, now)
<1>2. PICK at \in RenewalRound(kept) :
        members' = WithRenewals(kept, at) /\ Renewal(at, members')
    BY <1>1
<1>3. members \in Table /\ kept \in Table /\ now \in Nat
    BY ForgetType DEF TypeOK, Table
<1>4. Rolls(members, kept, {})
    BY <1>3, ForgetRolls
<1> HIDE DEF kept
<1>5. Rolls(members, members', at) /\ Rolls(members', members', {}) /\ members' \in Table
    BY <1>2, <1>3, <1>4, RenewalsRoll, RollsOn, RollsSelf, WithRenewalsType
<1>6. open /\ open' /\ now' = now
    BY DEF Tick, Sweep
<1> QED BY <1>2, <1>5, <1>6, RenewalBook DEF HostRolls

LEMMA RereadRolls ==
    ASSUME TypeOK, OnPeersChanged \/ OnEngineDegraded \/ OnTunnelUp
    PROVE  HostRolls
<1>1. PICK channel \in Channels :
        LET kept == Forget(members, channel, now)
        IN  \E at \in RenewalRound(kept) :
                LET renewed == WithRenewals(kept, at)
                IN  Renewal(at, renewed) /\ members' = Refresh(renewed, mesh, channel, now)
    BY DEF OnPeersChanged, OnEngineDegraded, OnTunnelUp, PeersChanged
<1> DEFINE kept == Forget(members, channel, now)
<1>2. PICK at \in RenewalRound(kept) :
        LET renewed == WithRenewals(kept, at)
        IN  Renewal(at, renewed) /\ members' = Refresh(renewed, mesh, channel, now)
    BY <1>1
<1>3. members \in Table /\ kept \in Table /\ now \in Nat
    BY ForgetType DEF TypeOK, Table
<1>4. Rolls(members, kept, {})
    BY <1>3, ForgetRolls
<1> HIDE DEF kept
<1> DEFINE renewed == WithRenewals(kept, at)
<1>5. renewed \in Table /\ Rolls(members, renewed, at)
    BY <1>3, <1>4, WithRenewalsType, RenewalsRoll, RollsOn
<1> HIDE DEF renewed
<1>6. Renewal(at, renewed) /\ members' = Refresh(renewed, mesh, channel, now)
    BY <1>2 DEF renewed
<1>7. Rolls(renewed, members', {})
    BY <1>5, <1>6, RefreshRolls
<1>8. Rolls(members, members', at)
    BY <1>3, <1>5, <1>7, RollsOut
<1>9. open /\ open' /\ now' = now
    BY DEF OnPeersChanged, OnEngineDegraded, OnTunnelUp
<1> QED BY <1>5, <1>6, <1>7, <1>8, <1>9, RenewalBook DEF HostRolls

LEMMA ChannelUpRolls ==
    ASSUME TypeOK, OnMemberChannelUp
    PROVE  HostRolls
<1>1. PICK channel \in Channels : members' = Refresh(members, mesh, channel, now)
    BY DEF OnMemberChannelUp, PeersChanged
<1>2. members \in Table /\ bookFile' = bookFile /\ open /\ open' /\ now' = now
    BY DEF TypeOK, Table, OnMemberChannelUp, disk
<1> QED BY <1>1, <1>2, RefreshRolls DEF HostRolls

\* What is lent and what stays in, seen from the abstract specification.
LEMMA StayInRefines ==
    ASSUME StaysIn
    PROVE  Seating!StayIn
<1>1. \A a \in Addr : Lending[a].key # NoKey => Seat(members[a].cred, now)
    BY DEF Lending, Leases, LeaseOf, Entries, Seat
<1>2. \A a \in Addr : Lending'[a].key # NoKey => Seat(members'[a].cred, now')
    BY DEF Lending, Leases, LeaseOf, Entries, Seat
<1> QED BY <1>1, <1>2 DEF Seating!StayIn, Lending, StaysIn

LEMMA RollsRefine ==
    ASSUME LendInv, HostRolls, TypeOK', StaysIn
    PROVE  /\ Seating!Next
           /\ Keyed(Entries(members')) /\ Keyed(bookFile'.entries)
<1>1. PICK at :
        /\ Rolls(members, members', at)
        /\ \/ UNCHANGED bookFile
           \/ /\ at # {}
              /\ \E table \in Table :
                    /\ Rolls(members, table, at) /\ Rolls(table, members', {})
                    /\ bookFile'.entries = Entries(table)
    BY DEF HostRolls
<1>2. /\ members \in Table /\ members' \in Table /\ now \in Nat
      /\ open /\ open' /\ open' = open /\ now' = now
    BY DEF HostRolls, LendInv, SeatInv, TypeOK, Table
<1>3. Lending' = [a \in Addr |-> IF a \in at THEN [Lending[a] EXCEPT !.until = now + CredentialTTL]
                                 ELSE Lending[a]]
    BY <1>1, <1>2, RolledLeases DEF Lending
<1>4. Keyed(Entries(members'))
    BY <1>1, <1>2, RolledKeyed DEF LendInv
<1>5. Seating!StayIn
    BY StayInRefines
<1>6. CASE UNCHANGED bookFile /\ at = {}
    <2>1. Lending' = Lending
        BY <1>3, <1>6 DEF Lending, Leases
    <2>2. Written' = Written
        BY <1>2, <1>6 DEF Written
    <2>3. Seating!Admit
        BY <1>2, <1>5, <2>1, <2>2 DEF Seating!Admit, Lending, Written
    <2> QED BY <1>4, <1>6, <2>3 DEF Seating!Next, LendInv
<1>7. CASE at # {}
    <2>1. at \in SUBSET Addr /\ at \subseteq Seating!Lent(Lending)
        <3>1. \A a \in at : a \in Addr /\ Seat(members[a].cred, now)
            BY <1>1 DEF Rolls
        <3>2. \A a \in at : members[a].cred.key # NoKey
            BY <3>1 DEF LendInv, Keyed, Entries, Seat, Live
        <3> QED BY <3>1, <3>2 DEF Seating!Lent, Lending, Leases, LeaseOf, Entries, Seat
    <2>2. /\ Written' \in {Written, Lending'}
          /\ Keyed(bookFile'.entries)
        <3>1. CASE UNCHANGED bookFile
            BY <1>2, <3>1 DEF Written, LendInv
        <3>2. CASE ~UNCHANGED bookFile
            <4>1. PICK table \in Table :
                    /\ Rolls(members, table, at) /\ Rolls(table, members', {})
                    /\ bookFile'.entries = Entries(table)
                BY <1>1, <3>2
            <4>2. Leases(Entries(members'), now) = Leases(Entries(table), now)
                <5>1. Leases(Entries(members'), now) =
                        [a \in Addr |-> IF a \in {} THEN [Leases(Entries(table), now)[a]
                                                            EXCEPT !.until = now + CredentialTTL]
                                        ELSE Leases(Entries(table), now)[a]]
                    BY <1>2, <4>1, RolledLeases
                <5> QED BY <5>1 DEF Leases
            <4>3. Keyed(Entries(table))
                BY <1>2, <4>1, RolledKeyed DEF LendInv
            <4> QED BY <1>2, <4>1, <4>2, <4>3 DEF Written, Lending
        <3> QED BY <3>1, <3>2
    <2>3. Seating!Renew(at)
        BY <1>2, <1>3, <1>5, <1>7, <2>1, <2>2 DEF Seating!Renew, Seating!Write, Lending, Written
    <2> QED BY <1>4, <2>1, <2>2, <2>3 DEF Seating!Next
<1> QED BY <1>1, <1>6, <1>7

\* One entry of the table is another credential, and the others are what they
\* were.
LEMMA OneLease ==
    ASSUME NEW a \in Addr, NEW c,
           \A b \in Addr : members'[b].cred = IF b = a THEN c ELSE members[b].cred,
           now' = now
    PROVE  Lending' = [Lending EXCEPT ![a] = LeaseOf(c, now)]
<1>1. \A b \in Addr : Lending'[b] = LeaseOf(members'[b].cred, now)
    BY DEF Lending, Leases, Entries
<1>2. \A b \in Addr : Lending[b] = LeaseOf(members[b].cred, now)
    BY DEF Lending, Leases, Entries
<1>3. Lending' = [b \in Addr |-> Lending'[b]] /\ DOMAIN Lending = Addr
    BY DEF Lending, Leases
<1> QED BY <1>1, <1>2, <1>3

\* The book is what it was, or what the table is now.
LEMMA BookRefines ==
    ASSUME UNCHANGED bookFile \/ SaveMembers(members'), now' = now
    PROVE  Seating!Write
<1>1. bookFile'.entries \in {bookFile.entries, Entries(members')}
    BY DEF SaveMembers
<1> QED BY <1>1 DEF Seating!Write

LEMMA BookKeyed ==
    ASSUME UNCHANGED bookFile \/ SaveMembers(members'),
           Keyed(bookFile.entries), Keyed(Entries(members'))
    PROVE  Keyed(bookFile'.entries)
<1>1. bookFile'.entries \in {bookFile.entries, Entries(members')}
    BY DEF SaveMembers
<1> QED BY <1>1

LEMMA KickRefines ==
    ASSUME LendInv, TypeOK', StaysIn, NEW a \in Addr, KickMember(a)
    PROVE  /\ Seating!Next
           /\ Keyed(Entries(members')) /\ Keyed(bookFile'.entries)
<1>1. /\ members \in Table /\ now \in Nat /\ now' = now /\ open /\ open' = open
      /\ members' = [members EXCEPT ![a] = Kicked(@)]
      /\ members[a].cred.id # 0
      /\ scope' = MemberIPs(members', now)
      /\ UNCHANGED bookFile \/ SaveMembers(members')
    BY DEF LendInv, SeatInv, TypeOK, Table, KickMember, Kickable, RestrictControlChannel
<1> DEFINE c == Kicked(members[a]).cred
<1>2. members[a].cred \in Credential /\ members[a] \in Member
    BY <1>1 DEF Table, Member
<1>3. /\ c.id = members[a].cred.id /\ c.key = members[a].cred.key
      /\ c.revoked /\ c.expiresAt = now + ArrivalGrace
      /\ Kicked(members[a]).kickedAt = now
    BY <1>2 DEF Kicked, Member, Credential
<1>4. \A b \in Addr : members'[b].cred = IF b = a THEN c ELSE members[b].cred
    BY <1>1 DEF Table
<1>5. members'[a].kickedAt = now
    BY <1>1, <1>3 DEF Table
<1> HIDE DEF c
<1>6. LeaseOf(c, now) = [key |-> NoKey, until |-> now + ArrivalGrace]
    <2>1. Live(c, now)
        BY <1>1, <1>2, <1>3, TimeAssumption DEF Live, Credential
    <2> QED BY <1>3, <2>1 DEF LeaseOf
<1>7. a \notin scope'
    BY <1>1, <1>5 DEF MemberIPs, IsMember, NoVeto
<1>8. Lending' = [Lending EXCEPT ![a] = [key |-> NoKey, until |-> now + ArrivalGrace]]
    BY <1>1, <1>4, <1>6, OneLease
<1>9. Seating!Kick(a)
    BY <1>1, <1>7, <1>8, StayInRefines, BookRefines DEF Seating!Kick, Lending
<1>10. Keyed(Entries(members'))
    BY <1>3, <1>4 DEF LendInv, Keyed, Entries
<1>11. Keyed(bookFile'.entries)
    BY <1>1, <1>10, BookKeyed DEF LendInv
<1> QED BY <1>9, <1>10, <1>11 DEF Seating!Next

\* The seat a key has, as the abstract specification sees it.
LEMMA SeatOfKey ==
    ASSUME NEW k \in Key, NEW a \in Addr
    PROVE  Lending[a].key = k <=> a \in Holding(k)
BY KeyAssumption DEF Lending, Leases, LeaseOf, Entries, Holding, Seat

\* The table a request works on, its seat taken out of it when there was one.
LEMMA TableWithout ==
    ASSUME LendInv, NEW k \in Key, NEW table \in Table,
           \/ Holding(k) = {} /\ table = members
           \/ \E a \in Holding(k) : table = WithCred(members, a, NoCred)
    PROVE  /\ Leases(Entries(table), now) = Seating!Without(k)
           /\ Keyed(Entries(table))
<1>1. members \in Table
    BY DEF LendInv, SeatInv, TypeOK, Table
<1>2. \A a, b \in Holding(k) : a = b
    BY DEF LendInv, SeatInv, SeatsApart, Entries, Holding
<1>3. \A a \in Addr : table[a].cred = IF a \in Holding(k) THEN NoCred ELSE members[a].cred
    BY <1>1, <1>2 DEF WithCred, Table, Member, Holding
<1>4. \A a \in Addr : LeaseOf(table[a].cred, now) =
                IF Lending[a].key = k THEN [key |-> NoKey, until |-> 0] ELSE Lending[a]
    BY <1>3, SeatOfKey DEF LeaseOf, Live, NoCred, Lending, Leases, Entries
<1>5. Keyed(Entries(table))
    BY <1>3 DEF LendInv, Keyed, Entries, NoCred
<1> QED BY <1>4, <1>5 DEF Leases, Entries, Seating!Without, Seating!Free, Lending

LEMMA NewSeatRefines ==
    ASSUME LendInv, TypeOK', StaysIn, NEW k \in Key, NEW table \in Table, NewSeat(table, k),
           \/ Holding(k) = {} /\ table = members
           \/ \E a \in Holding(k) : table = WithCred(members, a, NoCred),
           open, open' = open, now' = now
    PROVE  /\ Seating!Next
           /\ Keyed(Entries(members')) /\ Keyed(bookFile'.entries)
<1>1. /\ Leases(Entries(table), now) = Seating!Without(k)
      /\ Keyed(Entries(table))
    BY TableWithout
<1>2. CASE members' = table /\ UNCHANGED <<scope, rules, bookFile>>
    <2>1. Seating!Lose(k)
        BY <1>1, <1>2 DEF Seating!Lose
    <2> QED BY <1>1, <1>2, <2>1 DEF Seating!Next, LendInv
<1>3. CASE /\ ~(Addr \subseteq Taken(table))
           /\ members' = WithCred(table, NextFree(table), NewCred(k))
           /\ SaveMembers(members')
    <2> DEFINE n == NextFree(table)
               c == NewCred(k)
    <2>1. n \in Addr /\ ~Live(table[n].cred, now)
        BY <1>3, NextFreeIsFree DEF Taken
    <2>2. \A b \in Addr : members'[b].cred = IF b = n THEN c ELSE table[b].cred
        BY <1>3, <2>1 DEF WithCred, Table, Member
    <2>3. now \in Nat /\ requests \in Nat
        BY DEF LendInv, SeatInv, TypeOK
    <2>4. LeaseOf(c, now) = [key |-> k, until |-> now + CredentialTTL]
        BY <2>3, TimeAssumption DEF NewCred, LeaseOf, Live
    <2>5. c.key # NoKey
        BY KeyAssumption DEF NewCred
    <2> HIDE DEF n, c
    <2>6. Seating!Without(k)[n] = Seating!Free
        <3>1. Seating!Without(k)[n] = LeaseOf(table[n].cred, now)
            BY <1>1, <2>1 DEF Leases, Entries
        <3> QED BY <2>1, <3>1 DEF LeaseOf, Seating!Free
    <2>7. Lending' = [Seating!Without(k) EXCEPT ![n] = [key |-> k, until |-> now + CredentialTTL]]
        <3>1. \A b \in Addr : Lending'[b] = LeaseOf(members'[b].cred, now)
            BY DEF Lending, Leases, Entries
        <3>2. \A b \in Addr : Seating!Without(k)[b] = LeaseOf(table[b].cred, now)
            BY <1>1 DEF Leases, Entries
        <3>3. Lending' = [b \in Addr |-> Lending'[b]] /\ DOMAIN Seating!Without(k) = Addr
            BY DEF Lending, Leases, Seating!Without
        <3> QED BY <2>1, <2>2, <2>4, <3>1, <3>2, <3>3
    <2>8. Seating!Lend(k, n)
        BY <1>3, <2>6, <2>7, StayInRefines, BookRefines DEF Seating!Lend, Lending
    <2>9. Keyed(Entries(members'))
        BY <1>1, <2>2, <2>5 DEF Keyed, Entries
    <2>10. Keyed(bookFile'.entries)
        BY <1>3, <2>9, BookKeyed DEF LendInv
    <2> QED BY <2>1, <2>8, <2>9, <2>10 DEF Seating!Next
<1> QED BY <1>2, <1>3 DEF NewSeat

LEMMA IssueRefines ==
    ASSUME LendInv, TypeOK', StaysIn, NEW k \in Key, IssueCredentialFor(k)
    PROVE  /\ Seating!Next
           /\ Keyed(Entries(members')) /\ Keyed(bookFile'.entries)
<1>1. /\ members \in Table /\ now \in Nat /\ now' = now /\ open /\ open' = open
    BY DEF LendInv, SeatInv, TypeOK, Table, IssueCredentialFor
<1>2. CASE Holding(k) = {} /\ NewSeat(members, k)
    BY <1>1, <1>2, NewSeatRefines
<1>3. ASSUME NEW a \in Holding(k), NewSeat(WithCred(members, a, NoCred), k)
      PROVE  /\ Seating!Next
             /\ Keyed(Entries(members')) /\ Keyed(bookFile'.entries)
    <2>1. WithCred(members, a, NoCred) \in Table
        BY <1>1, WithCredType, NoCredType
    <2> QED BY <1>1, <1>3, <2>1, NewSeatRefines
<1>4. ASSUME NEW a \in Holding(k), ReturnSeat(a)
      PROVE  /\ Seating!Next
             /\ Keyed(Entries(members')) /\ Keyed(bookFile'.entries)
    <2> DEFINE c == [members[a].cred EXCEPT !.expiresAt = now + CredentialTTL]
    <2>1. a \in Addr /\ Seat(members[a].cred, now)
        BY DEF Holding
    <2>2. members' = WithCred(members, a, c) /\ SaveMembers(members')
        BY <1>4 DEF ReturnSeat
    <2>3. \A b \in Addr : members'[b].cred = IF b \in {a} THEN c ELSE members[b].cred
        BY <1>1, <2>1, <2>2 DEF WithCred, Table, Member
    <2>4. Rolls(members, members', {a})
        BY <2>1, <2>3 DEF Rolls
    <2>5. /\ members' \in Table
          /\ UNCHANGED bookFile \/ bookFile'.entries = Entries(members')
        BY <2>2 DEF SaveMembers, TypeOK, Table
    <2>6. HostRolls
        BY <1>1, <2>4, <2>5, RollsSelf DEF HostRolls
    <2> QED BY <2>6, RollsRefine
<1> QED BY <1>2, <1>3, <1>4 DEF IssueCredentialFor

\* Nothing is lent in an empty table, and nothing it holds is anybody's.
LEMMA EmptyLends ==
    ASSUME NEW t
    PROVE  /\ Leases(Entries(EmptyTable), t) = Seating!Empty
           /\ Leases(NoBook.entries, t) = Seating!Empty
           /\ Keyed(Entries(EmptyTable)) /\ Keyed(NoBook.entries)
<1>1. \A a \in Addr : Entries(EmptyTable)[a] = NoCred
    BY DEF Entries, EmptyTable, NoMember
<1>2. ~Live(NoCred, t) /\ NoCred.id = 0
    BY DEF Live, NoCred
<1>3. Leases(Entries(EmptyTable), t) = Seating!Empty
    BY <1>1, <1>2 DEF Leases, LeaseOf, Seating!Empty, Seating!Free
<1>4. NoBook.entries = Entries(EmptyTable)
    BY DEF NoBook
<1> QED BY <1>1, <1>2, <1>3, <1>4 DEF Keyed

\* A room that opens.
LEMMA OpenRefines ==
    ASSUME LendInv, CreateRoom \/ ResumeRoom
    PROVE  /\ Seating!Next
           /\ Keyed(Entries(members')) /\ Keyed(bookFile'.entries)
<1>1. /\ ~open /\ open' /\ scope' \cap rules' = {}
      /\ now' = now /\ bookFile' = bookFile
      /\ members = EmptyTable
      /\ bookFile.entries \in [Addr -> Credential]
    BY DEF LendInv, SeatInv, TypeOK, CreateRoom, ResumeRoom
<1>2. CASE members' = EmptyTable
    <2>1. Seating!Open
        BY <1>1, <1>2, EmptyLends DEF Seating!Open
    <2> QED BY <1>1, <1>2, <2>1, EmptyLends DEF Seating!Next, LendInv
<1>3. CASE members' = Loaded(bookFile.entries)
    <2>1. \A a \in Addr : members'[a].cred =
                IF Live(bookFile.entries[a], now) THEN bookFile.entries[a] ELSE NoCred
        BY <1>3 DEF Loaded, NoMember
    <2>2. Lending' = Written
        BY <1>1, <2>1 DEF Lending, Written, Leases, LeaseOf, Entries, Live, NoCred
    <2>3. Seating!Open
        BY <1>1, <2>2 DEF Seating!Open, Lending, Written
    <2>4. Keyed(Entries(members'))
        BY <2>1 DEF LendInv, Keyed, Entries, NoCred
    <2> QED BY <1>1, <2>3, <2>4 DEF Seating!Next, LendInv
<1> QED BY <1>1, <1>2, <1>3 DEF CreateRoom, ResumeRoom

\* A room that ends, with its files or without them.
LEMMA CloseRefines ==
    ASSUME LendInv, CloseRoom \/ Crash \/ LeaveRoomOnShutdown
    PROVE  /\ Seating!Next
           /\ Keyed(Entries(members')) /\ Keyed(bookFile'.entries)
<1>1. /\ ~open' /\ members' = EmptyTable /\ scope' \cap rules' = {} /\ now' = now
      /\ bookFile' \in {bookFile, NoBook}
    BY DEF CloseRoom, Crash, LeaveRoomOnShutdown, NewProcess, RoomDown, Cleared
<1>2. Seating!Close
    BY <1>1, EmptyLends DEF Seating!Close
<1> QED BY <1>1, <1>2, EmptyLends DEF Seating!Next, LendInv

LEMMA DiscardRefines ==
    ASSUME LendInv, DiscardSavedRoom
    PROVE  /\ Seating!Next \/ UNCHANGED Seating!vars
           /\ Keyed(Entries(members')) /\ Keyed(bookFile'.entries)
<1>1. /\ UNCHANGED <<now, open, members, scope, rules>>
      /\ bookFile' \in {bookFile, NoBook}
    BY DEF DiscardSavedRoom, Cleared
<1>2. CASE bookFile' = bookFile
    BY <1>1, <1>2 DEF Seating!vars, LendInv
<1>3. CASE bookFile' = NoBook
    <2>1. Seating!Discard
        BY <1>1, <1>3, EmptyLends DEF Seating!Discard
    <2> QED BY <1>1, <1>3, <2>1, EmptyLends DEF Seating!Next, LendInv
<1> QED BY <1>1, <1>2, <1>3

\* Time frees what it was lent or held until then, in the table as on disk.
LEMMA LeasesAge ==
    ASSUME NEW creds \in [Addr -> Credential], now \in Nat
    PROVE  Leases(creds, now + 1) = Seating!Aged(Leases(creds, now), now + 1)
<1>1. ASSUME NEW a \in Addr
      PROVE  LeaseOf(creds[a], now + 1) =
                IF now + 1 < LeaseOf(creds[a], now).until THEN LeaseOf(creds[a], now)
                ELSE [key |-> NoKey, until |-> 0]
    <2>1. creds[a].id \in Nat /\ creds[a].expiresAt \in Nat
        BY DEF Credential
    <2>2. CASE Live(creds[a], now)
        BY <2>1, <2>2 DEF LeaseOf, Live
    <2>3. CASE ~Live(creds[a], now)
        BY <2>1, <2>3 DEF LeaseOf, Live
    <2> QED BY <2>2, <2>3
<1> QED BY <1>1 DEF Leases, Seating!Aged, Seating!Free

LEMMA ClockRefines ==
    ASSUME LendInv, PassTime
    PROVE  /\ Seating!Next
           /\ Keyed(Entries(members')) /\ Keyed(bookFile'.entries)
<1>1. /\ now \in Nat /\ now' = now + 1 /\ UNCHANGED <<open, members, scope, rules, bookFile>>
      /\ members \in Table /\ bookFile.entries \in [Addr -> Credential]
    BY DEF LendInv, SeatInv, TypeOK, Table, PassTime, host, disk
<1>2. Entries(members) \in [Addr -> Credential]
    BY <1>1 DEF Entries, Table, Member
<1>3. Seating!PassTime
    BY <1>1, <1>2, LeasesAge DEF Seating!PassTime
<1> QED BY <1>1, <1>3 DEF Seating!Next, LendInv

\* What changes nothing of what is lent, written or known of time may change who
\* is let in.
LEMMA QuietRefines ==
    ASSUME LendInv, UNCHANGED <<now, open, members, bookFile>>,
           UNCHANGED <<scope, rules>> \/ (open /\ StaysIn)
    PROVE  /\ Seating!Next \/ UNCHANGED Seating!vars
           /\ Keyed(Entries(members')) /\ Keyed(bookFile'.entries)
<1>1. CASE UNCHANGED <<scope, rules>>
    BY <1>1 DEF Seating!vars, LendInv
<1>2. CASE open /\ StaysIn
    <2>1. Seating!Admit
        BY <1>2, StayInRefines DEF Seating!Admit
    <2> QED BY <2>1 DEF Seating!Next, LendInv
<1> QED BY <1>1, <1>2

LEMMA SeatsRefine ==
    ASSUME LendInv, VetoInv', TypeOK', [Next]_vars
    PROVE  /\ Seating!Next \/ UNCHANGED Seating!vars
           /\ Keyed(Entries(members')) /\ Keyed(bookFile'.entries)
<1>1. TypeOK
    BY DEF LendInv, SeatInv
<1>2. open /\ open' => StaysIn
    BY SeatedStay
<1>3. CASE \/ Tick \/ Sweep \/ OnPeersChanged \/ OnEngineDegraded \/ OnTunnelUp
           \/ OnMemberChannelUp
    <2>1. HostRolls
        BY <1>1, <1>3, TickRolls, RereadRolls, ChannelUpRolls
    <2> QED BY <1>2, <2>1, RollsRefine DEF HostRolls
<1>4. ASSUME NEW k \in Key, IssueCredentialFor(k)
      PROVE  Seating!Next /\ Keyed(Entries(members')) /\ Keyed(bookFile'.entries)
    BY <1>2, <1>4, IssueRefines DEF IssueCredentialFor
<1>5. ASSUME NEW a \in Addr, KickMember(a)
      PROVE  Seating!Next /\ Keyed(Entries(members')) /\ Keyed(bookFile'.entries)
    BY <1>2, <1>5, KickRefines DEF KickMember
<1>6. CASE \/ ReapplyProtection \/ ActivateProfile \/ RenameRoom \/ RotateInviteCode
           \/ OnEngineRestarted \/ EngineDies \/ (\E a \in Addr : Arrive(a) \/ Depart(a))
           \/ UNCHANGED vars
    <2>1. UNCHANGED <<now, open, members, bookFile>> /\ (open \/ UNCHANGED <<scope, rules>>)
        BY <1>6 DEF ReapplyProtection, ActivateProfile, RenameRoom, RotateInviteCode,
                    OnEngineRestarted, EngineDies, Arrive, Depart, vars, host, disk
    <2> QED BY <1>2, <2>1, QuietRefines
<1>7. CASE CreateRoom \/ ResumeRoom
    BY <1>7, OpenRefines
<1>8. CASE CloseRoom \/ Crash \/ LeaveRoomOnShutdown
    BY <1>8, CloseRefines
<1>9. CASE DiscardSavedRoom
    BY <1>9, DiscardRefines
<1>10. CASE PassTime
    BY <1>10, ClockRefines
<1> QED BY <1>3, <1>4, <1>5, <1>6, <1>7, <1>8, <1>9, <1>10 DEF Next

\* The host implements Seats: with every fault, however often it dies, loses a
\* write or its engine, its table and its book lend addresses as Seats does, and
\* whoever is let in with a seat stays in.
THEOREM SeatsAreKept == Spec => SeatsKept
<1>1. Init => Seating!Init /\ LendInv
    <2> SUFFICES ASSUME Init PROVE Seating!Init /\ LendInv
        OBVIOUS
    <2>1. /\ now = 0 /\ open = FALSE /\ members = EmptyTable /\ bookFile = NoBook
          /\ scope \cap rules = {}
        BY DEF Init
    <2> QED BY <2>1, EmptyLends, SeatInitially DEF Seating!Init, LendInv
<1>2. LendInv /\ VetoInv /\ VetoInv' /\ [Next]_vars => LendInv' /\ [Seating!Next]_Seating!vars
    BY SeatsRefine, SeatInductive DEF LendInv, VetoInv, VetoWithinHold
<1> QED BY <1>1, <1>2, VetoInductive, PTL DEF Spec, SeatsKept

\* What Seats does to an address that is held.
LEMMA HoldsAreHeld ==
    ASSUME Seating!Next, open, open', now \in Nat, NEW a \in Addr,
           Lending[a].key = NoKey, now' < Lending[a].until
    PROVE  Lending'[a].key = NoKey
<1>1. CASE Seating!Admit \/ Seating!Discard
    BY <1>1 DEF Seating!Admit, Seating!Discard, Lending
<1>2. CASE \E A \in SUBSET Addr : Seating!Renew(A)
    BY <1>2 DEF Seating!Renew, Seating!Lent, Lending
<1>3. ASSUME NEW k \in Key, Seating!Lose(k)
      PROVE  Lending'[a].key = NoKey
    BY <1>3, KeyAssumption DEF Seating!Lose, Seating!Without, Lending
<1>4. ASSUME NEW k \in Key, NEW b \in Addr, Seating!Lend(k, b)
      PROVE  Lending'[a].key = NoKey
    <2>1. Seating!Without(k)[a] = Lending[a]
        BY KeyAssumption DEF Seating!Without, Lending
    <2>2. now' = now
        BY <1>4 DEF Seating!Lend
    <2>3. Lending[a] # Seating!Free
        BY <2>2 DEF Seating!Free
    <2>4. a # b
        BY <1>4, <2>1, <2>3 DEF Seating!Lend
    <2> QED BY <1>4, <2>1, <2>4 DEF Seating!Lend, Seating!Without, Lending
<1>5. ASSUME NEW b \in Addr, Seating!Kick(b)
      PROVE  Lending'[a].key = NoKey
    <2>1. Lending' = [Lending EXCEPT ![b] = [key |-> NoKey, until |-> now + ArrivalGrace]]
        BY <1>5 DEF Seating!Kick, Lending
    <2>2. a \in DOMAIN Lending
        BY DEF Lending, Leases
    <2>3. CASE a = b
        BY <2>1, <2>2, <2>3
    <2>4. CASE a # b
        BY <2>1, <2>2, <2>4
    <2> QED BY <2>3, <2>4
<1>6. CASE Seating!PassTime
    BY <1>6 DEF Seating!PassTime, Seating!Aged, Lending
<1>7. ~Seating!Open /\ ~Seating!Close
    BY DEF Seating!Open, Seating!Close
<1> QED BY <1>1, <1>2, <1>3, <1>4, <1>5, <1>6, <1>7 DEF Seating!Next

\* So the address of whoever was kicked is nobody's before the date the kick set,
\* which outlasts the veto: with any fault, and whoever asks.
THEOREM KickedSeatIsHeld == Spec => HoldKept
<1> DEFINE Held == open /\ open' => \A a \in Addr :
                    members[a].cred.revoked /\ Live(members[a].cred, now')
                    => ~Seat(members'[a].cred, now')
<1>1. Init => LendInv
    BY EmptyLends, SeatInitially DEF Init, LendInv
<1>2. LendInv /\ VetoInv /\ VetoInv' /\ [Next]_vars => LendInv' /\ [Seating!Next]_Seating!vars
    BY SeatsRefine, SeatInductive DEF LendInv, VetoInv, VetoWithinHold
<1>3. ASSUME LendInv, LendInv', [Next]_vars, [Seating!Next]_Seating!vars PROVE Held
    <2> SUFFICES ASSUME open, open', NEW a \in Addr, members[a].cred.revoked,
                        Live(members[a].cred, now'), Seat(members'[a].cred, now')
                 PROVE  FALSE
        OBVIOUS
    <2>1. now \in Nat /\ now' \in Nat /\ members[a].cred \in Credential
        BY <1>3 DEF LendInv, SeatInv, TypeOK, Member
    <2>2. now <= now'
        <3>1. now' \in {now, now + 1}
            BY <1>3 DEF Seating!Next, Seating!vars, Seating!Admit, Seating!Renew, Seating!Lose,
                        Seating!Lend, Seating!Kick, Seating!Open, Seating!Close,
                        Seating!Discard, Seating!PassTime
        <3> QED BY <2>1, <3>1
    <2>3. Live(members[a].cred, now)
        BY <2>1, <2>2 DEF Live, Credential
    <2>4. Lending[a] = [key |-> NoKey, until |-> members[a].cred.expiresAt]
        BY <2>3 DEF Lending, Leases, LeaseOf, Entries
    <2>5. Lending'[a].key # NoKey
        <3>1. members'[a].cred.key # NoKey
            BY <1>3 DEF LendInv, Keyed, Entries, Seat, Live
        <3> QED BY <3>1 DEF Lending, Leases, LeaseOf, Entries, Seat
    <2>6. now' < Lending[a].until
        BY <2>4 DEF Live
    <2>7. CASE UNCHANGED Seating!vars
        BY <2>4, <2>5, <2>7 DEF Seating!vars, Lending
    <2>8. CASE Seating!Next
        BY <2>1, <2>4, <2>5, <2>6, <2>8, HoldsAreHeld
    <2> QED BY <1>3, <2>7, <2>8
<1>4. LendInv /\ LendInv' /\ [Next]_vars /\ [Seating!Next]_Seating!vars => [Held]_vars
    BY <1>3
<1> QED BY <1>1, <1>2, <1>4, VetoInductive, PTL DEF Spec, HoldKept

(***************************************************************************)
(* Who comes back, once more, and through every restart: only the door     *)
(* gives a key another seat, and not while the engine knows the old one.   *)
(***************************************************************************)

\* A step that gives nobody a new seat.
Keeps ==
    \A b \in Addr : Seat(members'[b].cred, now') =>
        Seat(members[b].cred, now) /\ members'[b].cred.key = members[b].cred.key

LEMMA KeepsOwn ==
    ASSUME SeatInv, Keeps
    PROVE  OwnSeat
BY DEF SeatInv, SeatsApart, Entries, OwnSeat, Keeps

LEMMA RollsKeep ==
    ASSUME TypeOK, HostRolls
    PROVE  Keeps
<1>1. PICK at : Rolls(members, members', at)
    BY DEF HostRolls
<1>2. now' = now /\ members \in Table
    BY DEF HostRolls, TypeOK, Table
<1>3. \A b \in Addr : members[b].cred \in Credential
    BY <1>2 DEF Table, Member
<1>4. ~Seat(NoCred, now)
    BY DEF Seat, Live, NoCred
<1> SUFFICES ASSUME NEW b \in Addr, Seat(members'[b].cred, now)
             PROVE  Seat(members[b].cred, now) /\ members'[b].cred.key = members[b].cred.key
    BY <1>2 DEF Keeps
<1>5. CASE b \in at
    BY <1>1, <1>3, <1>5 DEF Rolls, Credential
<1>6. CASE b \notin at
    BY <1>1, <1>4, <1>6 DEF Rolls
<1> QED BY <1>5, <1>6

\* The door moves no one whose id is known, when no renewal fails of itself.
LEMMA DoorKeepsTrusted ==
    ASSUME SeatInv, NEW k \in Key, IssueCredentialFor(k), "renewTimeout" \notin Fault,
           NEW a \in Addr, NEW b \in Addr,
           Seat(members[a].cred, now), Trusted(members[a].cred),
           Seat(members'[b].cred, now), members[a].cred.key = members'[b].cred.key
    PROVE  a = b
<1>1. TypeOK /\ members \in Table
    BY DEF SeatInv, TypeOK, Table
<1>2. \A c, d \in Addr : /\ Seat(members[c].cred, now) /\ Seat(members[d].cred, now)
                         /\ members[c].cred.key = members[d].cred.key
                         => c = d
    BY DEF SeatInv, SeatsApart, Entries
<1>3. ASSUME NEW c \in Holding(k), ReturnSeat(c)
      PROVE  a = b
    <2>1. c \in Addr /\ Seat(members[c].cred, now) /\ members[c].cred \in Credential
        BY <1>1 DEF Holding, Table, Member
    <2>2. /\ members'[c].cred = [members[c].cred EXCEPT !.expiresAt = now + CredentialTTL]
          /\ \A d \in Addr \ {c} : members'[d].cred = members[d].cred
        BY <1>1, <1>3, <2>1 DEF ReturnSeat, WithCred, Table, Member
    <2>3. Seat(members[b].cred, now) /\ members'[b].cred.key = members[b].cred.key
        BY <2>1, <2>2 DEF Credential
    <2> QED BY <1>2, <2>3
<1>4. ASSUME NEW table \in Table, NewSeat(table, k), members[a].cred.key # k,
             \A d \in Addr : \/ table[d].cred = members[d].cred
                             \/ table[d].cred = NoCred
      PROVE  a = b
    <2>1. b \in Addr /\ ~Seat(NoCred, now)
        BY DEF Seat, Live, NoCred
    <2>2. \/ members' = table
          \/ ~(Addr \subseteq Taken(table)) /\ members' = WithCred(table, NextFree(table), NewCred(k))
        BY <1>4 DEF NewSeat
    <2>3. members'[b].cred = NewCred(k) \/ members'[b].cred = table[b].cred
        BY <1>4, <2>2 DEF WithCred, Table, Member
    <2>4. members'[b].cred # NewCred(k)
        BY <1>4 DEF NewCred
    <2>5. members'[b].cred = members[b].cred
        BY <1>4, <2>1, <2>3, <2>4
    <2> QED BY <1>2, <2>5
<1>5. ASSUME NEW c \in Holding(k), NewSeat(WithCred(members, c, NoCred), k),
             ~Trusted(members[c].cred)
      PROVE  a = b
    <2>1. c \in Addr /\ Seat(members[c].cred, now) /\ members[c].cred.key = k
        BY DEF Holding
    <2>2. members[a].cred.key # k
        BY <1>2, <1>5, <2>1
    <2>3. WithCred(members, c, NoCred) \in Table
        BY <1>1, <2>1, WithCredType, NoCredType
    <2>4. \A d \in Addr : \/ WithCred(members, c, NoCred)[d].cred = members[d].cred
                           \/ WithCred(members, c, NoCred)[d].cred = NoCred
        BY <1>1, <2>1 DEF WithCred, Table, Member
    <2> QED BY <1>4, <1>5, <2>2, <2>3, <2>4
<1>6. CASE Holding(k) = {} /\ NewSeat(members, k)
    <2>1. members[a].cred.key # k
        BY <1>6 DEF Holding
    <2> QED BY <1>1, <1>4, <1>6, <2>1
<1> QED BY <1>3, <1>5, <1>6 DEF IssueCredentialFor

LEMMA OnlyTheDoorMoves ==
    ASSUME SeatInv, [Next]_vars, open, open', ~(\E k \in Key : IssueCredentialFor(k))
    PROVE  Keeps
<1>1. TypeOK /\ members \in Table /\ now \in Nat
    BY DEF SeatInv, TypeOK, Table
<1>2. \A b \in Addr : members[b].cred \in Credential
    BY <1>1 DEF Table, Member
<1>3. CASE \/ Tick \/ Sweep \/ OnPeersChanged \/ OnEngineDegraded \/ OnTunnelUp
           \/ OnMemberChannelUp
    <2>1. HostRolls
        BY <1>1, <1>3, TickRolls, RereadRolls, ChannelUpRolls
    <2> QED BY <1>1, <2>1, RollsKeep
<1>4. ASSUME NEW a \in Addr, KickMember(a)
      PROVE  Keeps
    <2>1. now' = now /\ members' = [members EXCEPT ![a] = Kicked(@)]
        BY <1>4 DEF KickMember
    <2>2. members'[a].cred.revoked /\ \A b \in Addr \ {a} : members'[b] = members[b]
        BY <1>1, <1>2, <2>1 DEF Kicked, Table, Member, Credential
    <2> QED BY <2>1, <2>2 DEF Keeps, Seat
<1>5. CASE UNCHANGED <<members, now>>
    BY <1>5 DEF Keeps
<1>6. CASE \/ ReapplyProtection \/ ActivateProfile \/ RenameRoom \/ RotateInviteCode
           \/ OnEngineRestarted \/ EngineDies \/ (\E a \in Addr : Arrive(a) \/ Depart(a))
           \/ DiscardSavedRoom \/ UNCHANGED vars
    <2>1. UNCHANGED <<members, now>>
        BY <1>6 DEF ReapplyProtection, ActivateProfile, RenameRoom, RotateInviteCode,
                    OnEngineRestarted, EngineDies, Arrive, Depart, DiscardSavedRoom, vars, host
    <2> QED BY <1>5, <2>1
<1>7. ~(CreateRoom \/ ResumeRoom \/ CloseRoom \/ Crash \/ LeaveRoomOnShutdown)
    BY DEF CreateRoom, ResumeRoom, CloseRoom, Crash, LeaveRoomOnShutdown, NewProcess, RoomDown
<1>8. CASE PassTime
    <2>1. members' = members /\ now' = now + 1
        BY <1>8 DEF PassTime, host
    <2> QED BY <1>1, <1>2, <2>1 DEF Keeps, Seat, Live, Credential
<1> QED BY <1>3, <1>4, <1>6, <1>7, <1>8 DEF Next

\* Through every restart and death of the engine, whoever asks again is given
\* the address of the seat that the engine knows: the one way to lose it is a
\* renewal that fails, of an id the engine has lost or of itself.
THEOREM WhoIsTrustedKeepsTheAddress ==
    ASSUME "renewTimeout" \notin Fault
    PROVE  Spec => TrustedKept
<1> DEFINE Own == \A a, b \in Addr :
                        /\ open /\ open'
                        /\ Seat(members[a].cred, now) /\ Trusted(members[a].cred)
                        /\ Seat(members'[b].cred, now')
                        /\ members[a].cred.key = members'[b].cred.key
                        => a = b
<1>1. ASSUME SeatInv, [Next]_vars PROVE Own
    <2>1. CASE \E k \in Key : IssueCredentialFor(k)
        <3>1. now' = now
            BY <2>1 DEF IssueCredentialFor
        <3> QED BY <1>1, <2>1, <3>1, DoorKeepsTrusted
    <2>2. CASE open /\ open' /\ ~(\E k \in Key : IssueCredentialFor(k))
        BY <1>1, <2>2, OnlyTheDoorMoves, KeepsOwn DEF OwnSeat
    <2> QED BY <2>1, <2>2
<1>2. SeatInv /\ [Next]_vars => SeatInv' /\ [Own]_vars
    BY <1>1, SeatInductive
<1> QED BY <1>2, SeatInitially, PTL DEF Spec, TrustedKept

=============================================================================
