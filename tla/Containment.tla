---------------------------- MODULE Containment -----------------------------
(***************************************************************************)
(* The containment of a room: the gate, which closes everything that comes *)
(* in by the virtual adapter but what it permits, and the permits, which   *)
(* open the firewall of the system.  A packet has to pass both.  The       *)
(* module composes the adapter that writes the two layers (hybrid.go), the *)
(* layers themselves (WFP and the Windows firewall, or one nftables table  *)
(* and nothing) and the session that decides the rules, under whose lock   *)
(* everything here runs.                                                   *)
(*                                                                         *)
(* Writing the gate is a transaction.  Writing the permits is one call per *)
(* rule and can stop anywhere.  The engine can put up a new adapter, the   *)
(* process can die and somebody else can touch the rules between any two   *)
(* steps.                                                                  *)
(*                                                                         *)
(* A set of rules maps each rule to whom it opens, and a rule that opens   *)
(* to nobody is not there (BuildRuleSet, ControlRules).  The rule of the   *)
(* lobby's door is the same all the time a room is hosted and is left out. *)
(* Rules and blocks are also anchored to the range of their room, so what  *)
(* another room left behind matches only where its range is used again.    *)
(***************************************************************************)
EXTENDS Naturals, FiniteSets

CONSTANTS
    Member,     \* those who are or may be in the room
    Adapter,    \* the virtual adapters the engine puts up, one per instance
    NoAdapter,
    None,       \* no signature, no job
    Shared,     \* rules whose name a rule of somebody else has as well
    Fault       \* a subset of FaultKinds

(***************************************************************************)
(* "gate": the transaction of the gate fails.  "sweep": emptying it fails. *)
(* "permits": writing the permits stops halfway.  "audit": what is put     *)
(* cannot be read.  "bind": an adapter the gate is to be tied to is not    *)
(* found.  "touch": somebody else changes the rules.  "revoke": the engine *)
(* does not revoke the credential of whoever is kicked.                    *)
(***************************************************************************)
FaultKinds == {"gate", "sweep", "permits", "audit", "bind", "touch", "revoke"}

Name == {"sala", "juego"}
RuleSets == [Name -> SUBSET Member]

(* A call under way: who asked, for which rules, where it is and whether   *)
(* the layer it has just written said yes.                                 *)
Job == [why : {"enter", "undo", "peers", "issue", "kick", "halfKick", "game", "up",
               "repair", "leave", "exit", "giveup", "shutdown", "start", "gaveUp"},
        want : RuleSets,
        at : {"gate", "permits", "own", "ownGate", "done"},
        ok : BOOLEAN]

ASSUME ContainmentAssumption ==
    /\ Shared \subseteq Name
    /\ Fault \subseteq FaultKinds
    /\ NoAdapter \notin Adapter
    /\ None \notin Job \cup RuleSets

VARIABLES
    system,                       \* "windows" or "linux": never changes
    alive,                        \* the daemon
    adapter,                      \* the virtual adapter, or NoAdapter
    gate,                         \* what is put: the adapter and its permits
    permit,                       \* what is put in the firewall of Windows
    scope, last, swept,           \* Firewall of hybrid.go
    role, members, game,          \* the session
    veto, revoked,                \* who was kicked: kept out of the list for
                                  \* KickGrace, and whom the engine revoked
    applied, alerts,              \* appliedRules, state.Alerts
    job,                          \* the call under way, under the lock
    touched, halfway              \* history: see Touch and PermitsStep

wire    == <<gate, permit>>
hybrid  == <<scope, last, swept>>
session == <<role, members, game, veto, revoked, applied, alerts>>
history == <<touched, halfway>>
vars    == <<system, alive, adapter, wire, hybrid, session, job, history>>
-----------------------------------------------------------------------------
Windows == system = "windows"
NoRules == [n \in Name |-> {}]
Absent == [to |-> {}, on |-> FALSE]
NoGate == [iface |-> NoAdapter, allow |-> NoRules]

(* desiredRuleSetLocked *)
Desired(r, ms, g) ==
    [n \in Name |-> IF (n = "sala" /\ r = "host") \/ (n = "juego" /\ g)
                      THEN ms ELSE {}]

Names(rules) == {n \in Name : rules[n] # {}}
Standing == {n \in Name : permit[n] # Absent}

(* The adapter of a new instance of the engine has an identity not in use. *)
NewAdapter == Adapter \ {adapter, scope, gate.iface}

Call(why, want) == [why |-> why, want |-> want, at |-> "gate", ok |-> TRUE]
Purging(why) == [why |-> why, want |-> NoRules, at |-> "own", ok |-> TRUE]
Free == alive /\ job = None
Becomes(at, ok) == job' = [job EXCEPT !.at = at, !.ok = ok]

(* Types of every variable; on Linux there are no permits. *)
TypeOK ==
    /\ system \in {"windows", "linux"}
    /\ alive \in BOOLEAN
    /\ {adapter, scope} \subseteq Adapter \cup {NoAdapter}
    /\ gate \in [iface : Adapter \cup {NoAdapter}, allow : RuleSets]
    /\ permit \in [Name -> [to : SUBSET Member, on : BOOLEAN]]
    /\ system = "linux" => Standing = {}
    /\ last \in RuleSets \cup {None}
    /\ swept \in BOOLEAN
    /\ role \in {"none", "host", "guest"}
    /\ {members, veto, revoked} \subseteq SUBSET Member
    /\ game \in BOOLEAN
    /\ applied \in RuleSets \cup {None}
    /\ alerts \subseteq {"kick", "audit", "tamper"}
    /\ job \in Job \cup {None}
    /\ {touched, halfway} \subseteq BOOLEAN

Init ==
    /\ system \in {"windows", "linux"}
    /\ alive = FALSE /\ adapter = NoAdapter /\ job = None
    /\ gate = NoGate /\ permit = [n \in Name |-> Absent]
    /\ scope = NoAdapter /\ last = None /\ swept = FALSE
    /\ role = "none" /\ members = {} /\ veto = {} /\ revoked = {} /\ game = FALSE
    /\ applied = None /\ alerts = {}
    /\ touched = FALSE /\ halfway = FALSE
-----------------------------------------------------------------------------
(* Firewall.Apply: the gate first. *)

(* With no scope there is nothing to tie the gate to: nothing is opened.   *)
Refused ==
    /\ job.at = "gate" /\ scope = NoAdapter /\ job.want # NoRules
    /\ Becomes("done", FALSE)
    /\ UNCHANGED <<wire, hybrid, history>>

(* Nothing to open and no adapter: what may be left of a gate is swept.    *)
Unscoped ==
    /\ job.at = "gate" /\ scope = NoAdapter /\ job.want = NoRules
    /\ \/ /\ last = None /\ swept
          /\ Becomes("permits", TRUE)
          /\ UNCHANGED <<gate, last, swept>>
       \/ /\ last # None \/ ~swept
          /\ gate' = NoGate /\ last' = None /\ swept' = TRUE
          /\ Becomes("permits", TRUE)
       \/ /\ last # None \/ ~swept
          /\ "sweep" \in Fault
          /\ Becomes("done", FALSE)
          /\ UNCHANGED <<gate, last, swept>>
    /\ UNCHANGED <<permit, scope, history>>

GateStep ==
    /\ job.at = "gate" /\ scope # NoAdapter
    /\ \/ /\ gate' = [iface |-> scope, allow |-> job.want]
          /\ last' = job.want /\ swept' = TRUE
          /\ touched' = FALSE
          /\ Becomes("permits", TRUE)
       \/ /\ "gate" \in Fault
          /\ Becomes("done", FALSE)
          /\ UNCHANGED <<gate, last, swept, touched>>
    /\ UNCHANGED <<permit, scope, halfway>>

(* retire: deleted, or only disabled when the name is not ours alone. *)
Retired(n) == IF n \in Shared THEN [permit[n] EXCEPT !.on = FALSE] ELSE Absent

Wanted(n) == [to |-> job.want[n], on |-> TRUE]

(* netfw's Apply against the live rules: first what nobody asked for or    *)
(* does not say what it should, then what is missing.  A rule that could   *)
(* only be disabled is not written again.                                  *)
ToRetire == {n \in Standing : permit[n] # Wanted(n)}
ToAdd == {n \in Names(job.want) :
            permit[n] = Absent \/ (n \in ToRetire /\ n \notin Shared)}

PermitsStep ==
    /\ job.at = "permits"
    /\ \E R \in SUBSET ToRetire, A \in SUBSET ToAdd, ok \in BOOLEAN :
          /\ A # {} => R = ToRetire
          /\ IF ok THEN R = ToRetire /\ A = (IF Windows THEN ToAdd ELSE {})
                   ELSE Windows /\ "permits" \in Fault
          /\ permit' = [n \in Name |-> IF n \in A THEN Wanted(n)
                                       ELSE IF n \in R THEN Retired(n)
                                       ELSE permit[n]]
          /\ halfway' = ~ok
          /\ Becomes("done", ok)
    /\ UNCHANGED <<gate, hybrid, touched>>

(* Firewall.PurgeOwned: the permits first, and the gate stays without it.  *)
PurgePermits ==
    /\ job.at = "own"
    /\ \E R \in SUBSET Standing :
          /\ permit' = [n \in Name |-> IF n \in R THEN Retired(n) ELSE permit[n]]
          /\ \/ R = Standing /\ Becomes("ownGate", TRUE)
             \/ Windows /\ "permits" \in Fault /\ Becomes("done", FALSE)
    /\ UNCHANGED <<gate, hybrid, history>>

PurgeGate ==
    /\ job.at = "ownGate"
    /\ last' = None
    /\ \/ gate' = NoGate /\ swept' = TRUE /\ Becomes("done", TRUE)
       \/ "sweep" \in Fault /\ UNCHANGED <<gate, swept>> /\ Becomes("done", FALSE)
    /\ UNCHANGED <<permit, scope, history>>

WriteLayers ==
    /\ job # None
    /\ Refused \/ Unscoped \/ GateStep \/ PermitsStep \/ PurgePermits \/ PurgeGate
    /\ UNCHANGED <<system, alive, adapter, session>>
-----------------------------------------------------------------------------
(* What the session asks for. *)

InRoom == role # "none"

(* CreateRoom, ResumeRoom and JoinRoom once the engine is up: a host opens *)
(* with nobody in the book and a guest finds who is there.                 *)
Enter(r, ms) ==
    /\ Free /\ ~InRoom
    /\ r = "host" => ms = {}
    /\ adapter' \in NewAdapter
    /\ role' = r /\ members' = ms
    /\ \/ /\ scope' = adapter' /\ applied' = None
          /\ job' = Call("enter", Desired(r, ms, FALSE))
       \/ /\ "bind" \in Fault
          /\ job' = Call("undo", NoRules)
          /\ UNCHANGED <<scope, applied>>
    /\ UNCHANGED <<system, alive, wire, last, swept, veto, revoked, game, alerts, history>>

(* A credential the engine revoked leaves the mesh in about a second, well *)
(* before its veto ends.                                                   *)
Reported(ms) == ms \cap (revoked \ veto) = {}

(* Mutant: the peers the engine reports are taken as they are. *)
Bug_PeersChanged(ms) ==
    /\ Free /\ InRoom /\ Reported(ms)
    /\ members' = ms
    /\ LET want == Desired(role, ms, game)
       IN  job' = IF want = applied THEN None ELSE Call("peers", want)
    /\ UNCHANGED <<system, alive, adapter, wire, hybrid, role, game, veto, revoked,
                   applied, alerts, history>>

(* refreshPeersLocked, and the filter of the kicked: only here a set       *)
(* already applied is not applied again (applyPolicyIfChanged).            *)
PeersChanged(ms) ==
    /\ Free /\ InRoom /\ Reported(ms)
    /\ members' = ms \ veto
    /\ LET want == Desired(role, ms \ veto, game)
       IN  job' = IF want = applied THEN None ELSE Call("peers", want)
    /\ UNCHANGED <<system, alive, adapter, wire, hybrid, role, game, veto, revoked,
                   applied, alerts, history>>

(* MemberTable.Forget, KickGrace after a kick.  Whom the engine reported   *)
(* when it was last read counts again at once, with no rules written yet.  *)
VetoEnds(m) ==
    /\ Free /\ m \in veto
    /\ veto' = veto \ {m}
    /\ \E back \in SUBSET ({m} \ revoked) : members' = members \cup back
    /\ UNCHANGED <<system, alive, adapter, wire, hybrid, role, game, revoked, applied,
                   alerts, job, history>>

(* IssueCredential, to somebody new or to who comes back.  The address of  *)
(* somebody kicked is held for longer than the veto, and then is anyone's. *)
Issue(m) ==
    /\ Free /\ role = "host" /\ m \notin veto
    /\ members' = members \cup {m} /\ revoked' = revoked \ {m}
    /\ job' = Call("issue", Desired(role, members \cup {m}, game))
    /\ UNCHANGED <<system, alive, adapter, wire, hybrid, role, game, veto, applied,
                   alerts, history>>

(* A revocation the engine does not make stops nothing: the veto and the   *)
(* rules go on, and what failed is said at the end.                        *)
KickMember(m) ==
    /\ Free /\ role = "host" /\ m \in members
    /\ members' = members \ {m} /\ veto' = veto \cup {m}
    /\ LET want == Desired(role, members \ {m}, game)
       IN  \/ revoked' = revoked \cup {m} /\ job' = Call("kick", want)
           \/ "revoke" \in Fault /\ UNCHANGED revoked /\ job' = Call("halfKick", want)
    /\ UNCHANGED <<system, alive, adapter, wire, hybrid, role, game, applied, alerts,
                   history>>

(* ActivateProfile at the host, the announcement of the game at a guest. *)
ActivateProfile ==
    /\ Free /\ InRoom
    /\ game' = ~game
    /\ job' = Call("game", Desired(role, members, ~game))
    /\ UNCHANGED <<system, alive, adapter, wire, hybrid, role, members, veto,
                   revoked, applied, alerts, history>>

(* Mutant: the signature outlives the adapter it was applied to. *)
Bug_TunnelUp ==
    /\ Free /\ InRoom /\ adapter # NoAdapter
    /\ \/ scope' = adapter
       \/ "bind" \in Fault /\ UNCHANGED scope
    /\ job' = LET want == Desired(role, members, game)
              IN  IF want = applied THEN None ELSE Call("up", want)
    /\ UNCHANGED <<system, alive, adapter, wire, last, swept, role, members,
                   veto, revoked, game, applied, alerts, history>>

(* tunnelUpLocked goes on when the gate cannot be tied to the adapters of  *)
(* the moment; OnEngineRestarted and the end of a rejoin stop.             *)
TunnelUp ==
    /\ Free /\ InRoom /\ adapter # NoAdapter
    /\ \/ scope' = adapter /\ applied' = None
       \/ "bind" \in Fault /\ UNCHANGED <<scope, applied>>
    /\ job' = Call("up", Desired(role, members, game))
    /\ UNCHANGED <<system, alive, adapter, wire, last, swept, role, members,
                   veto, revoked, game, alerts, history>>

(* LeaveRoom ("leave"), the exits nobody asks for ("exit"), the end of the *)
(* watchdog's patience ("giveup") and of the daemon ("shutdown").          *)
Leave(why) ==
    /\ Free /\ InRoom
    /\ job' = Call(why, NoRules)
    /\ UNCHANGED <<system, alive, adapter, wire, hybrid, session, history>>
-----------------------------------------------------------------------------
(* Enforcement and its Diff, as the layers of each system can be read.     *)
Listed == IF Windows THEN Standing
          ELSE IF gate.iface = NoAdapter \/ last = None THEN {} ELSE Names(last)
Working == {n \in Listed : Windows => permit[n].on}
Extra(want) == Listed \ Names(want)
Missing(want) == Names(want) \ Working
GateThere == gate.iface # NoAdapter /\ (Windows \/ last = None \/ gate.iface = scope)
Intact(want) == Extra(want) = {} /\ Missing(want) = {} /\ (InRoom => GateThere)

(* Mutant: what is missing is looked for, and out of a room nothing is. *)
Bug_Verified(before) ==
    \/ alerts' = before \cup (IF Missing(NoRules) # {} THEN {"kick"} ELSE {})
    \/ "audit" \in Fault /\ alerts' = before \cup {"audit"}

(* verifyClosedLocked *)
Verified(before) ==
    \/ alerts' = before \cup (IF Extra(NoRules) # {} THEN {"kick"} ELSE {})
    \/ "audit" \in Fault /\ alerts' = before \cup {"audit"}

(* RefreshAlerts, once a minute.  The alert of a kick stays, the others    *)
(* are of this round.  How often the rules are put back is Canary's.       *)
Sweep ==
    /\ Free
    /\ LET want == Desired(role, members, game)
           kept == alerts \cap {"kick"}
       IN  \/ "audit" \in Fault /\ alerts' = kept \cup {"audit"} /\ job' = None
           \/ Intact(want) /\ alerts' = kept /\ job' = None
           \/ ~Intact(want) /\ InRoom /\ alerts' = kept /\ job' = Call("repair", want)
           \/ ~Intact(want) /\ ~InRoom /\ alerts' = kept \cup {"tamper"} /\ job' = None
    /\ UNCHANGED <<system, alive, adapter, wire, hybrid, role, members, veto,
                   revoked, game, applied, history>>
-----------------------------------------------------------------------------
(* applyRuleSetLocked, and what each caller does with the answer. *)
Answered ==
    /\ job.at = "done"
    /\ job.why \in {"peers", "issue", "kick", "halfKick", "game", "up", "repair"}
    /\ job' = None
    /\ applied' = IF job.ok THEN job.want ELSE applied
    /\ alerts' = (IF job.ok THEN alerts \ {"kick"} ELSE alerts) \cup
          (CASE job.why = "halfKick" -> {"kick"}
             [] job.why = "kick" /\ ~job.ok -> {"kick"}
             [] job.why = "repair" /\ ~job.ok -> {"tamper"}
             [] OTHER -> {})
    /\ game' = IF job.why = "game" /\ ~job.ok /\ role = "host" THEN ~game ELSE game
    /\ UNCHANGED <<alive, adapter, scope, role, members, veto, revoked>>

(* Mutant: the room opens whatever the firewall answered. *)
Bug_Entered ==
    /\ job.at = "done" /\ job.why = "enter"
    /\ applied' = job.want /\ alerts' = alerts \ {"kick"}
    /\ job' = None
    /\ UNCHANGED <<alive, adapter, scope, role, members, veto, revoked, game>>

Entered ==
    /\ job.at = "done" /\ job.why = "enter"
    /\ IF job.ok THEN /\ applied' = job.want /\ alerts' = alerts \ {"kick"}
                      /\ job' = None
                 ELSE job' = Call("undo", NoRules) /\ UNCHANGED <<applied, alerts>>
    /\ UNCHANGED <<alive, adapter, scope, role, members, veto, revoked, game>>

(* The rest of teardown, whatever the first step said: the gate is let go, *)
(* the network goes, the session is Idle.                                  *)
Closed ==
    /\ job.at = "done"
    /\ job.why \in {"undo", "leave", "exit", "giveup", "shutdown"}
    /\ scope' = NoAdapter /\ adapter' = NoAdapter
    /\ role' = "none" /\ members' = {} /\ game' = FALSE
    /\ veto' = {} /\ revoked' = {}
    /\ applied' = IF job.why = "undo" THEN applied ELSE None
    /\ job' = IF job.why = "giveup" THEN Purging("gaveUp") ELSE None
    /\ alive' = (job.why # "shutdown")
    /\ IF job.why = "leave" THEN Verified({}) ELSE alerts' = {}

(* NewSession and OnEngineGaveUp, after PurgeOwned.  Without a clean purge *)
(* there is no daemon.                                                     *)
Purged ==
    /\ job.at = "done" /\ job.why \in {"start", "gaveUp"}
    /\ job' = None
    /\ alive' = (alive \/ job.ok)
    /\ IF job.why = "gaveUp" THEN Verified(alerts) ELSE UNCHANGED alerts
    /\ UNCHANGED <<adapter, scope, role, members, veto, revoked, game, applied>>

Finish ==
    /\ job # None
    /\ Answered \/ Entered \/ Closed \/ Purged
    /\ last' = IF ~alive' THEN None ELSE last
    /\ swept' = (swept /\ alive')
    /\ UNCHANGED <<system, wire, history>>
-----------------------------------------------------------------------------
Start ==
    /\ ~alive /\ job = None
    /\ job' = Purging("start")
    /\ UNCHANGED <<system, alive, adapter, wire, hybrid, session, history>>

(* The process dies, or the machine does: the filters of the gate outlive  *)
(* the first and not the second, and the permits outlive both.             *)
Die(reboot) ==
    /\ alive \/ job # None
    /\ alive' = FALSE /\ job' = None /\ adapter' = NoAdapter
    /\ scope' = NoAdapter /\ last' = None /\ swept' = FALSE
    /\ role' = "none" /\ members' = {} /\ game' = FALSE
    /\ veto' = {} /\ revoked' = {}
    /\ applied' = None /\ alerts' = {}
    /\ gate' = IF reboot THEN NoGate ELSE gate
    /\ UNCHANGED <<system, permit, history>>

(* The engine died and came back: its adapter is another one. *)
EngineRestart ==
    /\ alive /\ InRoom /\ adapter # NoAdapter
    /\ adapter' \in NewAdapter
    /\ UNCHANGED <<system, alive, wire, hybrid, session, job, history>>

(* Somebody else deletes, disables or rewrites a rule of ours, or removes  *)
(* the gate.  What was touched before the gate is next written is put back *)
(* with it.                                                                *)
Touch ==
    /\ "touch" \in Fault /\ ~touched
    /\ \/ gate.iface # NoAdapter /\ gate' = NoGate /\ UNCHANGED permit
       \/ \E n \in Standing :
             /\ \E p \in {Absent, [permit[n] EXCEPT !.on = ~permit[n].on],
                          [permit[n] EXCEPT !.to = Member]} :
                   permit' = [permit EXCEPT ![n] = p]
             /\ UNCHANGED gate
    /\ touched' = TRUE
    /\ UNCHANGED <<system, alive, adapter, hybrid, session, job, halfway>>

Next ==
    \/ WriteLayers \/ Finish \/ Sweep \/ Start
    \/ \E r \in {"host", "guest"}, ms \in SUBSET Member : Enter(r, ms)
    \/ \E ms \in SUBSET Member : PeersChanged(ms)
    \/ \E m \in Member : Issue(m)
    \/ \E m \in Member : KickMember(m)
    \/ \E m \in Member : VetoEnds(m)
    \/ ActivateProfile \/ TunnelUp
    \/ \E why \in {"leave", "exit", "giveup", "shutdown"} : Leave(why)
    \/ \E reboot \in BOOLEAN : Die(reboot)
    \/ EngineRestart \/ Touch

Spec == Init /\ [][Next]_vars
-----------------------------------------------------------------------------
(* Whom somebody else's own permissive rules, or ours, leave in. *)
Reaches(m) ==
    IF Windows
      THEN \E n \in Name : /\ permit[n].on /\ m \in permit[n].to
                           /\ gate.iface # NoAdapter => m \in gate.allow[n]
      ELSE gate.iface = NoAdapter \/ \E n \in Name : m \in gate.allow[n]

Open == IF Windows THEN \E n \in Name : permit[n].on
                   ELSE gate.allow # NoRules

(* A room is never without its gate, and while there is an adapter no      *)
(* permit of ours is either, not even while a room opens or closes.        *)
Contained ==
    /\ ~touched /\ adapter # NoAdapter
    /\ \/ InRoom /\ (job = None \/ job.why \notin {"enter", "undo"})
       \/ Windows /\ Open
    => gate.iface # NoAdapter

(* Whoever was kicked reaches nothing while the veto lasts, nor ever when  *)
(* the engine revoked them, unless an alert says that the kick was left    *)
(* halfway: it takes both layers of a kick to fail for somebody to be let  *)
(* in again without a word, the engine's at once and the list's with time. *)
KickedShut ==
    Free /\ ~touched
      => \A m \in veto \cup revoked : Reaches(m) => "kick" \in alerts

(* When an event finds its rules already applied and does nothing, they    *)
(* are what both layers have.                                              *)
SkipIsSafe ==
    Free /\ InRoom /\ applied # None /\ ~touched /\ ~halfway
      => /\ gate = [iface |-> scope, allow |-> applied]
         /\ Windows => \A n \in Name \ Shared :
                permit[n] = IF applied[n] = {} THEN Absent
                            ELSE [to |-> applied[n], on |-> TRUE]

(* Stronger, and what the comments of applyPolicyIfChanged say: the        *)
(* signature is only that of an Apply that went well.  Writing the permits *)
(* halfway after the gate breaks it.                                       *)
SignatureTrue ==
    Free /\ InRoom /\ applied # None /\ ~touched
      => gate = [iface |-> scope, allow |-> applied]

(* When somebody asked to leave, or the watchdog gave up, they are told    *)
(* with the same answer.                                                   *)
LeaveTold ==
    [][ (Free' /\ job # None /\ job.why \in {"leave", "gaveUp"} /\ Open')
          => alerts' # {} ]_vars

(* "filters of a room that no longer exists protect nothing" (hybrid.go)   *)
GateLetGo == Free /\ ~InRoom => gate.iface = NoAdapter
=============================================================================
