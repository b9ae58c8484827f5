------------------------- MODULE Containment_proofs -------------------------
(***************************************************************************)
(* Theorems about the containment of a room, for any members, adapters and *)
(* shared names, on both systems.  Each theorem names the faults it does   *)
(* without; whatever the others do, it holds.                              *)
(***************************************************************************)
EXTENDS Containment, TLAPS

InJob(W) == job # None /\ job.why \in W

\* Whom the list keeps out, or the engine did.
Barred == veto \cup revoked

\* Who is where: which calls run in a room, and what a room has.
Course ==
    /\ InRoom <=> adapter # NoAdapter
    /\ InRoom => alive
    /\ InRoom => scope # NoAdapter \/ InJob({"undo"})
    /\ ~InRoom => scope = NoAdapter
    /\ job # None => (InRoom <=> job.why \notin {"start", "gaveUp"})
    /\ InJob({"start"}) <=> job # None /\ ~alive
    /\ job # None => (job.at \in {"own", "ownGate"} => ~InRoom)
    /\ job # None => (job.at \in {"gate", "permits"} => InRoom)
    /\ InJob({"undo", "leave", "exit", "giveup", "shutdown", "start", "gaveUp"}) => job.want = NoRules
    /\ Barred # {} => role = "host" /\ ~InJob({"enter", "undo"})
    /\ ~InRoom \/ InJob({"enter", "undo"}) => applied = None

\* What is put has the shape the code writes.
Shape ==
    /\ gate.iface = NoAdapter => gate = NoGate
    /\ \A n \in Name : permit[n].on => permit[n].to # {}

\* The gate a call has just written.
Gated ==
    job # None /\ ~touched /\ scope # NoAdapter /\ (job.at = "permits" \/ (job.at = "done" /\ job.ok))
      => gate = [iface |-> scope, allow |-> job.want]

RoomGated ==
    InRoom /\ ~touched /\ ~InJob({"enter", "undo"}) => gate.iface # NoAdapter

\* With every adapter found, a room always has one its gate can be tied to.
Bound == InRoom => scope # NoAdapter

\* No permit is on without a gate while the daemon lives.
PermitsGated ==
    /\ alive /\ ~touched /\ Windows /\ Open => gate.iface # NoAdapter
    /\ job # None /\ ~touched /\ Windows
         /\ (job.at = "ownGate" \/ (job.at = "done" /\ job.ok /\ job.why \in {"start", "gaveUp"}))
       => ~Open

\* Nobody barred is in what is wanted.
WantClean == job # None => \A n \in Name : job.want[n] \cap Barred = {}
BookClean == members \cap Barred = {}
KickPending == InJob({"kick", "halfKick"}) /\ (job.at = "gate" \/ (job.at = "done" /\ ~job.ok))
KickedOut ==
    ~touched /\ "kick" \notin alerts /\ ~KickPending =>
       \A m \in Barred : gate.iface # NoAdapter /\ \A n \in Name : m \notin gate.allow[n]

Says(want) ==
    Windows => \A n \in Name \ Shared :
        permit[n] = IF want[n] = {} THEN Absent ELSE [to |-> want[n], on |-> TRUE]
Synced ==
    /\ InRoom /\ applied # None /\ ~touched /\ ~halfway
         /\ (job = None \/ job.at = "gate" \/ (job.at = "done" /\ ~job.ok))
       => gate = [iface |-> scope, allow |-> applied] /\ Says(applied)
    /\ InRoom /\ job # None /\ job.at = "done" /\ job.ok /\ ~touched /\ scope # NoAdapter
       => ~halfway /\ Says(job.want)

\* What the adapter remembers is what the gate of Linux has.
Remembered ==
    /\ alive => (gate.allow # NoRules => last = gate.allow)
    /\ InJob({"start"}) /\ job.at = "done" /\ job.ok => gate = NoGate

\* With writings of the gate going well, it is empty by the time the watchdog's
\* give-up gets to the purge.
Emptied ==
    /\ InJob({"giveup"}) /\ job.at \in {"permits", "done"} => gate.allow = NoRules
    /\ InJob({"gaveUp"}) => gate.allow = NoRules

(***************************************************************************)
(* Types.                                                                  *)
(***************************************************************************)

PlaceOK == /\ alive \in BOOLEAN /\ {adapter, scope} \subseteq Adapter \cup {NoAdapter}
WireOK ==
    /\ gate \in [iface : Adapter \cup {NoAdapter}, allow : RuleSets]
    /\ permit \in [Name -> [to : SUBSET Member, on : BOOLEAN]]
    /\ system = "linux" => Standing = {}
HybridOK == last \in RuleSets \cup {None} /\ swept \in BOOLEAN
SessionOK ==
    /\ role \in {"none", "host", "guest"}
    /\ {members, veto, revoked} \subseteq SUBSET Member
    /\ game \in BOOLEAN
    /\ applied \in RuleSets \cup {None}
    /\ alerts \subseteq {"kick", "audit", "tamper"}

LEMMA CallFacts ==
    /\ NoRules \in RuleSets
    /\ \A ms \in SUBSET Member : \A r, g : Desired(r, ms, g) \in RuleSets
    /\ \A why \in {"enter", "undo", "peers", "issue", "kick", "halfKick",
                   "game", "up", "repair",
                   "leave", "exit", "giveup", "shutdown"}, want \in RuleSets :
            Call(why, want) \in Job /\ Call(why, want) # None
    /\ \A why \in {"start", "gaveUp"} : Purging(why) \in Job /\ Purging(why) # None
<1>1. NoRules \in RuleSets
    BY DEF NoRules, RuleSets
<1>2. \A ms \in SUBSET Member : \A r, g : Desired(r, ms, g) \in RuleSets
    BY DEF Desired, RuleSets
<1>3. None \notin Job
    BY ContainmentAssumption
<1>4. ASSUME NEW why \in {"enter", "undo", "peers", "issue", "kick", "halfKick",
                          "game", "up", "repair",
                         "leave", "exit", "giveup", "shutdown"}, NEW want \in RuleSets
      PROVE  Call(why, want) \in Job
    BY DEF Call, Job
<1>5. ASSUME NEW why \in {"start", "gaveUp"} PROVE Purging(why) \in Job
    BY <1>1 DEF Purging, Job
<1> QED BY <1>1, <1>2, <1>3, <1>4, <1>5

\* What the session asks for is a call of the right type.
LEMMA AskType ==
    ASSUME NEW why \in {"enter", "undo", "peers", "issue", "kick", "halfKick",
                        "game", "up", "repair",
                       "leave", "exit", "giveup", "shutdown"},
           NEW r, NEW ms \in SUBSET Member, NEW g
    PROVE  Call(why, Desired(r, ms, g)) \in Job
<1>1. Desired(r, ms, g) \in RuleSets
    BY CallFacts
<1>2. ASSUME NEW want \in RuleSets PROVE Call(why, want) \in Job
    BY CallFacts
<1> QED BY <1>1, <1>2

LEMMA BecomesFacts ==
    ASSUME TypeOK, job # None, NEW at \in {"gate", "permits", "own", "ownGate", "done"},
           NEW ok \in BOOLEAN, Becomes(at, ok)
    PROVE  /\ job' \in Job /\ job' # None
           /\ job'.why = job.why /\ job'.want = job.want /\ job'.at = at /\ job'.ok = ok
BY ContainmentAssumption DEF Becomes, TypeOK, Job

LEMMA JobFacts ==
    ASSUME TypeOK, job # None
    PROVE  /\ job \in Job /\ job.want \in RuleSets /\ job.ok \in BOOLEAN
           /\ \A n \in Name : job.want[n] \subseteq Member
BY DEF TypeOK, Job, RuleSets

LEMMA PermitsType ==
    ASSUME TypeOK, job # None, PermitsStep, UNCHANGED system
    PROVE  WireOK' /\ halfway' \in BOOLEAN /\ job' \in Job
<1>1. PICK R \in SUBSET ToRetire, A \in SUBSET ToAdd, ok \in BOOLEAN :
        /\ permit' = [n \in Name |-> IF n \in A THEN Wanted(n)
                                     ELSE IF n \in R THEN Retired(n) ELSE permit[n]]
        /\ ~Windows => ok /\ A = {}
        /\ halfway' = ~ok
        /\ Becomes("done", ok)
    BY DEF PermitsStep
<1>2. \A n \in Name : /\ Wanted(n) \in [to : SUBSET Member, on : BOOLEAN]
                      /\ Retired(n) \in [to : SUBSET Member, on : BOOLEAN]
    BY JobFacts DEF Wanted, Retired, Absent, TypeOK
<1>3. permit' \in [Name -> [to : SUBSET Member, on : BOOLEAN]]
    BY <1>1, <1>2 DEF TypeOK
<1>4. system' = system /\ gate' = gate
    BY DEF PermitsStep
<1>5. system = "linux" => Standing' = {}
    <2> SUFFICES ASSUME system = "linux" PROVE \A n \in Name : permit'[n] = Absent
        BY DEF Standing
    <2>1. A = {} /\ R = {}
        BY <1>1 DEF Windows, ToRetire, TypeOK
    <2> QED BY <1>1, <2>1 DEF TypeOK, Standing
<1> QED BY <1>1, <1>3, <1>4, <1>5, BecomesFacts DEF WireOK, TypeOK

LEMMA WriteType ==
    ASSUME TypeOK, WriteLayers
    PROVE  WireOK' /\ HybridOK' /\ job' \in Job /\ {touched, halfway}' \subseteq BOOLEAN
           /\ scope' = scope
<1> USE DEF WriteLayers
<1>1. CASE Refused
    BY <1>1, BecomesFacts DEF Refused, wire, hybrid, history, TypeOK, WireOK, HybridOK, Standing
<1>2. CASE Unscoped
    <2>1. NoGate \in [iface : Adapter \cup {NoAdapter}, allow : RuleSets]
        BY CallFacts DEF NoGate
    <2>2. job' \in Job
        BY <1>2, BecomesFacts DEF Unscoped
    <2> QED BY <1>2, <2>1, <2>2 DEF Unscoped, history, TypeOK, WireOK, HybridOK, Standing
<1>3. CASE GateStep
    <2>1. [iface |-> scope, allow |-> job.want] \in [iface : Adapter \cup {NoAdapter}, allow : RuleSets]
        BY JobFacts DEF TypeOK
    <2>2. job' \in Job
        BY <1>3, BecomesFacts DEF GateStep
    <2> QED BY <1>3, <2>1, <2>2, JobFacts DEF GateStep, TypeOK, WireOK, HybridOK, Standing
<1>4. CASE PermitsStep
    BY <1>4, PermitsType DEF PermitsStep, hybrid, TypeOK, HybridOK
<1>5. CASE PurgePermits
    <2>1. PICK R \in SUBSET Standing :
            permit' = [n \in Name |-> IF n \in R THEN Retired(n) ELSE permit[n]]
        BY <1>5 DEF PurgePermits
    <2>2. permit' \in [Name -> [to : SUBSET Member, on : BOOLEAN]]
        BY <2>1 DEF Retired, Absent, TypeOK
    <2>3. Standing' \subseteq Standing
        BY <2>1 DEF Standing, TypeOK
    <2>4. job' \in Job
        BY <1>5, BecomesFacts DEF PurgePermits
    <2> QED BY <1>5, <2>2, <2>3, <2>4 DEF PurgePermits, hybrid, history, TypeOK, WireOK, HybridOK
<1>6. CASE PurgeGate
    <2>1. NoGate \in [iface : Adapter \cup {NoAdapter}, allow : RuleSets]
        BY CallFacts DEF NoGate
    <2>2. job' \in Job
        BY <1>6, BecomesFacts DEF PurgeGate
    <2> QED BY <1>6, <2>1, <2>2 DEF PurgeGate, history, TypeOK, WireOK, HybridOK, Standing
<1> QED BY <1>1, <1>2, <1>3, <1>4, <1>5, <1>6

\* What a closing room is told is an alert.
LEMMA VerifiedType ==
    ASSUME NEW before, before \subseteq {"kick", "audit", "tamper"}, Verified(before)
    PROVE  alerts' \subseteq {"kick", "audit", "tamper"}
BY DEF Verified

LEMMA FinishType ==
    ASSUME TypeOK, Finish
    PROVE  PlaceOK' /\ HybridOK' /\ SessionOK' /\ job' \in Job \cup {None}
<1> USE DEF Finish
<1>1. CASE Answered
    BY <1>1, JobFacts DEF Answered, TypeOK, PlaceOK, HybridOK, SessionOK
<1>2. CASE Entered
    BY <1>2, JobFacts, CallFacts DEF Entered, TypeOK, PlaceOK, HybridOK, SessionOK
<1>3. CASE Closed
    <2>1. alerts' \subseteq {"kick", "audit", "tamper"}
        BY <1>3, VerifiedType DEF Closed
    <2> QED BY <1>3, <2>1, CallFacts DEF Closed, TypeOK, PlaceOK, HybridOK, SessionOK
<1>4. CASE Purged
    <2>1. alerts' \subseteq {"kick", "audit", "tamper"}
        BY <1>4, VerifiedType DEF Purged, TypeOK
    <2> QED BY <1>4, <2>1, JobFacts DEF Purged, TypeOK, PlaceOK, HybridOK, SessionOK
<1> QED BY <1>1, <1>2, <1>3, <1>4

LEMMA SameWire ==
    ASSUME TypeOK, UNCHANGED <<system, wire>> PROVE WireOK'
BY DEF wire, WireOK, TypeOK, Standing

LEMMA TypeInit == Init => TypeOK
<1> SUFFICES ASSUME Init PROVE TypeOK
    OBVIOUS
<1>1. NoGate \in [iface : Adapter \cup {NoAdapter}, allow : RuleSets]
    BY CallFacts DEF NoGate
<1>2. permit \in [Name -> [to : SUBSET Member, on : BOOLEAN]] /\ Standing = {}
    BY DEF Init, Absent, Standing
<1> QED BY <1>1, <1>2 DEF Init, TypeOK

LEMMA TypeStep == TypeOK /\ [Next]_vars => TypeOK'
<1> SUFFICES ASSUME TypeOK, [Next]_vars PROVE TypeOK'
    OBVIOUS
<1> DEFINE All == system' = system /\ PlaceOK' /\ WireOK' /\ HybridOK' /\ SessionOK'
                  /\ job' \in Job \cup {None} /\ {touched, halfway}' \subseteq BOOLEAN
<1>0. All => TypeOK'
    BY DEF PlaceOK, WireOK, HybridOK, SessionOK, TypeOK
<1>1. CASE WriteLayers
    <2>1. PlaceOK' /\ SessionOK' /\ system' = system
        BY <1>1, WriteType DEF WriteLayers, session, PlaceOK, SessionOK, TypeOK
    <2> QED BY <1>0, <1>1, <2>1, WriteType
<1>2. CASE Finish
    <2>1. WireOK' /\ system' = system /\ {touched, halfway}' \subseteq BOOLEAN
        BY <1>2, SameWire DEF Finish, history, TypeOK
    <2> QED BY <1>0, <1>2, <2>1, FinishType
<1>3. CASE Sweep
    <2>3. Call("repair", Desired(role, members, game)) \in Job
        BY AskType DEF TypeOK
    <2>1. job' \in Job \cup {None}
        BY <1>3, <2>3 DEF Sweep
    <2>2. SessionOK'
        BY <1>3 DEF Sweep, SessionOK, TypeOK
    <2> QED BY <1>0, <1>3, <2>1, <2>2, SameWire
        DEF Sweep, hybrid, history, PlaceOK, HybridOK, TypeOK
<1>4. CASE Start
    BY <1>0, <1>4, CallFacts, SameWire
    DEF Start, hybrid, session, history, PlaceOK, HybridOK, SessionOK, TypeOK
<1>5. ASSUME NEW r \in {"host", "guest"}, NEW ms \in SUBSET Member, Enter(r, ms) PROVE TypeOK'
    <2>2. Call("enter", Desired(r, ms, FALSE)) \in Job /\ Call("undo", NoRules) \in Job
        BY AskType, CallFacts
    <2>3. job' \in Job
        BY <1>5, <2>2 DEF Enter
    <2>1. PlaceOK' /\ SessionOK' /\ job' \in Job
        BY <1>5, <2>3 DEF Enter, NewAdapter, PlaceOK, SessionOK, TypeOK
    <2> QED BY <1>0, <1>5, <2>1, SameWire DEF Enter, history, HybridOK, TypeOK
<1>6. ASSUME NEW ms \in SUBSET Member, PeersChanged(ms) PROVE TypeOK'
    <2>2. Call("peers", Desired(role, ms \ veto, game)) \in Job
        BY AskType
    <2>1. SessionOK' /\ job' \in Job \cup {None}
        BY <1>6, <2>2 DEF PeersChanged, SessionOK, TypeOK
    <2> QED BY <1>0, <1>6, <2>1, SameWire
        DEF PeersChanged, hybrid, history, PlaceOK, HybridOK, TypeOK
<1>7. ASSUME NEW m \in Member, Issue(m) \/ KickMember(m) PROVE TypeOK'
    <2>2. members \cup {m} \in SUBSET Member /\ members \ {m} \in SUBSET Member
        BY DEF TypeOK
    <2>3. /\ Call("issue", Desired(role, members \cup {m}, game)) \in Job
          /\ Call("kick", Desired(role, members \ {m}, game)) \in Job
          /\ Call("halfKick", Desired(role, members \ {m}, game)) \in Job
        BY <2>2, AskType
    <2>4. job' \in Job
        BY <1>7, <2>3 DEF Issue, KickMember
    <2>5. members' \subseteq Member /\ veto' \subseteq Member /\ revoked' \subseteq Member
        BY <1>7 DEF Issue, KickMember, TypeOK
    <2>6. UNCHANGED <<role, game, applied, alerts>>
        BY <1>7 DEF Issue, KickMember
    <2>1. SessionOK' /\ job' \in Job
        BY <2>4, <2>5, <2>6 DEF SessionOK, TypeOK
    <2> QED BY <1>0, <1>7, <2>1, SameWire
        DEF Issue, KickMember, hybrid, history, PlaceOK, HybridOK, TypeOK
<1>14. ASSUME NEW m \in Member, VetoEnds(m) PROVE TypeOK'
    BY <1>0, <1>14, SameWire
    DEF VetoEnds, hybrid, history, PlaceOK, HybridOK, SessionOK, TypeOK
<1>8. CASE ActivateProfile \/ TunnelUp
    <2>2. /\ Call("game", Desired(role, members, ~game)) \in Job
          /\ Call("up", Desired(role, members, game)) \in Job
        BY AskType DEF TypeOK
    <2>1. PlaceOK' /\ SessionOK' /\ job' \in Job
        BY <1>8, <2>2 DEF ActivateProfile, TunnelUp, hybrid, PlaceOK, SessionOK, TypeOK
    <2> QED BY <1>0, <1>8, <2>1, SameWire
        DEF ActivateProfile, TunnelUp, hybrid, history, HybridOK, TypeOK
<1>9. ASSUME NEW why \in {"leave", "exit", "giveup", "shutdown"}, Leave(why) PROVE TypeOK'
    BY <1>0, <1>9, CallFacts, SameWire
    DEF Leave, hybrid, session, history, PlaceOK, HybridOK, SessionOK, TypeOK
<1>10. ASSUME NEW reboot \in BOOLEAN, Die(reboot) PROVE TypeOK'
    <2>1. NoGate \in [iface : Adapter \cup {NoAdapter}, allow : RuleSets]
        BY CallFacts DEF NoGate
    <2> QED BY <1>0, <1>10, <2>1
        DEF Die, history, PlaceOK, HybridOK, SessionOK, WireOK, TypeOK, Standing
<1>11. CASE EngineRestart
    BY <1>0, <1>11, SameWire
    DEF EngineRestart, NewAdapter, hybrid, session, history, PlaceOK, HybridOK, SessionOK, TypeOK
<1>12. CASE Touch
    <2>1. NoGate \in [iface : Adapter \cup {NoAdapter}, allow : RuleSets]
        BY CallFacts DEF NoGate
    <2>2. WireOK'
        <3>1. CASE gate' = NoGate /\ UNCHANGED permit
            BY <1>12, <2>1, <3>1 DEF Touch, WireOK, TypeOK, Standing
        <3>2. ASSUME NEW n \in Standing,
                     NEW p \in {Absent, [permit[n] EXCEPT !.on = ~permit[n].on],
                               [permit[n] EXCEPT !.to = Member]},
                     permit' = [permit EXCEPT ![n] = p], gate' = gate
              PROVE WireOK'
            <4>1. p \in [to : SUBSET Member, on : BOOLEAN]
                <5>1. permit[n] \in [to : SUBSET Member, on : BOOLEAN]
                    BY DEF Standing, TypeOK
                <5>2. /\ [permit[n] EXCEPT !.on = ~permit[n].on] \in [to : SUBSET Member, on : BOOLEAN]
                      /\ [permit[n] EXCEPT !.to = Member] \in [to : SUBSET Member, on : BOOLEAN]
                    BY <5>1
                <5>3. Absent \in [to : SUBSET Member, on : BOOLEAN]
                    BY DEF Absent
                <5> QED BY <5>2, <5>3
            <4>2. Standing' \subseteq Standing
                BY <3>2 DEF Standing, TypeOK
            <4> QED BY <1>12, <3>2, <4>1, <4>2 DEF Touch, WireOK, TypeOK, Standing
        <3> QED BY <1>12, <3>1, <3>2 DEF Touch
    <2> QED BY <1>0, <1>12, <2>2 DEF Touch, hybrid, session, PlaceOK, HybridOK, SessionOK, TypeOK
<1>13. CASE UNCHANGED vars
    BY <1>0, <1>13, SameWire
    DEF vars, hybrid, session, history, PlaceOK, HybridOK, SessionOK, TypeOK
<1> QED BY <1>1, <1>2, <1>3, <1>4, <1>5, <1>6, <1>7, <1>8, <1>9, <1>10, <1>11, <1>12, <1>13,
    <1>14 DEF Next

\* Every variable keeps its type; on Linux, where the permits are not written,
\* nothing ever puts one.
THEOREM TypeCorrect == Spec => []TypeOK
BY TypeInit, TypeStep, PTL DEF Spec

(***************************************************************************)
(* Where a call may be, and what the steps that write leave alone.         *)
(***************************************************************************)

\* A step of the layers moves the call under way and nothing of the session.
LEMMA WriteJob ==
    ASSUME TypeOK, WriteLayers
    PROVE  /\ job # None /\ job' # None /\ job'.why = job.why /\ job'.want = job.want
           /\ job.at # "done"
           /\ job.at = "gate" => job'.at \in {"permits", "done"}
           /\ job.at = "permits" => job'.at = "done"
           /\ job.at = "own" => job'.at \in {"ownGate", "done"}
           /\ job.at = "ownGate" => job'.at = "done"
           /\ UNCHANGED <<system, alive, adapter, scope, session>>
<1> USE DEF WriteLayers
<1>1. CASE Refused
    BY <1>1, BecomesFacts DEF Refused, hybrid
<1>2. CASE Unscoped
    BY <1>2, BecomesFacts DEF Unscoped
<1>3. CASE GateStep
    BY <1>3, BecomesFacts DEF GateStep
<1>4. CASE PermitsStep
    BY <1>4, BecomesFacts DEF PermitsStep, hybrid
<1>5. CASE PurgePermits
    BY <1>5, BecomesFacts DEF PurgePermits, hybrid
<1>6. CASE PurgeGate
    BY <1>6, BecomesFacts DEF PurgeGate
<1> QED BY <1>1, <1>2, <1>3, <1>4, <1>5, <1>6

LEMMA CallIs ==
    ASSUME NEW why, NEW want
    PROVE  /\ Call(why, want).why = why /\ Call(why, want).want = want
           /\ Call(why, want).at = "gate" /\ Call(why, want).ok
           /\ Purging(why).why = why /\ Purging(why).want = NoRules
           /\ Purging(why).at = "own" /\ Purging(why).ok
BY DEF Call, Purging

\* A call is not the absence of one.
LEMMA AskIs ==
    /\ \A why \in {"enter", "peers", "issue", "kick", "halfKick", "game", "up", "repair"} :
         \A ms \in SUBSET Member : \A r, g : Call(why, Desired(r, ms, g)) # None
    /\ \A why \in {"undo", "leave", "exit", "giveup", "shutdown"} : Call(why, NoRules) # None
    /\ \A why \in {"start", "gaveUp"} : Purging(why) # None
BY AskType, CallFacts, ContainmentAssumption

LEMMA CourseInit == Init => Course
BY DEF Init, Course, InRoom, InJob, Barred

LEMMA CourseStep == ASSUME TypeOK, Course, [Next]_vars PROVE Course'
<1> USE DEF Course, InRoom, InJob, Barred
<1>1. CASE WriteLayers
    <2>1. job.at \in {"gate", "permits", "own", "ownGate"}
        BY <1>1, WriteJob, JobFacts DEF Job
    <2> QED BY <1>1, <2>1, WriteJob DEF session
<1>2. CASE Finish
    <2> USE DEF Finish
    <2>1. CASE Answered
        BY <1>2, <2>1 DEF Answered
    <2>2. CASE Entered
        BY <1>2, <2>2, CallIs, AskIs DEF Entered
    <2>3. CASE Closed
        <3>1. role' = "none" /\ adapter' = NoAdapter /\ scope' = NoAdapter /\ Barred' = {}
            BY <2>3 DEF Closed
        <3>2. applied' = None
            BY <1>2, <2>3 DEF Closed
        <3>3. job' = None \/ (job' = Purging("gaveUp") /\ job.why = "giveup" /\ alive')
            BY <2>3 DEF Closed
        <3>4. Purging("gaveUp") # None
            BY AskIs
        <3> QED BY <3>1, <3>2, <3>3, <3>4, CallIs
    <2>4. CASE Purged
        BY <1>2, <2>4 DEF Purged
    <2> QED BY <1>2, <2>1, <2>2, <2>3, <2>4
<1>3. CASE Sweep
    <2>1. job' = None \/ (InRoom /\ job' = Call("repair", Desired(role, members, game)))
        BY <1>3 DEF Sweep
    <2> QED BY <1>3, <2>1, CallIs, AskIs DEF Sweep, Free, hybrid, TypeOK
<1>4. CASE Start
    <2>1. Purging("start") # None
        BY AskIs
    <2> QED BY <1>4, <2>1, CallIs DEF Start, hybrid, session
<1>5. ASSUME NEW r \in {"host", "guest"}, NEW ms \in SUBSET Member, Enter(r, ms) PROVE Course'
    <2>1. adapter' # NoAdapter
        BY <1>5, ContainmentAssumption DEF Enter, NewAdapter
    <2>2. Call("enter", Desired(r, ms, FALSE)) # None /\ Call("undo", NoRules) # None
        BY AskIs
    <2>3. alive' /\ role' = r /\ role' # "none" /\ applied' = None /\ Barred' = {}
        BY <1>5 DEF Enter, Free
    <2>4. \E want : (\/ scope' = adapter' /\ job' = Call("enter", want)
                     \/ job' = Call("undo", NoRules))
        BY <1>5 DEF Enter
    <2>5. job' # None
        BY <1>5, <2>2 DEF Enter
    <2>6. /\ job'.at = "gate"
          /\ \/ job'.why = "undo" /\ job'.want = NoRules
             \/ job'.why = "enter" /\ scope' = adapter'
        BY <2>4, CallIs
    <2> QED BY <2>1, <2>3, <2>5, <2>6
<1>6. ASSUME NEW ms \in SUBSET Member, PeersChanged(ms) PROVE Course'
    <2>1. job' = None \/ job' = Call("peers", Desired(role, ms \ veto, game))
        BY <1>6 DEF PeersChanged
    <2> QED BY <1>6, <2>1, CallIs, AskIs DEF PeersChanged, Free, hybrid
<1>7. ASSUME NEW m \in Member, Issue(m) \/ KickMember(m) PROVE Course'
    <2>1. members \cup {m} \in SUBSET Member /\ members \ {m} \in SUBSET Member
        BY DEF TypeOK
    <2>2. Call("issue", Desired(role, members \cup {m}, game)) # None
        BY <2>1, AskIs
    <2>3. \A why \in {"kick", "halfKick"} : Call(why, Desired(role, members \ {m}, game)) # None
        BY <2>1, AskIs
    <2>4. CASE Issue(m)
        BY <2>2, <2>4, CallIs DEF Issue, Free, hybrid
    <2>5. CASE KickMember(m)
        <3>1. \E why \in {"kick", "halfKick"} :
                job' = Call(why, Desired(role, members \ {m}, game))
            BY <2>5 DEF KickMember
        <3>2. job' # None /\ job'.why \in {"kick", "halfKick"} /\ job'.at = "gate"
            BY <2>3, <3>1, CallIs
        <3>3. role = "host" /\ alive /\ job = None /\ UNCHANGED <<alive, adapter, scope, role, applied>>
            BY <2>5 DEF KickMember, Free, hybrid
        <3> QED BY <3>2, <3>3
    <2> QED BY <1>7, <2>4, <2>5
<1>14. ASSUME NEW m \in Member, VetoEnds(m) PROVE Course'
    <2>1. /\ UNCHANGED <<alive, adapter, scope, role, applied, job>>
          /\ job = None /\ veto # {}
        BY <1>14 DEF VetoEnds, Free, hybrid
    <2> QED BY <1>14, <2>1 DEF VetoEnds
<1>8. CASE ActivateProfile \/ TunnelUp
    <2>1. Call("game", Desired(role, members, ~game)) # None
        BY AskIs DEF TypeOK
    <2>2. Call("up", Desired(role, members, game)) # None
        BY AskIs DEF TypeOK
    <2> QED BY <1>8, <2>1, <2>2, CallIs DEF ActivateProfile, TunnelUp, Free, hybrid
<1>9. ASSUME NEW why \in {"leave", "exit", "giveup", "shutdown"}, Leave(why) PROVE Course'
    BY <1>9, CallIs, AskIs DEF Leave, Free, hybrid, session
<1>10. ASSUME NEW reboot \in BOOLEAN, Die(reboot) PROVE Course'
    BY <1>10 DEF Die
<1>11. CASE EngineRestart
    BY <1>11, ContainmentAssumption DEF EngineRestart, NewAdapter, hybrid, session
<1>12. CASE Touch
    BY <1>12 DEF Touch, hybrid, session
<1>13. CASE UNCHANGED vars
    BY <1>13 DEF vars, hybrid, session
<1> QED BY <1>1, <1>2, <1>3, <1>4, <1>5, <1>6, <1>7, <1>8, <1>9, <1>10, <1>11, <1>12, <1>13,
    <1>14 DEF Next

\* What does not write the layers leaves them as they are, but for somebody
\* else's hand and a reboot.
LEMMA Aside ==
    ASSUME TypeOK, [Next]_vars, ~WriteLayers
    PROVE  /\ system' = system /\ halfway' = halfway
           /\ touched' \/ permit' = permit
           /\ touched' \/ gate' = gate \/ (gate' = NoGate /\ ~alive' /\ job' = None /\ role' = "none")
           /\ job' \in {job, None} \/ job'.at \in {"gate", "own"}
<1>1. CASE Finish
    BY <1>1, CallIs DEF Finish, Answered, Entered, Closed, Purged, wire, history
<1>2. CASE Sweep \/ Start \/ ActivateProfile \/ TunnelUp
    BY <1>2, CallIs DEF Sweep, Start, ActivateProfile, TunnelUp, wire, history
<1>3. ASSUME NEW r \in {"host", "guest"}, NEW ms \in SUBSET Member, Enter(r, ms) \/ PeersChanged(ms)
      PROVE /\ UNCHANGED <<system, wire, history>>
            /\ job' = None \/ job'.at = "gate"
    <2>1. \E why, want : job' = None \/ job' = Call(why, want)
        BY <1>3 DEF Enter, PeersChanged
    <2>2. job' = None \/ job'.at = "gate"
        BY <2>1, CallIs
    <2>3. UNCHANGED <<system, wire, history>>
        BY <1>3 DEF Enter, PeersChanged
    <2> QED BY <2>2, <2>3
<1>4. ASSUME NEW m \in Member, Issue(m) \/ KickMember(m) \/ VetoEnds(m)
      PROVE /\ UNCHANGED <<system, wire, history>>
            /\ job' = job \/ job'.at = "gate"
    BY <1>4, CallIs DEF Issue, KickMember, VetoEnds
<1>5. ASSUME NEW why \in {"leave", "exit", "giveup", "shutdown"}, Leave(why)
      PROVE /\ UNCHANGED <<system, wire, history>>
            /\ job'.at = "gate"
    BY <1>5, CallIs DEF Leave
<1>6. ASSUME NEW reboot \in BOOLEAN, Die(reboot)
      PROVE /\ UNCHANGED <<system, permit, history>> /\ gate' \in {gate, NoGate}
            /\ job' = None /\ ~alive' /\ role' = "none"
    BY <1>6 DEF Die
<1>7. CASE EngineRestart \/ Touch \/ UNCHANGED vars
    BY <1>7 DEF EngineRestart, Touch, vars, wire, history
<1> QED BY <1>1, <1>2, <1>3, <1>4, <1>5, <1>6, <1>7 DEF Next, wire, history

\* A hand that touched the rules is seen until the gate is next written.
LEMMA StaysTouched == ASSUME [Next]_vars, ~WriteLayers, touched PROVE touched'
BY DEF Next, Finish, Sweep, Start, Enter, PeersChanged, Issue, KickMember, VetoEnds, ActivateProfile,
       TunnelUp, Leave, Die, EngineRestart, Touch, vars, history

\* The transaction of the gate is made, or nothing of it is.
LEMMA GateWritten ==
    ASSUME TypeOK, job # None, GateStep
    PROVE  /\ scope # NoAdapter /\ job.at = "gate" /\ UNCHANGED <<permit, scope, halfway>>
           /\ \/ /\ gate' = [iface |-> scope, allow |-> job.want]
                 /\ gate'.iface = scope /\ gate'.allow = job.want
                 /\ last' = job.want
                 /\ job'.at = "permits" /\ job'.ok
              \/ /\ UNCHANGED <<gate, last, touched>>
                 /\ job'.at = "done" /\ ~job'.ok
<1>1. CASE gate' = [iface |-> scope, allow |-> job.want] /\ last' = job.want /\ Becomes("permits", TRUE)
    <2>1. gate'.iface = scope /\ gate'.allow = job.want
        BY <1>1
    <2>2. job'.at = "permits" /\ job'.ok
        BY <1>1, BecomesFacts
    <2> QED BY <1>1, <2>1, <2>2 DEF GateStep
<1>2. CASE UNCHANGED <<gate, last, touched>> /\ Becomes("done", FALSE)
    <2>1. job'.at = "done" /\ ~job'.ok
        BY <1>2, BecomesFacts
    <2> QED BY <1>2, <2>1 DEF GateStep
<1> QED BY <1>1, <1>2 DEF GateStep

\* While a call is under way nobody else is let in: it is answered, or the
\* process dies, or what is decided stays as it is.
LEMMA JobHolds ==
    ASSUME [Next]_vars, ~WriteLayers, job # None
    PROVE  \/ Finish
           \/ \E reboot \in BOOLEAN : Die(reboot)
           \/ UNCHANGED <<system, alive, hybrid, session, job>>
BY DEF Next, Sweep, Start, Enter, PeersChanged, Issue, KickMember, VetoEnds, ActivateProfile, TunnelUp,
       Leave, EngineRestart, Touch, vars, Free

LEMMA ShapeStep == ASSUME TypeOK, Shape, [Next]_vars PROVE Shape'
<1> DEFINE GateShape == gate.iface = NoAdapter => gate = NoGate
           Kept(p) == p.on => p.to # {}
<1>1. ASSUME gate' \in {gate, NoGate} PROVE GateShape'
    BY <1>1 DEF Shape, NoGate
<1>2. ASSUME permit' = permit PROVE \A n \in Name : Kept(permit'[n])
    BY <1>2 DEF Shape
<1>3. CASE WriteLayers
    <2> USE DEF WriteLayers
    <2>1. CASE Refused \/ Unscoped \/ PurgeGate
        BY <1>1, <1>2, <2>1 DEF Refused, Unscoped, PurgeGate, wire, Shape
    <2>2. CASE GateStep
        <3>1. GateShape'
            <4>1. CASE gate' = [iface |-> scope, allow |-> job.want]
                BY <2>2, <4>1 DEF GateStep
            <4>2. CASE gate' = gate
                BY <1>1, <4>2
            <4> QED BY <2>2, <4>1, <4>2 DEF GateStep
        <3> QED BY <1>2, <2>2, <3>1 DEF GateStep, Shape
    <2>3. CASE PermitsStep
        <3>1. PICK R \in SUBSET ToRetire, A \in SUBSET ToAdd :
                permit' = [n \in Name |-> IF n \in A THEN Wanted(n)
                                         ELSE IF n \in R THEN Retired(n) ELSE permit[n]]
            BY <2>3 DEF PermitsStep
        <3>2. \A n \in ToAdd : Kept(Wanted(n))
            BY DEF ToAdd, Names, Wanted
        <3>3. \A n \in Name : Kept(Retired(n)) /\ Kept(permit[n])
            BY DEF Shape, Retired, Absent, TypeOK
        <3>4. \A n \in Name : Kept(permit'[n])
            BY <3>1, <3>2, <3>3
        <3> QED BY <1>1, <2>3, <3>4 DEF PermitsStep, Shape
    <2>4. CASE PurgePermits
        <3>1. PICK R \in SUBSET Standing :
                permit' = [n \in Name |-> IF n \in R THEN Retired(n) ELSE permit[n]]
            BY <2>4 DEF PurgePermits
        <3>2. \A n \in Name : Kept(permit'[n])
            BY <3>1 DEF Shape, Retired, Absent, TypeOK
        <3> QED BY <1>1, <2>4, <3>2 DEF PurgePermits, Shape
    <2> QED BY <1>3, <2>1, <2>2, <2>3, <2>4
<1>4. CASE Touch
    <2>1. gate' \in {gate, NoGate}
        BY <1>4 DEF Touch
    <2>2. \A n \in Name : Kept(permit'[n])
        <3>1. ASSUME NEW n \in Standing,
                     NEW p \in {Absent, [permit[n] EXCEPT !.on = ~permit[n].on],
                               [permit[n] EXCEPT !.to = Member]},
                     permit' = [permit EXCEPT ![n] = p]
              PROVE \A k \in Name : Kept(permit'[k])
            <4>1. permit[n] \in [to : SUBSET Member, on : BOOLEAN] /\ permit[n] # Absent
                BY DEF Standing, TypeOK
            <4>2. permit[n].to # {}
                <5>1. permit[n] = [to |-> permit[n].to, on |-> permit[n].on]
                    BY <4>1
                <5> QED BY <4>1, <5>1 DEF Shape, Absent, Standing
            <4>3. Kept(p)
                BY <4>1, <4>2 DEF Absent
            <4> QED BY <3>1, <4>3 DEF Shape, TypeOK
        <3> QED BY <1>2, <1>4, <3>1 DEF Touch
    <2> QED BY <1>1, <2>1, <2>2 DEF Shape
<1>5. CASE ~WriteLayers /\ ~Touch
    <2>1. UNCHANGED wire \/ (permit' = permit /\ gate' \in {gate, NoGate})
        BY <1>5 DEF Next, Finish, Sweep, Start, Enter, PeersChanged, Issue, KickMember, VetoEnds,
            ActivateProfile, TunnelUp, Leave, Die, EngineRestart, vars
    <2> QED BY <1>1, <1>2, <2>1 DEF wire, Shape
<1> QED BY <1>3, <1>4, <1>5

(***************************************************************************)
(* The gate of a room.                                                     *)
(***************************************************************************)

\* The rest of a call finds the gate as it wrote it.
LEMMA GatedStep == ASSUME TypeOK, Course, Gated, [Next]_vars PROVE Gated'
<1>1. CASE WriteLayers
    <2> USE DEF WriteLayers, Gated
    <2>1. CASE Refused
        BY <1>1, <2>1, BecomesFacts DEF Refused
    <2>2. CASE Unscoped
        BY <1>1, <2>2 DEF Unscoped
    <2>3. CASE GateStep
        BY <1>1, <2>3, BecomesFacts DEF GateStep
    <2>4. CASE PermitsStep
        BY <1>1, <2>4, BecomesFacts DEF PermitsStep, hybrid
    <2>5. CASE PurgePermits \/ PurgeGate
        BY <1>1, <2>5 DEF PurgePermits, PurgeGate, hybrid, Course, TypeOK, Job
    <2> QED BY <1>1, <2>1, <2>2, <2>3, <2>4, <2>5
<1>2. CASE ~WriteLayers
    <2>1. CASE Finish
        <3>1. job.at = "done" /\ (job' = None \/ job'.at \in {"gate", "own"})
            BY <2>1, CallIs DEF Finish, Answered, Entered, Closed, Purged
        <3> QED BY <3>1 DEF Gated
    <2>2. CASE \E reboot \in BOOLEAN : Die(reboot)
        BY <2>2 DEF Die, Gated
    <2>3. CASE UNCHANGED <<hybrid, job>>
        <3>1. job = None \/ touched' \/ (~touched /\ gate' = gate)
            <4>1. gate' = gate \/ job' = None \/ touched'
                BY <1>2, Aside
            <4>2. touched' \/ ~touched
                BY <1>2, StaysTouched
            <4> QED BY <2>3, <4>1, <4>2
        <3> QED BY <2>3, <3>1 DEF hybrid, Gated
    <2>4. CASE job = None
        BY <1>2, <2>4, Aside DEF Gated
    <2> QED BY <1>2, <2>1, <2>2, <2>3, <2>4, JobHolds
<1> QED BY <1>1, <1>2

\* A room that is open has a gate.
LEMMA RoomGatedStep ==
    ASSUME TypeOK, Course, Gated, RoomGated, [Next]_vars PROVE RoomGated'
<1>1. CASE WriteLayers
    <2> USE DEF WriteLayers, RoomGated, InRoom, InJob
    <2>1. UNCHANGED role /\ job # None /\ job' # None /\ job'.why = job.why
        BY <1>1, WriteJob DEF session
    <2>2. CASE Refused \/ PermitsStep \/ PurgePermits
        BY <1>1, <2>1, <2>2 DEF Refused, PermitsStep, PurgePermits, wire, history
    <2>3. CASE Unscoped
        <3>1. InRoom => job.why = "undo"
            BY <2>3 DEF Unscoped, Course
        <3> QED BY <2>1, <3>1
    <2>4. CASE GateStep
        <3>1. gate'.iface # NoAdapter \/ UNCHANGED <<gate, touched>>
            BY <2>1, <2>4, GateWritten
        <3> QED BY <2>1, <3>1
    <2>5. CASE PurgeGate
        <3>1. ~InRoom
            BY <2>1, <2>5 DEF PurgeGate, Course
        <3> QED BY <2>1, <3>1
    <2> QED BY <1>1, <2>2, <2>3, <2>4, <2>5
<1>2. CASE ~WriteLayers /\ ~touched'
    <2>0. ~WriteLayers /\ ~touched'
        BY <1>2
    <2>1. ~touched /\ (gate' = gate \/ role' = "none")
        <3>1. ~touched
            BY <2>0, StaysTouched
        <3>2. gate' = gate \/ role' = "none"
            BY <2>0, Aside
        <3> QED BY <3>1, <3>2
    <2>2. role' # "none" /\ ~InJob({"enter", "undo"})' =>
            role # "none" /\ (~InJob({"enter", "undo"}) \/ (InJob({"enter"}) /\ job.at = "done" /\ job.ok))
        <3> SUFFICES ASSUME role' # "none", job' = None \/ job'.why \notin {"enter", "undo"}
                     PROVE  role # "none" /\ (job = None \/ job.why \notin {"enter", "undo"}
                              \/ (job.why = "enter" /\ job.at = "done" /\ job.ok))
            BY DEF InJob
        <3>1. CASE Finish
            BY <3>1, CallIs, AskIs DEF Finish, Answered, Entered, Closed, Purged, Course, InRoom
        <3>2. ~(\E r \in {"host", "guest"}, ms \in SUBSET Member : Enter(r, ms))
            <4> SUFFICES ASSUME NEW r \in {"host", "guest"}, NEW ms \in SUBSET Member,
                                Enter(r, ms) PROVE FALSE
                OBVIOUS
            <4>1. \E want : job' = Call("enter", want) \/ job' = Call("undo", NoRules)
                BY DEF Enter
            <4>2. job' # None
                BY AskIs DEF Enter
            <4> QED BY <4>1, <4>2, CallIs
        <3>3. ~(\E reboot \in BOOLEAN : Die(reboot))
            BY DEF Die
        <3>4. CASE Sweep \/ Start \/ EngineRestart \/ Touch \/ UNCHANGED vars
            BY <3>4 DEF Sweep, Start, EngineRestart, Touch, vars, session, Free
        <3>5. CASE ActivateProfile \/ TunnelUp \/ (\E ms \in SUBSET Member : PeersChanged(ms))
                \/ (\E m \in Member : Issue(m) \/ KickMember(m) \/ VetoEnds(m))
                \/ \E why \in {"leave", "exit", "giveup", "shutdown"} : Leave(why)
            BY <3>5 DEF ActivateProfile, TunnelUp, PeersChanged, Issue, KickMember, VetoEnds, Leave, Free,
                InRoom
        <3> QED BY <1>2, <3>1, <3>2, <3>3, <3>4, <3>5 DEF Next
    <2>3. InJob({"enter"}) /\ job.at = "done" /\ job.ok /\ role # "none" => gate.iface # NoAdapter
        BY <2>1 DEF Gated, Course, InRoom, InJob
    <2> QED BY <2>1, <2>2, <2>3 DEF RoomGated, InRoom
<1> QED BY <1>1, <1>2 DEF RoomGated

(***************************************************************************)
(* With every adapter found, nothing stays open without its gate.          *)
(***************************************************************************)

LEMMA BoundStep ==
    ASSUME TypeOK, Course, Bound, "bind" \notin Fault, [Next]_vars PROVE Bound'
<1> USE DEF Bound, InRoom
<1>1. CASE WriteLayers
    BY <1>1, WriteJob DEF session
<1>2. CASE Finish
    BY <1>2 DEF Finish, Answered, Entered, Closed, Purged
<1>3. ASSUME NEW r \in {"host", "guest"}, NEW ms \in SUBSET Member, Enter(r, ms) PROVE Bound'
    <2>1. scope' = adapter' /\ adapter' \in Adapter
        BY <1>3 DEF Enter, NewAdapter
    <2> QED BY <2>1, ContainmentAssumption
<1>4. CASE TunnelUp
    BY <1>4 DEF TunnelUp
<1>5. CASE Sweep \/ Start \/ EngineRestart \/ Touch \/ ActivateProfile \/ UNCHANGED vars
    BY <1>5 DEF Sweep, Start, EngineRestart, Touch, ActivateProfile, vars, session, hybrid
<1>6. ASSUME NEW ms \in SUBSET Member, PeersChanged(ms) PROVE Bound'
    BY <1>6 DEF PeersChanged, hybrid
<1>7. ASSUME NEW m \in Member, Issue(m) \/ KickMember(m) \/ VetoEnds(m) PROVE Bound'
    BY <1>7 DEF Issue, KickMember, VetoEnds, hybrid
<1>8. ASSUME NEW why \in {"leave", "exit", "giveup", "shutdown"}, Leave(why) PROVE Bound'
    BY <1>8 DEF Leave, hybrid, session
<1>9. ASSUME NEW reboot \in BOOLEAN, Die(reboot) PROVE Bound'
    BY <1>9 DEF Die
<1> QED BY <1>1, <1>2, <1>3, <1>4, <1>5, <1>6, <1>7, <1>8, <1>9 DEF Next

\* Taking a permit back never turns one on, and taking all of them back
\* leaves none on.
LEMMA PurgeCloses ==
    ASSUME TypeOK, PurgePermits
    PROVE  /\ (\E n \in Name : permit'[n].on) => \E n \in Name : permit[n].on
           /\ ~Becomes("done", FALSE) => \A n \in Name : ~permit'[n].on
<1>1. PICK R \in SUBSET Standing :
        /\ permit' = [n \in Name |-> IF n \in R THEN Retired(n) ELSE permit[n]]
        /\ R = Standing \/ Becomes("done", FALSE)
    BY DEF PurgePermits
<1>2. \A n \in Name : Retired(n).on = FALSE
    BY DEF Retired, Absent, TypeOK
<1>3. \A n \in Name : permit'[n].on = IF n \in R THEN FALSE ELSE permit[n].on
    BY <1>1, <1>2
<1>4. \A n \in Name \ Standing : permit[n].on = FALSE
    BY DEF Standing, Absent
<1> QED BY <1>1, <1>3, <1>4

\* The daemon comes up only behind a purge that went well.
LEMMA ComesUp ==
    ASSUME TypeOK, Course, [Next]_vars, ~WriteLayers, ~alive, alive'
    PROVE  job # None /\ job.why \in {"start", "gaveUp"} /\ job.at = "done" /\ job.ok
BY DEF Next, Finish, Answered, Entered, Closed, Purged, Sweep, Start, Enter, PeersChanged, Issue,
       KickMember, VetoEnds, ActivateProfile, TunnelUp, Leave, Die, EngineRestart, Touch, vars, Free,
       Course, InJob

LEMMA PermitsGatedStep ==
    ASSUME TypeOK, Course, Gated, Bound, PermitsGated, [Next]_vars PROVE PermitsGated'
<1> DEFINE On == \E n \in Name : permit[n].on
           Shutting(j) == \/ j.at = "ownGate"
                          \/ j.at = "done" /\ j.ok /\ j.why \in {"start", "gaveUp"}
           Good(a, t, w, on, g, j) ==
                /\ a /\ ~t /\ w /\ on => g.iface # NoAdapter
                /\ j # None /\ ~t /\ w /\ Shutting(j) => ~on
<1>0. /\ PermitsGated <=> Good(alive, touched, Windows, On, gate, job)
      /\ PermitsGated' <=> Good(alive', touched', Windows', On', gate', job')
    BY DEF PermitsGated, Open, Windows
<1>1. CASE WriteLayers
    <2>1. /\ job # None /\ job' # None /\ job'.why = job.why
          /\ UNCHANGED <<alive, scope, system, role>>
        BY <1>1, WriteJob DEF session
    <2>2. Windows' = Windows
        BY <2>1 DEF Windows
    <2> USE DEF WriteLayers
    <2>3. CASE Refused
        <3>1. UNCHANGED <<gate, permit, touched>> /\ job'.at = "done" /\ ~job'.ok
            BY <2>1, <2>3, BecomesFacts DEF Refused, wire, history
        <3> QED BY <1>0, <2>1, <2>2, <3>1
    <2>4. CASE Unscoped
        BY <2>4, <2>1 DEF Unscoped, Course, Bound
    <2>5. CASE GateStep
        <3>1. /\ permit' = permit
              /\ \/ gate'.iface # NoAdapter /\ job'.at = "permits"
                 \/ UNCHANGED <<gate, touched>> /\ job'.at = "done" /\ ~job'.ok
            BY <2>1, <2>5, GateWritten
        <3> QED BY <1>0, <2>1, <2>2, <3>1
    <2>6. CASE PermitsStep
        <3>1. job.at = "permits" /\ gate' = gate /\ touched' = touched /\ job'.at = "done"
            BY <1>1, <2>6, WriteJob DEF PermitsStep
        <3>2. InRoom /\ job.why \notin {"start", "gaveUp"} /\ scope # NoAdapter
            BY <2>1, <3>1 DEF Course, Bound
        <3>3. ~touched => gate.iface # NoAdapter
            BY <2>1, <3>1, <3>2 DEF Gated
        <3> QED BY <1>0, <2>1, <2>2, <3>1, <3>2, <3>3
    <2>7. CASE PurgePermits
        <3>1. /\ UNCHANGED <<gate, touched>> /\ (On' => On)
              /\ (job'.at = "done" /\ ~job'.ok) \/ (job'.at = "ownGate" /\ ~On')
            <4>1. CASE Becomes("done", FALSE)
                BY <2>1, <2>7, <4>1, PurgeCloses, BecomesFacts DEF PurgePermits, history
            <4>2. CASE ~Becomes("done", FALSE)
                <5>1. Becomes("ownGate", TRUE)
                    BY <2>7, <4>2 DEF PurgePermits
                <5> QED BY <2>1, <2>7, <4>2, <5>1, PurgeCloses, BecomesFacts
                    DEF PurgePermits, history
            <4> QED BY <4>1, <4>2
        <3> QED BY <1>0, <2>1, <2>2, <3>1
    <2>8. CASE PurgeGate
        <3>1. UNCHANGED <<permit, touched>> /\ job.at = "ownGate"
            BY <2>8 DEF PurgeGate, history
        <3> QED BY <1>0, <2>1, <2>2, <3>1
    <2> QED BY <1>1, <2>3, <2>4, <2>5, <2>6, <2>7, <2>8
<1>2. CASE ~WriteLayers /\ touched'
    BY <1>0, <1>2
<1>3. CASE ~WriteLayers /\ ~touched'
    <2>1. /\ ~touched /\ permit' = permit /\ system' = system
          /\ gate' = gate \/ ~alive'
          /\ job' \in {job, None} \/ job'.at \in {"gate", "own"}
        <3>1. ~touched
            BY <1>3, StaysTouched
        <3>2. permit' = permit
            BY <1>3, Aside
        <3>3. gate' = gate \/ ~alive'
            BY <1>3, Aside
        <3>4. system' = system /\ (job' \in {job, None} \/ job'.at \in {"gate", "own"})
            BY <1>3, Aside
        <3> QED BY <3>1, <3>2, <3>3, <3>4
    <2>2. Windows' = Windows /\ On' = On
        BY <2>1 DEF Windows
    <2>3. alive' => alive \/ (job # None /\ Shutting(job))
        BY <1>3, ComesUp
    <2> QED BY <1>0, <2>1, <2>2, <2>3
<1> QED BY <1>1, <1>2, <1>3

(***************************************************************************)
(* A room is never without its gate, and nothing of ours is open without   *)
(* one while there is an adapter: whatever fails in the layers, whoever    *)
(* touches them and whenever the process dies, as long as an adapter the   *)
(* gate is to be tied to is found.                                         *)
(***************************************************************************)
THEOREM NothingOpenWithoutGate == ASSUME "bind" \notin Fault PROVE Spec => []Contained
<1> DEFINE IInv == TypeOK /\ Course /\ Gated /\ RoomGated /\ Bound /\ PermitsGated
<1>1. Init => IInv
    <2>1. Init => Gated /\ RoomGated /\ Bound /\ PermitsGated
        BY DEF Init, Gated, RoomGated, Bound, PermitsGated, InRoom, InJob
    <2> QED BY <2>1, TypeInit, CourseInit
<1>2. IInv /\ [Next]_vars => IInv'
    BY TypeStep, CourseStep, GatedStep, RoomGatedStep, BoundStep, PermitsGatedStep
<1>3. IInv => Contained
    BY DEF Contained, RoomGated, PermitsGated, Course, InRoom, InJob
<1> QED BY <1>1, <1>2, <1>3, PTL DEF Spec

(***************************************************************************)
(* Whoever was kicked.                                                     *)
(***************************************************************************)

LEMMA DesiredWithin ==
    ASSUME NEW r, NEW ms, NEW g PROVE \A n \in Name : Desired(r, ms, g)[n] \subseteq ms
BY DEF Desired

LEMMA BookCleanStep == ASSUME TypeOK, Course, BookClean, [Next]_vars PROVE BookClean'
<1> USE DEF BookClean, Barred
<1>1. CASE WriteLayers
    BY <1>1, WriteJob DEF session
<1>2. CASE Finish
    BY <1>2 DEF Finish, Answered, Entered, Closed, Purged
<1>3. ASSUME NEW r \in {"host", "guest"}, NEW ms \in SUBSET Member, Enter(r, ms) PROVE BookClean'
    BY <1>3 DEF Enter, Course, InRoom
<1>4. CASE Sweep \/ Start \/ EngineRestart \/ Touch \/ ActivateProfile \/ TunnelUp \/ UNCHANGED vars
    BY <1>4 DEF Sweep, Start, EngineRestart, Touch, ActivateProfile, TunnelUp, vars, session
<1>5. ASSUME NEW ms \in SUBSET Member, PeersChanged(ms) PROVE BookClean'
    BY <1>5 DEF PeersChanged, Reported
<1>6. ASSUME NEW m \in Member, Issue(m) \/ KickMember(m) \/ VetoEnds(m) PROVE BookClean'
    BY <1>6 DEF Issue, KickMember, VetoEnds
<1>7. ASSUME NEW why \in {"leave", "exit", "giveup", "shutdown"}, Leave(why) PROVE BookClean'
    BY <1>7 DEF Leave, session
<1>8. ASSUME NEW reboot \in BOOLEAN, Die(reboot) PROVE BookClean'
    BY <1>8 DEF Die
<1> QED BY <1>1, <1>2, <1>3, <1>4, <1>5, <1>6, <1>7, <1>8 DEF Next

LEMMA WantCleanStep ==
    ASSUME TypeOK, Course, BookClean, WantClean, [Next]_vars PROVE WantClean'
<1> USE DEF Barred
<1> DEFINE Clean(want, out) == \A n \in Name : want[n] \cap out = {}
<1>a. ASSUME NEW why, NEW want, job' = Call(why, want), Clean(want, Barred') PROVE WantClean'
    BY <1>a, CallIs DEF WantClean
<1>b. ASSUME NEW r, NEW ms, NEW g, NEW out, ms \cap out = {} PROVE Clean(Desired(r, ms, g), out)
    BY <1>b, DesiredWithin
<1>c. \A out : Clean(NoRules, out)
    BY DEF NoRules
<1>d. ASSUME NEW why, job' = Purging(why) PROVE WantClean'
    BY <1>c, <1>d, CallIs DEF WantClean
<1>e. ASSUME job' = None PROVE WantClean'
    BY <1>e DEF WantClean
<1>1. CASE WriteLayers
    BY <1>1, WriteJob DEF WantClean, session
<1>2. CASE Finish
    <2>1. job' = None \/ job' = Call("undo", NoRules) \/ job' = Purging("gaveUp")
        BY <1>2 DEF Finish, Answered, Entered, Closed, Purged
    <2> QED BY <2>1, <1>a, <1>c, <1>d, <1>e
<1>3. CASE Sweep
    <2>1. job' = None \/ job' = Call("repair", Desired(role, members, game))
        BY <1>3 DEF Sweep
    <2>2. Clean(Desired(role, members, game), Barred')
        BY <1>3, <1>b DEF Sweep, BookClean
    <2> QED BY <2>1, <2>2, <1>a, <1>e
<1>4. CASE Start
    BY <1>4, <1>d DEF Start
<1>5. ASSUME NEW r \in {"host", "guest"}, NEW ms \in SUBSET Member, Enter(r, ms) PROVE WantClean'
    <2>1. Barred' = {}
        BY <1>5 DEF Enter, Course, InRoom
    <2>2. \E why, want : job' = Call(why, want)
        BY <1>5 DEF Enter
    <2> QED BY <2>1, <2>2, <1>a
<1>6. ASSUME NEW ms \in SUBSET Member, PeersChanged(ms) PROVE WantClean'
    <2>1. job' = None \/ job' = Call("peers", Desired(role, ms \ veto, game))
        BY <1>6 DEF PeersChanged
    <2>2. Clean(Desired(role, ms \ veto, game), Barred')
        <3>1. (ms \ veto) \cap Barred' = {}
            BY <1>6 DEF PeersChanged, Reported
        <3> QED BY <3>1, <1>b
    <2> QED BY <2>1, <2>2, <1>a, <1>e
<1>7. ASSUME NEW m \in Member, Issue(m) PROVE WantClean'
    <2>1. Clean(Desired(role, members \cup {m}, game), Barred')
        <3>1. (members \cup {m}) \cap Barred' = {}
            BY <1>7 DEF Issue, BookClean
        <3> QED BY <3>1, <1>b
    <2> QED BY <1>7, <2>1, <1>a DEF Issue
<1>8. ASSUME NEW m \in Member, KickMember(m) PROVE WantClean'
    <2>1. Clean(Desired(role, members \ {m}, game), Barred')
        <3>1. (members \ {m}) \cap Barred' = {}
            BY <1>8 DEF KickMember, BookClean
        <3> QED BY <3>1, <1>b
    <2> QED BY <1>8, <2>1, <1>a DEF KickMember
<1>9. CASE ActivateProfile
    <2>1. Clean(Desired(role, members, ~game), Barred')
        BY <1>9, <1>b DEF ActivateProfile, BookClean
    <2> QED BY <1>9, <2>1, <1>a DEF ActivateProfile
<1>10. CASE TunnelUp
    <2>1. Clean(Desired(role, members, game), Barred')
        BY <1>10, <1>b DEF TunnelUp, BookClean
    <2> QED BY <1>10, <2>1, <1>a DEF TunnelUp
<1>11. ASSUME NEW why \in {"leave", "exit", "giveup", "shutdown"}, Leave(why) PROVE WantClean'
    BY <1>11, <1>a, <1>c DEF Leave
<1>12. ASSUME NEW reboot \in BOOLEAN, Die(reboot) PROVE WantClean'
    BY <1>12, <1>e DEF Die
<1>14. ASSUME NEW m \in Member, VetoEnds(m) PROVE WantClean'
    BY <1>14 DEF VetoEnds, Free, WantClean
<1>13. CASE EngineRestart \/ Touch \/ UNCHANGED vars
    BY <1>13 DEF EngineRestart, Touch, vars, session, WantClean
<1> QED BY <1>1, <1>2, <1>3, <1>4, <1>5, <1>6, <1>7, <1>8, <1>9, <1>10, <1>11, <1>12, <1>13,
    <1>14 DEF Next

\* Those a host barred are in no rule the gate lets in, from the moment
\* the kick is answered for, or an alert says it went wrong.
LEMMA KickedOutStep ==
    ASSUME TypeOK, Course, Gated, WantClean, KickedOut, [Next]_vars PROVE KickedOut'
<1> USE DEF Barred
<1> DEFINE ShutOut(g, out) ==
        \A m \in out : g.iface # NoAdapter /\ \A n \in Name : m \notin g.allow[n]
           Due == ~touched /\ "kick" \notin alerts /\ ~KickPending
<1>0. KickedOut <=> (Due => ShutOut(gate, Barred))
    BY DEF KickedOut
<1>a. ASSUME Barred' = {} PROVE KickedOut'
    BY <1>a DEF KickedOut
<1>b. ASSUME Barred' \subseteq Barred, gate' = gate, Due' => Due PROVE KickedOut'
    BY <1>b, <1>0 DEF KickedOut
<1>c. job = None => ~KickPending
    BY DEF KickPending, InJob
<1>d. Barred # {} => role = "host" /\ (job # None => job.why \notin {"enter", "undo"})
                     /\ scope # NoAdapter
    BY DEF Course, InJob, InRoom
<1>1. CASE WriteLayers
    <2>1. /\ job # None /\ job' # None /\ job'.why = job.why /\ job'.want = job.want
          /\ UNCHANGED <<Barred, alerts, role>>
        BY <1>1, WriteJob DEF session
    <2> USE DEF WriteLayers
    <2>2. CASE Refused
        <3>1. Barred = {}
            BY <2>1, <2>2, <1>d DEF Refused
        <3> QED BY <2>1, <3>1, <1>a
    <2>3. CASE Unscoped
        <3>1. Barred = {}
            BY <2>1, <2>3, <1>d DEF Unscoped
        <3> QED BY <2>1, <3>1, <1>a
    <2>4. CASE GateStep
        <3>1. CASE gate'.iface = scope /\ gate'.allow = job.want /\ scope # NoAdapter
            <4>1. ShutOut(gate', Barred')
                BY <2>1, <3>1 DEF WantClean
            <4> QED BY <4>1 DEF KickedOut
        <3>2. CASE UNCHANGED <<gate, touched>> /\ job'.at = "done" /\ ~job'.ok /\ job.at = "gate"
            <4>1. KickPending => KickPending'
                BY <2>1, <3>2 DEF KickPending, InJob
            <4> QED BY <2>1, <3>2, <4>1, <1>b
        <3> QED BY <2>1, <2>4, <3>1, <3>2, GateWritten
    <2>5. CASE PermitsStep
        <3>1. UNCHANGED <<gate, touched>> /\ job.at = "permits"
            BY <2>5 DEF PermitsStep
        <3>2. ~KickPending
            BY <3>1 DEF KickPending
        <3> QED BY <2>1, <3>1, <3>2, <1>b
    <2>6. CASE PurgePermits \/ PurgeGate
        <3>1. Barred = {}
            BY <2>1, <2>6, <1>d DEF PurgePermits, PurgeGate, Course, InRoom
        <3> QED BY <2>1, <3>1, <1>a
    <2> QED BY <1>1, <2>2, <2>3, <2>4, <2>5, <2>6
<1>2. CASE Finish
    <2>1. UNCHANGED <<gate, touched>> /\ job # None
        BY <1>2 DEF Finish, wire, history
    <2>2. CASE Answered
        <3>1. UNCHANGED <<Barred, role>> /\ job.at = "done" /\ job' = None
            BY <2>2 DEF Answered
        <3>2. CASE job.ok
            <4>1. Barred # {} /\ ~touched => gate = [iface |-> scope, allow |-> job.want]
                BY <1>d, <2>1, <3>1, <3>2 DEF Gated
            <4>2. Barred # {} /\ ~touched => ShutOut(gate, Barred)
                BY <1>d, <2>1, <4>1 DEF WantClean
            <4> QED BY <2>1, <3>1, <4>2 DEF KickedOut
        <3>3. CASE ~job.ok /\ job.why \in {"kick", "halfKick"}
            BY <2>2, <3>3 DEF Answered, KickedOut
        <3>4. CASE ~job.ok /\ job.why \notin {"kick", "halfKick"}
            <4>1. ~KickPending
                BY <3>4 DEF KickPending, InJob
            <4>2. alerts \subseteq alerts'
                BY <2>2, <3>4 DEF Answered
            <4> QED BY <2>1, <3>1, <4>1, <4>2, <1>b
        <3> QED BY <3>2, <3>3, <3>4
    <2>3. CASE Entered \/ Closed \/ Purged
        <3>1. Barred' = {}
            BY <2>1, <2>3, <1>d DEF Entered, Closed, Purged, Course, InRoom
        <3> QED BY <3>1, <1>a
    <2> QED BY <1>2, <2>2, <2>3 DEF Finish
<1>3. CASE Sweep
    <2>1. "kick" \in alerts => "kick" \in alerts'
        BY <1>3 DEF Sweep
    <2> QED BY <1>3, <2>1, <1>b, <1>c DEF Sweep, wire, history, Free
<1>4. CASE Start \/ ActivateProfile \/ TunnelUp
    BY <1>4, <1>b, <1>c DEF Start, ActivateProfile, TunnelUp, wire, session, history, Free
<1>5. ASSUME NEW r \in {"host", "guest"}, NEW ms \in SUBSET Member, Enter(r, ms) PROVE KickedOut'
    <2>1. Barred' = {}
        BY <1>5, <1>d DEF Enter, InRoom
    <2> QED BY <2>1, <1>a
<1>6. ASSUME NEW ms \in SUBSET Member, PeersChanged(ms) PROVE KickedOut'
    BY <1>6, <1>b, <1>c DEF PeersChanged, wire, history, Free
<1>7. ASSUME NEW m \in Member, Issue(m) PROVE KickedOut'
    BY <1>7, <1>b, <1>c DEF Issue, wire, history, Free
<1>8. ASSUME NEW m \in Member, KickMember(m) PROVE KickedOut'
    <2>1. job' # None /\ job'.why \in {"kick", "halfKick"} /\ job'.at = "gate"
        <3>1. members \ {m} \in SUBSET Member
            BY DEF TypeOK
        <3>2. \E why \in {"kick", "halfKick"} :
                job' = Call(why, Desired(role, members \ {m}, game))
            BY <1>8 DEF KickMember
        <3> QED BY <3>1, <3>2, AskIs, CallIs
    <2> QED BY <2>1 DEF KickedOut, KickPending, InJob
<1>13. ASSUME NEW m \in Member, VetoEnds(m) PROVE KickedOut'
    BY <1>13, <1>b, <1>c DEF VetoEnds, wire, history, Free
<1>9. ASSUME NEW why \in {"leave", "exit", "giveup", "shutdown"}, Leave(why) PROVE KickedOut'
    BY <1>9, <1>b, <1>c DEF Leave, wire, session, history, Free
<1>10. ASSUME NEW reboot \in BOOLEAN, Die(reboot) PROVE KickedOut'
    BY <1>10, <1>a DEF Die
<1>11. CASE EngineRestart \/ UNCHANGED vars
    BY <1>11, <1>b DEF EngineRestart, vars, wire, session, history, KickPending, InJob
<1>12. CASE Touch
    BY <1>12 DEF Touch, KickedOut
<1> QED BY <1>1, <1>2, <1>3, <1>4, <1>5, <1>6, <1>7, <1>8, <1>9, <1>10, <1>11, <1>12,
    <1>13 DEF Next

(***************************************************************************)
(* Whoever was kicked reaches nothing while the list keeps them out, nor   *)
(* ever when the engine revoked them, or an alert says that the kick was   *)
(* left halfway: with every fault, the engine's refusal among them, and on *)
(* both systems.                                                           *)
(***************************************************************************)
THEOREM KickedReachNothing == Spec => []KickedShut
<1> DEFINE IInv == TypeOK /\ Course /\ Gated /\ BookClean /\ WantClean /\ KickedOut
<1>1. Init => IInv
    <2>1. Init => Gated /\ BookClean /\ WantClean /\ KickedOut
        BY DEF Init, Gated, BookClean, WantClean, KickedOut, Barred
    <2> QED BY <2>1, TypeInit, CourseInit
<1>2. IInv /\ [Next]_vars => IInv'
    BY TypeStep, CourseStep, GatedStep, BookCleanStep, WantCleanStep, KickedOutStep
<1>3. IInv => KickedShut
    BY DEF KickedShut, KickedOut, KickPending, InJob, Reaches, Free, Barred
<1> QED BY <1>1, <1>2, <1>3, PTL DEF Spec

(***************************************************************************)
(* The rules already applied.                                              *)
(***************************************************************************)

\* Writing the permits to the end leaves exactly those asked for, but where a
\* name is shared with a rule of somebody else.
LEMMA PermitsExact ==
    ASSUME TypeOK, Shape, job # None, PermitsStep, job'.ok, Windows
    PROVE  ~halfway' /\ \A n \in Name \ Shared :
               permit'[n] = IF job.want[n] = {} THEN Absent ELSE [to |-> job.want[n], on |-> TRUE]
<1>1. PICK R \in SUBSET ToRetire, A \in SUBSET ToAdd, ok \in BOOLEAN :
        /\ ok => R = ToRetire /\ A = ToAdd
        /\ permit' = [n \in Name |-> IF n \in A THEN Wanted(n)
                                     ELSE IF n \in R THEN Retired(n) ELSE permit[n]]
        /\ halfway' = ~ok
        /\ Becomes("done", ok)
    BY DEF PermitsStep
<1>2. ok
    BY <1>1, BecomesFacts
<1>3. \A n \in Name : permit'[n] = IF n \in ToAdd THEN Wanted(n)
                                   ELSE IF n \in ToRetire THEN Retired(n) ELSE permit[n]
    BY <1>1, <1>2
<1>4. ASSUME NEW n \in Name \ Shared
      PROVE permit'[n] = IF job.want[n] = {} THEN Absent ELSE Wanted(n)
    <2>1. Retired(n) = Absent
        BY DEF Retired
    <2>2. Wanted(n).on /\ Wanted(n).to = job.want[n]
        BY DEF Wanted
    <2>3. CASE job.want[n] = {}
        <3>1. n \notin ToAdd
            BY <2>3 DEF ToAdd, Names
        <3>2. n \notin ToRetire => permit[n] = Absent
            BY <2>2, <2>3 DEF ToRetire, Standing, Shape
        <3> QED BY <1>3, <2>1, <2>3, <3>1, <3>2
    <2>4. CASE job.want[n] # {}
        <3>1. n \in ToAdd \/ permit[n] = Wanted(n)
            BY <2>4 DEF ToAdd, Names, ToRetire, Standing
        <3>2. permit[n] = Wanted(n) => n \notin ToRetire
            BY DEF ToRetire
        <3> QED BY <1>3, <2>4, <3>1, <3>2
    <2> QED BY <2>3, <2>4
<1> QED BY <1>1, <1>2, <1>4 DEF Wanted

LEMMA SyncedStep ==
    ASSUME TypeOK, Course, Shape, Gated, Synced, [Next]_vars PROVE Synced'
<1> DEFINE Settled(j) == j = None \/ j.at = "gate" \/ (j.at = "done" /\ ~j.ok)
           Judged == InRoom /\ applied # None /\ ~touched /\ ~halfway /\ Settled(job)
           Put == gate = [iface |-> scope, allow |-> applied] /\ Says(applied)
           Written == job # None /\ job.at = "done" /\ job.ok
           Fresh == InRoom /\ Written /\ ~touched /\ scope # NoAdapter
<1>0. Synced <=> (Judged => Put) /\ (Fresh => ~halfway /\ Says(job.want))
    BY DEF Synced
<1>a. ASSUME ~InRoom' PROVE Synced'
    BY <1>a DEF Synced
<1>b. ASSUME touched' PROVE Synced'
    BY <1>b DEF Synced
<1>c. ASSUME Judged' => Judged, UNCHANGED <<wire, scope, applied, system>>, ~Written'
      PROVE Synced'
    BY <1>c, <1>0 DEF Synced, Says, wire, Windows
<1>d. ASSUME applied' = None, ~Written' PROVE Synced'
    BY <1>d DEF Synced
<1>1. CASE WriteLayers
    <2>1. /\ job # None /\ job' # None /\ job'.why = job.why /\ job'.want = job.want
          /\ UNCHANGED <<applied, role, system, scope>>
        BY <1>1, WriteJob DEF session
    <2> USE DEF WriteLayers
    <2>2. CASE Refused
        <3>1. job'.at = "done" /\ ~job'.ok /\ job.at = "gate" /\ UNCHANGED <<wire, history>>
            BY <2>1, <2>2, BecomesFacts DEF Refused
        <3> QED BY <2>1, <3>1, <1>c DEF InRoom, history
    <2>3. CASE Unscoped
        <3>1. applied = None \/ ~InRoom
            BY <2>1, <2>3 DEF Unscoped, Course, InJob
        <3>2. ~Written'
            BY <2>1, <2>3, BecomesFacts DEF Unscoped
        <3> QED BY <2>1, <3>1, <3>2, <1>a, <1>d DEF InRoom
    <2>4. CASE GateStep
        <3>1. CASE job'.at = "permits"
            BY <2>1, <3>1 DEF Synced
        <3>2. CASE UNCHANGED <<gate, permit, touched, halfway>> /\ job'.at = "done" /\ ~job'.ok
                   /\ job.at = "gate"
            BY <2>1, <3>2, <1>c DEF InRoom, wire
        <3> QED BY <2>1, <2>4, <3>1, <3>2, GateWritten
    <2>5. CASE PermitsStep
        <3>1. job'.at = "done"
            BY <1>1, <2>5, WriteJob DEF PermitsStep
        <3>2. CASE job'.ok
            <4>1. Windows => ~halfway' /\ Says(job.want)'
                BY <2>1, <2>5, <3>2, PermitsExact DEF Says, Windows
            <4>2. ~halfway'
                BY <2>1, <2>5, <3>2, BecomesFacts DEF PermitsStep
            <4>3. Says(job.want)'
                <5>1. Windows' = Windows
                    BY <2>1 DEF Windows
                <5>2. Windows' => Says(job.want)'
                    BY <4>1, <5>1
                <5> QED BY <5>2 DEF Says
            <4> QED BY <2>1, <3>1, <3>2, <4>2, <4>3 DEF Synced
        <3>3. CASE ~job'.ok
            <4>1. halfway'
                BY <2>1, <2>5, <3>3, BecomesFacts DEF PermitsStep
            <4> QED BY <3>3, <4>1 DEF Synced
        <3> QED BY <3>2, <3>3
    <2>6. CASE PurgePermits \/ PurgeGate
        <3>1. ~InRoom'
            BY <2>1, <2>6 DEF PurgePermits, PurgeGate, Course, InRoom
        <3> QED BY <3>1, <1>a
    <2> QED BY <1>1, <2>2, <2>3, <2>4, <2>5, <2>6
<1>2. CASE Finish
    <2>1. UNCHANGED <<system, wire, history>> /\ job # None
        BY <1>2 DEF Finish
    <2>2. CASE Answered \/ (Entered /\ job.ok)
        <3>1. UNCHANGED <<role, scope>> /\ job' = None /\ job.at = "done" /\ job.why # "undo"
            BY <2>2 DEF Answered, Entered
        <3>2. CASE job.ok
            <4>1. applied' = job.want
                BY <2>2, <3>2 DEF Answered, Entered
            <4>2. InRoom /\ ~touched => Fresh /\ gate = [iface |-> scope, allow |-> job.want]
                BY <2>1, <3>1, <3>2 DEF Course, Gated, InJob
            <4>3. InRoom /\ ~touched => Put'
                BY <1>0, <2>1, <3>1, <4>1, <4>2 DEF Says, wire, Windows
            <4> QED BY <2>1, <3>1, <4>3 DEF Synced, InRoom, history
        <3>3. CASE ~job.ok
            <4>1. UNCHANGED applied
                BY <2>2, <3>3 DEF Answered
            <4> QED BY <2>1, <3>1, <3>3, <4>1, <1>c DEF InRoom, history
        <3> QED BY <3>2, <3>3
    <2>3. CASE Entered /\ ~job.ok
        <3>1. applied' = None
            BY <2>1, <2>3 DEF Entered, Course, InJob
        <3>2. ~Written'
            BY <2>3, CallIs DEF Entered
        <3> QED BY <3>1, <3>2, <1>d
    <2>4. CASE Closed \/ Purged
        <3>1. ~InRoom'
            BY <2>1, <2>4 DEF Closed, Purged, Course, InRoom
        <3> QED BY <3>1, <1>a
    <2> QED BY <1>2, <2>2, <2>3, <2>4 DEF Finish
<1>3. CASE Sweep
    <2>1. ~Written'
        BY <1>3, CallIs DEF Sweep
    <2> QED BY <1>3, <2>1, <1>c DEF Sweep, hybrid, history, Free, InRoom
<1>4. CASE Start
    <2>1. ~InRoom'
        BY <1>4 DEF Start, session, Course, InRoom
    <2> QED BY <2>1, <1>a
<1>5. ASSUME NEW r \in {"host", "guest"}, NEW ms \in SUBSET Member, Enter(r, ms) PROVE Synced'
    <2>1. applied' = None
        BY <1>5 DEF Enter, Course
    <2>2. \E why, want : job' = Call(why, want)
        BY <1>5 DEF Enter
    <2>3. ~Written'
        BY <2>2, CallIs
    <2> QED BY <2>1, <2>3, <1>d
<1>6. ASSUME NEW ms \in SUBSET Member, PeersChanged(ms) PROVE Synced'
    <2>1. ~Written'
        BY <1>6, CallIs DEF PeersChanged
    <2> QED BY <1>6, <2>1, <1>c DEF PeersChanged, hybrid, history, Free, InRoom
<1>7. ASSUME NEW m \in Member, Issue(m) \/ KickMember(m) PROVE Synced'
    <2>1. ~Written'
        BY <1>7, CallIs DEF Issue, KickMember
    <2> QED BY <1>7, <2>1, <1>c DEF Issue, KickMember, hybrid, history, Free, InRoom
<1>8. CASE ActivateProfile
    <2>1. ~Written'
        BY <1>8, CallIs DEF ActivateProfile
    <2> QED BY <1>8, <2>1, <1>c DEF ActivateProfile, hybrid, history, Free, InRoom
<1>9. CASE TunnelUp
    <2>1. ~Written'
        BY <1>9, CallIs DEF TunnelUp
    <2> QED BY <1>9, <2>1, <1>c, <1>d DEF TunnelUp, history, Free, InRoom
<1>10. ASSUME NEW why \in {"leave", "exit", "giveup", "shutdown"}, Leave(why) PROVE Synced'
    <2>1. ~Written'
        BY <1>10, CallIs DEF Leave
    <2> QED BY <1>10, <2>1, <1>c DEF Leave, hybrid, session, history, Free, InRoom
<1>11. ASSUME NEW reboot \in BOOLEAN, Die(reboot) PROVE Synced'
    BY <1>11, <1>a DEF Die, InRoom
<1>14. ASSUME NEW m \in Member, VetoEnds(m) PROVE Synced'
    BY <1>14, <1>c DEF VetoEnds, hybrid, history, Free, InRoom
<1>12. CASE EngineRestart \/ UNCHANGED vars
    BY <1>12 DEF EngineRestart, vars, wire, hybrid, session, history, Synced, Says, Windows, InRoom
<1>13. CASE Touch
    BY <1>13, <1>b DEF Touch
<1> QED BY <1>1, <1>2, <1>3, <1>4, <1>5, <1>6, <1>7, <1>8, <1>9, <1>10, <1>11, <1>12, <1>13,
    <1>14 DEF Next

(***************************************************************************)
(* When an event finds its rules already applied and does nothing, they    *)
(* are what both layers have: with every fault and on both systems.        *)
(***************************************************************************)
THEOREM SkippingIsSafe == Spec => []SkipIsSafe
<1> DEFINE IInv == TypeOK /\ Course /\ Shape /\ Gated /\ Synced
<1>1. Init => IInv
    <2>1. Init => Shape /\ Gated /\ Synced
        BY DEF Init, Shape, NoGate, Absent, Gated, Synced, InRoom
    <2> QED BY <2>1, TypeInit, CourseInit
<1>2. IInv /\ [Next]_vars => IInv'
    BY TypeStep, CourseStep, ShapeStep, GatedStep, SyncedStep
<1>3. IInv => SkipIsSafe
    BY DEF SkipIsSafe, Synced, Says, Free
<1> QED BY <1>1, <1>2, <1>3, PTL DEF Spec

(***************************************************************************)
(* What whoever leaves is told.                                            *)
(***************************************************************************)

LEMMA EmptiedStep ==
    ASSUME TypeOK, Course, Emptied, "gate" \notin Fault, [Next]_vars PROVE Emptied'
<1> USE DEF InJob
<1>1. CASE WriteLayers
    <2>1. /\ job # None /\ job' # None /\ job'.why = job.why /\ job'.want = job.want
          /\ job.at # "done"
        BY <1>1, WriteJob
    <2> USE DEF WriteLayers
    <2>2. CASE Refused \/ Unscoped
        <3>1. job.at = "gate" /\ scope = NoAdapter
            BY <2>2 DEF Refused, Unscoped
        <3>2. job.why \notin {"giveup", "gaveUp"}
            BY <2>1, <3>1 DEF Course
        <3> QED BY <2>1, <3>2 DEF Emptied
    <2>3. CASE GateStep
        <3>1. gate' = [iface |-> scope, allow |-> job.want]
            BY <2>3 DEF GateStep
        <3>2. job.why \in {"giveup", "gaveUp"} => job.want = NoRules
            BY <2>1 DEF Course
        <3> QED BY <2>1, <3>1, <3>2 DEF Emptied
    <2>4. CASE PermitsStep \/ PurgePermits
        <3>1. gate' = gate /\ job.at \in {"permits", "own"}
            BY <2>4 DEF PermitsStep, PurgePermits
        <3>2. job.at = "own" => job.why # "giveup"
            BY <2>1 DEF Course
        <3> QED BY <2>1, <3>1, <3>2 DEF Emptied
    <2>5. CASE PurgeGate
        <3>1. gate' \in {gate, NoGate} /\ job.at = "ownGate"
            BY <2>5 DEF PurgeGate
        <3>2. job.why # "giveup"
            BY <2>1, <3>1 DEF Course
        <3> QED BY <2>1, <3>1, <3>2 DEF Emptied, NoGate
    <2> QED BY <1>1, <2>2, <2>3, <2>4, <2>5
<1>2. CASE ~WriteLayers
    <2>1. gate' \in {gate, NoGate}
        BY <1>2 DEF Next, Finish, Sweep, Start, Enter, PeersChanged, Issue, KickMember, VetoEnds,
            ActivateProfile, TunnelUp, Leave, Die, EngineRestart, Touch, vars, wire
    <2>2. job' # None /\ job'.why = "giveup" /\ job'.at \in {"permits", "done"} => job' = job
        BY <1>2, Aside
    <2>3. job' # None /\ job'.why = "gaveUp"
            => job' = job \/ (job # None /\ job.why = "giveup" /\ job.at = "done")
        <3>1. CASE Finish
            BY <3>1, CallIs DEF Finish, Answered, Entered, Closed, Purged
        <3>2. CASE Sweep \/ Start \/ ActivateProfile \/ TunnelUp \/ EngineRestart \/ Touch
            BY <3>2, CallIs DEF Sweep, Start, ActivateProfile, TunnelUp, EngineRestart, Touch
        <3>3. ASSUME NEW r, NEW ms, Enter(r, ms) \/ PeersChanged(ms)
              PROVE  job' = None \/ job'.why \in {"enter", "undo", "peers"}
            <4>1. \E why \in {"enter", "undo", "peers"} : \E want :
                     job' = None \/ job' = Call(why, want)
                BY <3>3 DEF Enter, PeersChanged
            <4> QED BY <4>1, CallIs
        <3>4. ASSUME NEW m, Issue(m) \/ KickMember(m) \/ VetoEnds(m) 
              PROVE  job' = job \/ job'.why \in {"issue", "kick", "halfKick"}
            BY <3>4, CallIs DEF Issue, KickMember, VetoEnds
        <3>5. ASSUME NEW why \in {"leave", "exit", "giveup", "shutdown"}, Leave(why)
              PROVE  job'.why = why
            BY <3>5, CallIs DEF Leave
        <3>6. ASSUME NEW reboot, Die(reboot) PROVE job' = None
            BY <3>6 DEF Die
        <3> QED BY <1>2, <3>1, <3>2, <3>3, <3>4, <3>5, <3>6 DEF Next, vars
    <2> QED BY <2>1, <2>2, <2>3 DEF Emptied, NoGate
<1> QED BY <1>1, <1>2

\* With the sweeps of the gate going well, or with it empty when it is swept,
\* what the adapter remembers is what the gate has, and nothing is left of it
\* when the daemon comes up.
LEMMA RememberedStep ==
    ASSUME TypeOK, Course, Remembered, "sweep" \notin Fault \/ Emptied, [Next]_vars
    PROVE  Remembered'
<1> DEFINE Kept(a, g, l) == a => (g.allow # NoRules => l = g.allow)
           Swept(j) == j # None /\ j.why = "start" /\ j.at = "done" /\ j.ok
<1>0. /\ Remembered <=> Kept(alive, gate, last) /\ (Swept(job) => gate = NoGate)
      /\ Remembered' <=> Kept(alive', gate', last') /\ (Swept(job') => gate' = NoGate)
    BY DEF Remembered, InJob
<1>a. ASSUME NEW a, NEW l PROVE Kept(a, NoGate, l)
    BY DEF NoGate
<1>1. CASE WriteLayers
    <2>1. /\ job # None /\ job' # None /\ job'.why = job.why /\ UNCHANGED <<alive, role>>
        BY <1>1, WriteJob DEF session
    <2> USE DEF WriteLayers
    <2>2. CASE Refused
        <3>1. UNCHANGED <<gate, last>> /\ ~job'.ok
            BY <2>1, <2>2, BecomesFacts DEF Refused, wire, hybrid
        <3> QED BY <1>0, <2>1, <3>1
    <2>3. CASE Unscoped
        <3>1. gate' = NoGate \/ UNCHANGED <<gate, last>>
            BY <2>3 DEF Unscoped
        <3>2. ~Swept(job')
            BY <2>1, <2>3, BecomesFacts DEF Unscoped
        <3> QED BY <1>0, <1>a, <2>1, <3>1, <3>2
    <2>4. CASE GateStep
        <3>1. gate'.allow = last' \/ UNCHANGED <<gate, last>>
            BY <2>1, <2>4, GateWritten
        <3>2. ~Swept(job')
            BY <2>1, <2>4, GateWritten
        <3> QED BY <1>0, <2>1, <3>1, <3>2
    <2>5. CASE PermitsStep
        <3>1. UNCHANGED <<gate, last>> /\ job.at = "permits"
            BY <2>5 DEF PermitsStep, hybrid
        <3>2. job.why # "start"
            BY <2>1, <3>1 DEF Course
        <3> QED BY <1>0, <2>1, <3>1, <3>2
    <2>6. CASE PurgePermits
        <3>1. UNCHANGED <<gate, last>>
            BY <2>6 DEF PurgePermits, hybrid
        <3>2. ~Swept(job')
            BY <2>1, <2>6, BecomesFacts DEF PurgePermits
        <3> QED BY <1>0, <2>1, <3>1, <3>2
    <2>7. CASE PurgeGate
        <3>1. CASE gate' = NoGate
            BY <1>0, <1>a, <3>1
        <3>2. CASE gate' = gate /\ ~job'.ok /\ Emptied
            <4>1. job.why \in {"start", "gaveUp"}
                BY <2>1, <2>7 DEF PurgeGate, Course
            <4>2. alive => gate.allow = NoRules
                BY <2>1, <3>2, <4>1 DEF Course, Emptied, InJob
            <4> QED BY <1>0, <2>1, <3>2, <4>2
        <3> QED BY <2>1, <2>7, <3>1, <3>2, BecomesFacts DEF PurgeGate
    <2> QED BY <1>1, <2>2, <2>3, <2>4, <2>5, <2>6, <2>7
<1>2. CASE ~WriteLayers
    <2>1. gate' \in {gate, NoGate}
        BY <1>2 DEF Next, Finish, Sweep, Start, Enter, PeersChanged, Issue, KickMember, VetoEnds,
            ActivateProfile, TunnelUp, Leave, Die, EngineRestart, Touch, vars, wire
    <2>2. alive' /\ ~alive => Swept(job)
        <3> SUFFICES ASSUME alive', ~alive PROVE Swept(job)
            OBVIOUS
        <3>1. job # None /\ job.at = "done" /\ job.ok
            BY <1>2, ComesUp
        <3> QED BY <3>1 DEF Course, InJob
    <2>3. alive' => last' = last
        BY <1>2 DEF Next, Finish, Sweep, Start, Enter, PeersChanged, Issue, KickMember, VetoEnds,
            ActivateProfile, TunnelUp, Leave, Die, EngineRestart, Touch, vars, hybrid
    <2>4. Swept(job') => job' = job
        <3>1. job' \in {job, None} \/ job'.at \in {"gate", "own"}
            BY <1>2, Aside
        <3> QED BY <3>1
    <2> QED BY <1>0, <1>a, <2>1, <2>2, <2>3, <2>4
<1> QED BY <1>1, <1>2

\* What is open after a close is what the adapter says is put.
LEMMA OpenIsExtra ==
    ASSUME TypeOK, Shape, Remembered, alive, Open PROVE Extra(NoRules) # {}
<1>1. Names(NoRules) = {}
    BY DEF Names, NoRules
<1>2. Listed # {}
    <2>1. CASE Windows
        <3>1. PICK n \in Name : permit[n].on
            BY <2>1 DEF Open
        <3>2. permit[n] # Absent
            BY <3>1 DEF Absent
        <3> QED BY <2>1, <3>2 DEF Listed, Standing
    <2>2. CASE ~Windows
        <3>1. gate.allow # NoRules /\ gate.allow \in RuleSets
            BY <2>2 DEF Open, TypeOK
        <3>2. last = gate.allow /\ last # None
            BY <3>1, ContainmentAssumption DEF Remembered
        <3>3. gate.iface # NoAdapter
            BY <3>1 DEF Shape, NoGate
        <3>4. PICK n \in Name : gate.allow[n] # {}
            BY <3>1 DEF RuleSets, NoRules
        <3> QED BY <2>2, <3>2, <3>3, <3>4 DEF Listed, Names
    <2> QED BY <2>1, <2>2
<1> QED BY <1>1, <1>2 DEF Extra

LEMMA ToldStep ==
    ASSUME TypeOK, Course, Shape, Remembered, [Next]_vars,
           Free', job # None, job.why \in {"leave", "gaveUp"}, Open'
    PROVE  alerts' # {}
<1>1. Finish
    <2>1. job' = None /\ alive'
        BY DEF Free
    <2>2. ~WriteLayers
        BY <2>1, WriteJob
    <2> QED BY <2>1, <2>2 DEF Next, Sweep, Start, Enter, PeersChanged, Issue, KickMember, VetoEnds,
            ActivateProfile, TunnelUp, Leave, Die, EngineRestart, Touch, vars, Free
<1>2. Open /\ alive
    BY <1>1 DEF Finish, wire, Open, Windows, Course, InJob
<1>3. Verified({}) \/ Verified(alerts)
    BY <1>1 DEF Finish, Answered, Entered, Closed, Purged
<1> QED BY <1>2, <1>3, OpenIsExtra DEF Verified

(***************************************************************************)
(* Whoever asked to leave, and whoever is told that the watchdog gave up,  *)
(* learns with the same answer that something stayed open, unless both the *)
(* writing of the gate and its sweep may fail.                             *)
(***************************************************************************)
THEOREM WhoLeavesIsTold ==
    ASSUME "sweep" \notin Fault \/ "gate" \notin Fault PROVE Spec => LeaveTold
<1> DEFINE IInv == /\ TypeOK /\ Course /\ Shape /\ Remembered
                   /\ "gate" \notin Fault => Emptied
           Told == (Free' /\ job # None /\ job.why \in {"leave", "gaveUp"} /\ Open')
                     => alerts' # {}
<1>1. Init => IInv
    <2>1. Init => Shape /\ Remembered /\ Emptied
        BY DEF Init, Shape, NoGate, Absent, Remembered, Emptied, InJob
    <2> QED BY <2>1, TypeInit, CourseInit
<1>2. IInv /\ [Next]_vars => IInv'
    BY TypeStep, CourseStep, ShapeStep, RememberedStep, EmptiedStep
<1>3. IInv /\ [Next]_vars => [Told]_vars
    BY ToldStep
<1> QED BY <1>1, <1>2, <1>3, PTL DEF Spec, LeaveTold
=============================================================================
