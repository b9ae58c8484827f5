------------------------------- MODULE Canary -------------------------------
(***************************************************************************)
(* Whether what contains the room really does: the canary rounds of a host *)
(* (core/usecase/canary.go, core/domain/canary.go, daemon/adapter/canary), *)
(* the exposure sweep (core/usecase/diagnose.go), and the part of the      *)
(* supervisor that starts both.                                            *)
(*                                                                         *)
(* A round listens on a port that the gate has to block, asks the members  *)
(* that are present to dial it, and concludes from what its own socket saw *)
(* first and from what they say only then.  It plans and folds under the   *)
(* session's lock and does everything else without it, in a goroutine of   *)
(* its own; the sweep measures without the lock, in the dispatcher's.      *)
(* Meanwhile the room is left, another is opened, members come and go, and *)
(* whoever applies the rules leaves word that a round is due.              *)
(*                                                                         *)
(* The gate is what the filters do: they are there and hold, they are      *)
(* there and do not (hollow: the audit, which goes by names, sees nothing),*)
(* or some are missing.  Something else may undo it at any time, and a new *)
(* application may or may not hold.  Alerts of other kinds (a measure that *)
(* failed among them), the quarantine and the guest's own protection are   *)
(* left out.                                                               *)
(***************************************************************************)
EXTENDS Naturals, FiniteSets

CONSTANTS
    Member,              \* virtual addresses of guests
    CanaryRepairLimit,   \* repairs without a word after a touch
    TamperRepairLimit,   \* repairs without a word after an audit
    None,
    MaxGen,              \* bound of the model: rooms that are closed
    MaxUpset             \* bound of the model: calls and probes that fail

ASSUME LimitAssumption == CanaryRepairLimit \in Nat /\ TamperRepairLimit \in Nat
ASSUME BoundAssumption == MaxGen \in Nat /\ MaxUpset \in Nat
ASSUME NoneAssumption == None \notin [gen : Nat, verdict : STRING]

VARIABLES
    inRoom, gen,         \* a room of its own is open; RoomState.Gen
    present,             \* members its table shows as not away
    gate,                \* what the filters do
    alerts, shown,       \* RoomState.Alerts and Canary, None if it is blind
    canaryRepairs, tamperRepairs,
    due,                 \* canaryDue, a channel of one
    measured,            \* what the sweep the dispatcher is in has measured
    canarioVivo,         \* one round at a time
    round,               \* the goroutine of the round: see Round
    probing,             \* what each member is at: see Probe
    reports,             \* Channel.canaryReports and what is on its way there
    upsets

ours    == <<inRoom, gen, present>>
state   == <<alerts, shown, canaryRepairs, tamperRepairs>>
rules   == <<gate, due>>
loop    == <<measured, canarioVivo>>
network == <<probing, reports>>
vars    == <<ours, state, rules, loop, round, network, upsets>>
-----------------------------------------------------------------------------
Gate    == {"holds", "hollow", "missing"}
Outcome == {"reached", "silent", "failed"}
Port    == {"this", "other"}   \* of the last round that listened, or of one before

Verdicts == {"leaking", "clean", "unconfirmed", "mismatch"}

Report == [from : Member, port : Port, says : Outcome]
Answer == [from : Member, says : Outcome]

Round == [ph : {"none", "launched", "planned", "open", "leaving", "over"},
          after : BOOLEAN, gen : 0 .. MaxGen, asked : SUBSET Member,
          crossed : BOOLEAN, touched : BOOLEAN, answers : SUBSET Answer]

NoRound == [ph |-> "none", after |-> FALSE, gen |-> 0, asked |-> {},
            crossed |-> FALSE, touched |-> FALSE, answers |-> {}]

\* A member dials for one round at a time.
Resting == [port |-> "none", saw |-> "nothing"]
Probe == [port : Port, saw : Outcome \cup {"nothing"}] \cup {Resting}

Alarmed == "leaking" \in alerts

Init ==
    /\ inRoom = FALSE /\ gen = 0 /\ present = {} /\ gate = "holds"
    /\ alerts = {} /\ shown = None /\ canaryRepairs = 0 /\ tamperRepairs = 0
    /\ due = FALSE /\ measured = "none" /\ canarioVivo = FALSE
    /\ round = NoRound /\ probing = [m \in Member |-> Resting] /\ reports = {}
    /\ upsets = 0

Upset == upsets < MaxUpset /\ upsets' = upsets + 1
-----------------------------------------------------------------------------
(* Rules and room.                                                         *)

\* applyPolicy that works: a round is due, and the gate holds, or does not.
Applied == due' = TRUE /\ gate' \in {"holds", gate} /\ UNCHANGED upsets

ApplyFails == Upset /\ UNCHANGED rules

ApplyPolicy == Applied \/ ApplyFails

\* Whoever undoes the filters does not say so.
Undone == inRoom /\ gate' \in Gate \ {"holds", gate}
          /\ UNCHANGED <<ours, state, due, loop, round, network, upsets>>

\* A measure that was right is not, of a set of rules that is not the same.
Outdated == measured' = IF measured = "intact" THEN "altered" ELSE measured

\* A room is opened, and the rules applied for the first time.
OpenRoom ==
    /\ ~inRoom
    /\ inRoom' = TRUE /\ due' = TRUE /\ gate' \in {"holds", "hollow"} /\ Outdated
    /\ UNCHANGED <<gen, present, state, canarioVivo, round, network, upsets>>

\* leaveLocked and clearRoom.  canaryRepairs stays as it is.
LeaveRoom ==
    /\ inRoom /\ gen < MaxGen
    /\ inRoom' = FALSE /\ gen' = gen + 1 /\ present' = {} /\ gate' = "holds"
    /\ alerts' = {} /\ shown' = None /\ tamperRepairs' = 0 /\ Outdated
    /\ UNCHANGED <<canaryRepairs, due, canarioVivo, round, network, upsets>>

\* OnPeersChanged: a member is heard of again, or for the first time, which may
\* change the rules.
MemberComes(m) ==
    /\ inRoom /\ m \notin present /\ present' = present \cup {m}
    /\ ApplyPolicy \/ UNCHANGED <<rules, upsets>>
    /\ UNCHANGED <<inRoom, gen, state, loop, round, network>>

MemberAway(m) ==
    /\ m \in present /\ present' = present \ {m}
    /\ UNCHANGED <<inRoom, gen, state, rules, loop, round, network, upsets>>

\* SetActiveGame: rules of other names.
OtherGame ==
    /\ inRoom /\ ApplyPolicy /\ Outdated
    /\ UNCHANGED <<ours, state, canarioVivo, round, network>>

ReapplyProtection ==
    /\ inRoom /\ ApplyPolicy
    /\ UNCHANGED <<ours, state, loop, round, network>>
-----------------------------------------------------------------------------
(* The supervisor.  Its queue is left to the module Supervisor: here what  *)
(* was sent to the dispatcher is handled at any time after it.             *)

\* rondaCanario: a round that is asked for while there is one is not run.
RondaCanario(trasAplicar) ==
    IF canarioVivo THEN UNCHANGED <<canarioVivo, round>>
    ELSE /\ canarioVivo' = TRUE
         /\ round' = [NoRound EXCEPT !.ph = "launched", !.after = trasAplicar]

\* The dispatcher's other items wait for the sweep it is in.
Free == measured = "none"

OnDue ==
    /\ Free /\ due /\ due' = FALSE /\ RondaCanario(TRUE)
    /\ UNCHANGED <<ours, state, gate, measured, network, upsets>>

\* terminóElCanario.
OnDone ==
    /\ Free /\ round.ph = "over" /\ canarioVivo' = FALSE
    /\ round' = NoRound
    /\ UNCHANGED <<ours, state, rules, measured, network, upsets>>

\* RefreshAlerts, without the lock: what is there, by name.
OnSweep ==
    /\ Free
    /\ \/ /\ measured' = (IF gate = "missing" THEN "altered" ELSE "intact")
          /\ UNCHANGED upsets
       \/ measured' = "unknown" /\ Upset
    /\ UNCHANGED <<ours, state, rules, canarioVivo, round, network>>

\* Mutant of Reapplied: what the audit saw counts as solved.
Bug_Reapplied == tamperRepairs' = 0

Reapplied == tamperRepairs' = tamperRepairs + 1

\* repairOwnRulesLocked: what there is to tell.
RepairOwnRules(found) ==
    \/ /\ inRoom /\ tamperRepairs < TamperRepairLimit /\ Reapplied
       /\ \/ Applied /\ found = {}
          \/ ApplyFails /\ found = {"tampered"}
    \/ /\ ~inRoom \/ tamperRepairs >= TamperRepairLimit
       /\ found = {"tampered"} /\ UNCHANGED <<tamperRepairs, rules, upsets>>

\* The rest of RefreshAlerts, with the lock, and the sweep's own round.
SweepEnds ==
    /\ ~Free /\ measured' = "none"
    /\ \E found \in SUBSET {"tampered"} :
        /\ \/ measured = "altered" /\ RepairOwnRules(found)
           \/ /\ measured # "altered" /\ found = {}
              /\ UNCHANGED <<tamperRepairs, rules, upsets>>
        /\ alerts' = found \cup (alerts \cap {"leaking"})
    /\ RondaCanario(FALSE)
    /\ UNCHANGED <<ours, shown, canaryRepairs, network>>
-----------------------------------------------------------------------------
(* A round.                                                                *)

Becomes(ph) == round' = [round EXCEPT !.ph = ph]
Over == [NoRound EXCEPT !.ph = "over"]

\* Mutant of MayOpen: the alarm does not stop the rounds of the sweep.
Bug_MayOpen == inRoom /\ present # {}

MayOpen == inRoom /\ present # {} /\ (Alarmed => round.after)

\* canaryPlanLocked.
Plan ==
    /\ round.ph = "launched"
    /\ round' = IF MayOpen THEN [round EXCEPT !.ph = "planned", !.gen = gen, !.asked = present]
                ELSE Over
    /\ UNCHANGED <<ours, state, rules, loop, network, upsets>>

\* Canary.Listen that fails: for one thing, when the address is gone.
ListenFails ==
    /\ round.ph = "planned" /\ round' = Over
    /\ Upset \/ (~inRoom /\ UNCHANGED upsets)
    /\ UNCHANGED <<ours, state, rules, loop, network>>

\* Listen, drainStaleCanaryReports and RequestCanary to each: it reaches who is
\* there, and whoever is dialling for another round lets it be.
Listen ==
    /\ round.ph = "planned" /\ inRoom
    /\ Becomes("open")
    /\ reports' = {}
    /\ \E told \in SUBSET (round.asked \cap present) :
        /\ (told = round.asked \cap present /\ UNCHANGED upsets) \/ Upset
        /\ probing' = [m \in Member |->
                        IF m \in told /\ probing[m] = Resting THEN [Resting EXCEPT !.port = "this"]
                        ELSE IF probing[m].port = "this" THEN [probing[m] EXCEPT !.port = "other"]
                        ELSE probing[m]]
    /\ UNCHANGED <<ours, state, rules, loop>>

\* What m dials is the socket of this round, and the gate lets it through.
Crosses(m) ==
    /\ round.ph \in {"open", "leaving"} /\ probing[m].port = "this"
    /\ inRoom /\ m \in present /\ gate # "holds"

\* ProbeCanary, at the member's.
Dial(m) ==
    /\ probing[m].port # "none" /\ probing[m].saw = "nothing"
    /\ \/ /\ probing' = [probing EXCEPT ![m].saw = IF Crosses(m) THEN "reached" ELSE "silent"]
          /\ round' = IF Crosses(m) THEN [round EXCEPT !.crossed = TRUE] ELSE round
          /\ UNCHANGED upsets
       \/ /\ probing' = [probing EXCEPT ![m].saw = "failed"]
          /\ Upset /\ UNCHANGED round
    /\ UNCHANGED <<ours, state, rules, loop, reports>>

\* SendCanaryReport: it arrives if the room is still there.
Report_(m) ==
    /\ probing[m].saw # "nothing"
    /\ probing' = [probing EXCEPT ![m] = Resting]
    /\ reports' = IF m \notin present THEN reports
                  ELSE reports \cup {[from |-> m, port |-> probing[m].port, says |-> probing[m].saw]}
    /\ UNCHANGED <<ours, state, rules, loop, round, upsets>>

\* mark, in the socket's own goroutine.
Mark ==
    /\ round.ph \in {"open", "leaving"} /\ round.crossed /\ ~round.touched
    /\ round' = [round EXCEPT !.touched = TRUE]
    /\ UNCHANGED <<ours, state, rules, loop, network, upsets>>

AllAnswered(r) == r.asked \subseteq {a.from : a \in r.answers}

\* collectCanary: a report, admitted or not by Record.
TakeReport(r) ==
    LET admitted == /\ r.port = "this" /\ r.from \in round.asked
                    /\ \A a \in round.answers : a.from # r.from
        next == [round EXCEPT !.answers = @ \cup {[from |-> r.from, says |-> r.says]}]
    IN
    /\ round.ph = "open" /\ r \in reports /\ reports' = reports \ {r}
    /\ round' = IF ~admitted THEN round
                ELSE IF AllAnswered(next) THEN [next EXCEPT !.ph = "leaving"] ELSE next
    /\ UNCHANGED <<ours, state, rules, loop, probing, upsets>>

\* It ends with a touch, or with its deadline, which is longer than two probes.
CollectEnds ==
    /\ round.ph = "open" /\ Becomes("leaving")
    /\ round.touched \/ \A m \in Member : probing[m].port # "this"
    /\ UNCHANGED <<ours, state, rules, loop, network, upsets>>

\* CanaryCheck.Verdict.
Verdict(r) ==
    IF r.touched THEN "leaking"
    ELSE IF \A a \in r.answers : a.says = "failed" THEN "unconfirmed"
    ELSE IF \E a \in r.answers : a.says = "reached" THEN "mismatch"
    ELSE "clean"

\* Mutant of ClearsAlarm: a round that saw no touch.
Bug_ClearsAlarm(r) == Verdict(r) # "leaking"

ClearsAlarm(r) == Verdict(r) = "clean"

\* Mutant of OfThisRoom: the generation is not looked at.
Bug_OfThisRoom(r) == TRUE

OfThisRoom(r) == r.gen = gen

Repairable == canaryRepairs < CanaryRepairLimit

\* The socket is closed, and only then WasTouched; and foldCanaryLocked: its
\* three branches, and none for anything else.
Fold ==
    /\ round.ph = "leaving" /\ round' = Over
    /\ IF ~OfThisRoom(round) THEN UNCHANGED <<state, rules, upsets>>
       ELSE
       /\ shown' = [gen |-> round.gen, verdict |-> Verdict(round)]
       /\ \/ /\ Verdict(round) = "leaking" /\ Repairable
             /\ canaryRepairs' = canaryRepairs + 1
             /\ alerts' = alerts \ {"leaking"}
             /\ ApplyPolicy
          \/ /\ Verdict(round) = "leaking" /\ ~Repairable
             /\ alerts' = alerts \cup {"leaking"}
             /\ UNCHANGED <<canaryRepairs, rules, upsets>>
          \/ /\ Verdict(round) # "leaking" /\ ClearsAlarm(round)
             /\ canaryRepairs' = 0
             /\ alerts' = alerts \ {"leaking"}
             /\ UNCHANGED <<rules, upsets>>
          \/ /\ Verdict(round) # "leaking" /\ ~ClearsAlarm(round)
             /\ UNCHANGED <<alerts, canaryRepairs, rules, upsets>>
       /\ UNCHANGED tamperRepairs
    /\ UNCHANGED <<ours, loop, network>>
-----------------------------------------------------------------------------
Session ==
    \/ OpenRoom \/ LeaveRoom \/ OtherGame \/ ReapplyProtection
    \/ \E m \in Member : MemberComes(m) \/ MemberAway(m)

RoundStep ==
    \/ Plan \/ ListenFails \/ Listen \/ CollectEnds \/ Fold
    \/ \E r \in reports : TakeReport(r)

Next ==
    \/ Session \/ Undone
    \/ OnDue \/ OnDone \/ OnSweep \/ SweepEnds \/ RoundStep \/ Mark
    \/ \E m \in Member : Dial(m) \/ Report_(m)

Spec == Init /\ [][Next]_vars

\* Goroutines run, the ticker ticks, members that were asked dial and answer.
\* A socket that has accepted a connection gets to mark it before the round is
\* over, if it happens again and again.
Fairness ==
    /\ SF_vars(OnDone) /\ WF_vars(OnSweep) /\ WF_vars(SweepEnds)
    /\ WF_vars(RoundStep)
    /\ SF_vars(Mark)
    /\ \A m \in Member : WF_vars(Dial(m)) /\ WF_vars(Report_(m))

FairSpec == Spec /\ Fairness
-----------------------------------------------------------------------------
(* Properties.                                                             *)

\* Types of every variable; a goroutine of a round has the flag up.
TypeOK ==
    /\ inRoom \in BOOLEAN /\ gen \in 0 .. MaxGen /\ present \subseteq Member
    /\ gate \in Gate /\ alerts \subseteq {"leaking", "tampered"}
    /\ shown = None \/ (shown.gen \in 0 .. MaxGen /\ shown.verdict \in Verdicts)
    /\ canaryRepairs \in 0 .. CanaryRepairLimit /\ tamperRepairs \in 0 .. TamperRepairLimit
    /\ due \in BOOLEAN
    /\ measured \in {"none", "intact", "altered", "unknown"} /\ canarioVivo \in BOOLEAN
    /\ round \in Round /\ reports \subseteq Report
    /\ probing \in [Member -> Probe]
    /\ upsets \in 0 .. MaxUpset

\* The verdict on the screen is of the room on the screen, however long the
\* round took and whatever was left and opened in between.
ShownOfThisRoom == shown # None => inRoom /\ shown.gen = gen

\* A leak that was proven stops being told, as long as the room is open, only by
\* a round that came out clean and was run because the rules had been applied
\* again: no silence, no sweep, no round of the sweep and no repair hides it.
ClearedByMeasure ==
    [][Alarmed /\ inRoom' /\ ~Alarmed' => Verdict(round) = "clean" /\ round.after]_vars

\* A gate that from some time on does not hold, in a room where somebody is
\* present, ends up with its alarm on for good.
LeakIsTold ==
    \A m \in Member :
        <>[](inRoom /\ gate # "holds" /\ m \in present) => <>[]Alarmed

\* Rules that go missing for good, however often they are put back, end up told.
TamperTold == <>[](inRoom /\ gate = "missing") => <>[]("tampered" \in alerts)

\* An application of the rules with the alarm on is followed by its round.
AlarmRechecked == [][Alarmed /\ canarioVivo => ~OnDue]_vars
=============================================================================
