------------------------ MODULE DaemonAndCanary_proofs ------------------------
(***************************************************************************)
(* Theorems about the canary rounds and the sweep, for any set of members, *)
(* limits of repairs, number of rooms and of calls that fail; and about    *)
(* how the process stops, for any number of conversations, windows and     *)
(* relaunches.  The two share nothing but this module.                     *)
(***************************************************************************)
EXTENDS Canary, Daemon, TLAPS

(***************************************************************************)
(* Types.                                                                  *)
(***************************************************************************)

RoomOK  == inRoom \in BOOLEAN /\ gen \in 0 .. MaxGen /\ present \subseteq Member
StateOK ==
    /\ alerts \subseteq {"leaking", "tampered"}
    /\ shown = None \/ (shown.gen \in 0 .. MaxGen /\ shown.verdict \in Verdicts)
    /\ canaryRepairs \in 0 .. CanaryRepairLimit /\ tamperRepairs \in 0 .. TamperRepairLimit
RulesOK == gate \in Gate /\ due \in BOOLEAN /\ upsets \in 0 .. MaxUpset
LoopOK  == measured \in {"none", "intact", "altered", "unknown"} /\ canarioVivo \in BOOLEAN
NetOK   == reports \subseteq Report /\ probing \in [Member -> Probe]
RoundOK == round \in Round

LEMMA TypeParts ==
    ASSUME RoomOK', StateOK', RulesOK', LoopOK', NetOK', RoundOK'
    PROVE  TypeOK'
BY DEF TypeOK, RoomOK, StateOK, RulesOK, LoopOK, NetOK, RoundOK

\* What a round goes through.
LEMMA RoundFacts ==
    /\ NoRound \in Round
    /\ Over \in Round
    /\ \A r \in Round, ph \in {"launched", "planned", "open", "leaving"} :
            [r EXCEPT !.ph = ph] \in Round
<1>1. 0 \in 0 .. MaxGen
    BY BoundAssumption
<1>2. NoRound \in Round
    BY <1>1 DEF NoRound, Round
<1>3. \A r \in Round, ph \in {"launched", "planned", "open", "leaving", "over"} :
            [r EXCEPT !.ph = ph] \in Round
    BY DEF Round
<1> QED BY <1>2, <1>3 DEF Over

LEMMA UpsetType == ASSUME TypeOK, Upset \/ UNCHANGED upsets PROVE upsets' \in 0 .. MaxUpset
BY BoundAssumption DEF Upset, TypeOK

LEMMA ApplyType == ASSUME TypeOK, ApplyPolicy \/ UNCHANGED <<rules, upsets>> PROVE RulesOK'
<1>1. CASE Applied
    BY <1>1, UpsetType DEF Applied, Gate, TypeOK, RulesOK
<1>2. CASE ApplyFails \/ UNCHANGED <<rules, upsets>>
    BY <1>2, UpsetType DEF ApplyFails, rules, TypeOK, RulesOK
<1> QED BY <1>1, <1>2 DEF ApplyPolicy

LEMMA SameRules == ASSUME TypeOK, UNCHANGED rules, Upset \/ UNCHANGED upsets PROVE RulesOK'
BY UpsetType DEF rules, TypeOK, RulesOK

LEMMA SameType ==
    ASSUME TypeOK
    PROVE  /\ UNCHANGED ours => RoomOK'
           /\ UNCHANGED state => StateOK'
           /\ UNCHANGED loop => LoopOK'
           /\ UNCHANGED network => NetOK'
           /\ UNCHANGED round => RoundOK'
           /\ round' = NoRound => RoundOK'
           /\ round' = Over => RoundOK'
<1> QED BY RoundFacts
    DEF ours, state, loop, network, TypeOK, RoomOK, StateOK, LoopOK, NetOK, RoundOK

LEMMA PhaseType ==
    ASSUME TypeOK, NEW ph \in {"launched", "planned", "open", "leaving"}, Becomes(ph)
    PROVE  RoundOK'
BY RoundFacts DEF Becomes, TypeOK, RoundOK

LEMMA LaunchType ==
    ASSUME TypeOK, NEW after \in BOOLEAN, RondaCanario(after)
    PROVE  RoundOK' /\ canarioVivo' \in BOOLEAN
<1>1. [NoRound EXCEPT !.ph = "launched", !.after = after] \in Round
    BY RoundFacts DEF Round
<1> QED BY <1>1 DEF RondaCanario, TypeOK, RoundOK

LEMMA VerdictType == ASSUME NEW r PROVE Verdict(r) \in Verdicts
BY DEF Verdict, Verdicts

LEMMA TypeInit == Init => TypeOK
<1> SUFFICES ASSUME Init PROVE TypeOK
    OBVIOUS
<1>1. NoRound \in Round /\ 0 \in 0 .. MaxGen /\ 0 \in 0 .. MaxUpset
    BY RoundFacts, BoundAssumption
<1>3. 0 \in 0 .. CanaryRepairLimit /\ 0 \in 0 .. TamperRepairLimit
    BY LimitAssumption
<1>2. probing \in [Member -> Probe]
    BY DEF Init, Probe, Resting
<1>4. reports \subseteq Report /\ alerts \subseteq {"leaking", "tampered"} /\ present \subseteq Member
    BY DEF Init
<1> QED BY <1>1, <1>2, <1>3, <1>4 DEF Init, TypeOK, Gate

LEMMA TypeStep == TypeOK /\ [Next]_vars => TypeOK'
<1> SUFFICES ASSUME TypeOK, [Next]_vars PROVE TypeOK'
    OBVIOUS
<1>1. CASE OpenRoom
    <2>1. RoomOK' /\ LoopOK' /\ RulesOK'
        BY <1>1, UpsetType DEF OpenRoom, Outdated, TypeOK, RoomOK, LoopOK, RulesOK, Gate
    <2> QED BY <1>1, <2>1, SameType, TypeParts DEF OpenRoom
<1>2. CASE LeaveRoom
    <2>3. gen' \in 0 .. MaxGen
        BY <1>2, BoundAssumption DEF LeaveRoom, TypeOK
    <2>1. RoomOK' /\ LoopOK' /\ RulesOK'
        BY <1>2, <2>3, UpsetType DEF LeaveRoom, Outdated, TypeOK, RoomOK, LoopOK, RulesOK, Gate
    <2>2. StateOK'
        BY <1>2, LimitAssumption DEF LeaveRoom, TypeOK, StateOK
    <2> QED BY <1>2, <2>1, <2>2, SameType, TypeParts DEF LeaveRoom
<1>3. CASE OtherGame \/ ReapplyProtection
    <2>1. RulesOK'
        BY <1>3, ApplyType DEF OtherGame, ReapplyProtection
    <2>2. LoopOK'
        BY <1>3, SameType DEF OtherGame, ReapplyProtection, Outdated, TypeOK, LoopOK
    <2> QED BY <1>3, <2>1, <2>2, SameType, TypeParts DEF OtherGame, ReapplyProtection
<1>4. ASSUME NEW m \in Member, MemberComes(m) \/ MemberAway(m) PROVE TypeOK'
    <2>1. RulesOK'
        BY <1>4, ApplyType DEF MemberComes, MemberAway
    <2>2. RoomOK'
        BY <1>4 DEF MemberComes, MemberAway, TypeOK, RoomOK
    <2> QED BY <1>4, <2>1, <2>2, SameType, TypeParts DEF MemberComes, MemberAway
<1>5. CASE Undone
    <2>1. RulesOK'
        BY <1>5, UpsetType DEF Undone, TypeOK, RulesOK, Gate
    <2> QED BY <1>5, <2>1, SameType, TypeParts DEF Undone
<1>6. CASE OnDue \/ OnDone
    <2>1. RulesOK'
        BY <1>6, UpsetType DEF OnDue, OnDone, rules, TypeOK, RulesOK
    <2>2. RoundOK' /\ LoopOK'
        BY <1>6, LaunchType, SameType DEF OnDue, OnDone, TypeOK, LoopOK
    <2> QED BY <1>6, <2>1, <2>2, SameType, TypeParts DEF OnDue, OnDone
<1>7. CASE OnSweep
    <2>1. RulesOK' /\ LoopOK'
        BY <1>7, SameRules DEF OnSweep, TypeOK, LoopOK
    <2> QED BY <1>7, <2>1, SameType, TypeParts DEF OnSweep
<1>8. CASE SweepEnds
    <2>1. PICK found \in SUBSET {"tampered"} :
            /\ \/ measured = "altered" /\ RepairOwnRules(found)
               \/ measured # "altered" /\ found = {} /\ UNCHANGED <<tamperRepairs, rules, upsets>>
            /\ alerts' = found \cup (alerts \cap {"leaking"})
        BY <1>8 DEF SweepEnds
    <2>2. RulesOK'
        BY <2>1, ApplyType DEF RepairOwnRules, ApplyPolicy
    <2>3. tamperRepairs' \in 0 .. TamperRepairLimit
        BY <2>1, LimitAssumption DEF RepairOwnRules, Reapplied, TypeOK
    <2>4. RoundOK' /\ LoopOK'
        BY <1>8, LaunchType DEF SweepEnds, LoopOK
    <2>5. StateOK'
        BY <1>8, <2>1, <2>3 DEF SweepEnds, TypeOK, StateOK
    <2> QED BY <1>8, <2>2, <2>4, <2>5, SameType, TypeParts DEF SweepEnds
<1>9. CASE Plan
    <2>1. RoundOK'
        BY <1>9, SameType DEF Plan, TypeOK, RoundOK, Round
    <2> QED BY <1>9, <2>1, SameType, SameRules, TypeParts DEF Plan
<1>10. CASE ListenFails
    BY <1>10, SameType, SameRules, TypeParts DEF ListenFails
<1>11. CASE Listen
    <2>1. PICK told \in SUBSET (round.asked \cap present) :
            /\ (told = round.asked \cap present /\ UNCHANGED upsets) \/ Upset
            /\ probing' = [m \in Member |->
                 IF m \in told /\ probing[m] = Resting THEN [Resting EXCEPT !.port = "this"]
                 ELSE IF probing[m].port = "this" THEN [probing[m] EXCEPT !.port = "other"]
                 ELSE probing[m]]
        BY <1>11 DEF Listen
    <2>2. \A m \in Member : probing[m] \in Probe
        BY DEF TypeOK
    <2>3. \A p \in Probe : p.port = "this" => [p EXCEPT !.port = "other"] \in Probe
        BY DEF Probe, Port, Resting
    <2>4. [Resting EXCEPT !.port = "this"] \in Probe
        BY DEF Resting, Probe, Port
    <2>5. NetOK'
        BY <1>11, <2>1, <2>2, <2>3, <2>4 DEF Listen, NetOK
    <2>6. RoundOK'
        BY <1>11, PhaseType DEF Listen
    <2> QED BY <1>11, <2>1, <2>5, <2>6, SameType, SameRules, TypeParts DEF Listen
<1>12. CASE CollectEnds
    BY <1>12, PhaseType, SameType, SameRules, TypeParts DEF CollectEnds
<1>13. CASE Fold
    <2>1. CASE ~OfThisRoom(round)
        BY <1>13, <2>1, SameType, SameRules, TypeParts DEF Fold
    <2>2. CASE OfThisRoom(round)
        <3>1. shown' = [gen |-> round.gen, verdict |-> Verdict(round)] /\ UNCHANGED tamperRepairs
            BY <1>13, <2>2 DEF Fold
        <3>2. shown'.gen \in 0 .. MaxGen /\ shown'.verdict \in Verdicts
            BY <3>1, VerdictType DEF TypeOK, Round
        <3>3. RulesOK'
            BY <1>13, <2>2, ApplyType DEF Fold
        <3>4. canaryRepairs' \in 0 .. CanaryRepairLimit
            BY <1>13, <2>2, LimitAssumption DEF Fold, Repairable, TypeOK
        <3>5. alerts' \subseteq {"leaking", "tampered"}
            BY <1>13, <2>2 DEF Fold, TypeOK
        <3>6. StateOK'
            BY <3>1, <3>2, <3>4, <3>5 DEF StateOK, TypeOK
        <3> QED BY <1>13, <3>3, <3>6, SameType, TypeParts DEF Fold
    <2> QED BY <2>1, <2>2
<1>14. ASSUME NEW r \in reports, TakeReport(r) PROVE TypeOK'
    <2> DEFINE next == [round EXCEPT !.answers = @ \cup {[from |-> r.from, says |-> r.says]}]
    <2>1. [from |-> r.from, says |-> r.says] \in Answer /\ round \in Round
        BY DEF TypeOK, Report, Answer
    <2>2. next \in Round
        <3>1. round.answers \cup {[from |-> r.from, says |-> r.says]} \in SUBSET Answer
            BY <2>1 DEF Round
        <3> QED BY <2>1, <3>1 DEF Round
    <2>6. [next EXCEPT !.ph = "leaving"] \in Round
        BY <2>2, RoundFacts
    <2>3. round' = round \/ round' = next \/ round' = [next EXCEPT !.ph = "leaving"]
        BY <1>14 DEF TakeReport
    <2>4. RoundOK'
        BY <2>1, <2>2, <2>3, <2>6 DEF RoundOK
    <2>5. NetOK'
        BY <1>14 DEF TakeReport, TypeOK, NetOK
    <2> QED BY <1>14, <2>4, <2>5, SameType, SameRules, TypeParts DEF TakeReport
<1>15. CASE Mark
    <2>1. RoundOK'
        BY <1>15 DEF Mark, TypeOK, RoundOK, Round
    <2> QED BY <1>15, <2>1, SameType, SameRules, TypeParts DEF Mark
<1>16. ASSUME NEW m \in Member, Dial(m) PROVE TypeOK'
    <2>1. probing[m] \in Probe
        BY DEF TypeOK
    <2>2. \A o \in Outcome : [probing[m] EXCEPT !.saw = o] \in Probe
        BY <1>16, <2>1 DEF Probe, Resting, Dial
    <2>3. \E o \in Outcome : probing' = [probing EXCEPT ![m] = [probing[m] EXCEPT !.saw = o]]
        BY <1>16 DEF Dial, Outcome, TypeOK
    <2>4. NetOK'
        BY <1>16, <2>2, <2>3 DEF Dial, NetOK, TypeOK
    <2>5. RoundOK'
        BY <1>16 DEF Dial, TypeOK, RoundOK, Round
    <2> QED BY <1>16, <2>4, <2>5, SameType, SameRules, TypeParts DEF Dial
<1>17. ASSUME NEW m \in Member, Report_(m) PROVE TypeOK'
    <2>1. CASE m \notin present
        <3>1. NetOK'
            BY <1>17, <2>1 DEF Report_, NetOK, TypeOK, Probe, Resting
        <3> QED BY <1>17, <3>1, SameType, SameRules, TypeParts DEF Report_
    <2>2. CASE m \in present
        <3>1. probing[m] \in Probe /\ probing[m] # Resting
            BY <1>17 DEF TypeOK, Report_, Resting
        <3>2. [from |-> m, port |-> probing[m].port, says |-> probing[m].saw] \in Report
            BY <1>17, <3>1 DEF Report_, Probe, Report
        <3>3. NetOK'
            BY <1>17, <2>2, <3>2 DEF Report_, NetOK, TypeOK, Probe
        <3> QED BY <1>17, <3>3, SameType, SameRules, TypeParts DEF Report_
    <2> QED BY <2>1, <2>2
<1>18. CASE UNCHANGED vars
    BY <1>18, SameType, SameRules, TypeParts DEF vars
<1> QED
    BY <1>1, <1>2, <1>3, <1>4, <1>5, <1>6, <1>7, <1>8, <1>9, <1>10, <1>11, <1>12, <1>13,
       <1>14, <1>15, <1>16, <1>17, <1>18
    DEF Next, Session, RoundStep

\* Every variable keeps its type, whatever fails and whatever is undone.
THEOREM TypeCorrect == Spec => []TypeOK
<1> QED BY TypeInit, TypeStep, PTL DEF Spec

(***************************************************************************)
(* Rounds and rooms.  A round is of the room it was planned in: as long as *)
(* its generation is the current one that room is open, and with the alarm *)
(* on it is one that follows an application of the rules.  The alarm is    *)
(* only on when there is nothing left to repair without a word.            *)
(***************************************************************************)

Running == round.ph \in {"planned", "open", "leaving"}

RoundOfRoom == Running => round.gen <= gen /\ (round.gen = gen => inRoom)

RoundOfAlarm == Running /\ round.gen = gen /\ Alarmed => round.after

AlarmSpent == Alarmed => ~Repairable

Inv == ShownOfThisRoom /\ RoundOfRoom /\ RoundOfAlarm /\ AlarmSpent

\* Steps that leave the room, the screen and the round's plan as they are.
LEMMA AsideKeeps ==
    ASSUME TypeOK, Inv, UNCHANGED <<inRoom, gen, shown, alerts, canaryRepairs>>,
           Running' => Running /\ round'.gen = round.gen /\ round'.after = round.after
    PROVE  Inv'
BY DEF Inv, ShownOfThisRoom, RoundOfRoom, RoundOfAlarm, AlarmSpent, Alarmed, Repairable

LEMMA InvInit == Init => Inv
BY DEF Init, Inv, ShownOfThisRoom, RoundOfRoom, RoundOfAlarm, AlarmSpent, Alarmed, Running, NoRound

\* A round that is launched has not planned anything yet.
LEMMA LaunchedIsNotRunning ==
    ASSUME NEW after, RondaCanario(after)
    PROVE  Running' => Running /\ round' = round
BY DEF RondaCanario, Running, NoRound

LEMMA InvStep == TypeOK /\ Inv /\ [Next]_vars => Inv'
<1> SUFFICES ASSUME TypeOK, Inv, [Next]_vars PROVE Inv'
    OBVIOUS
<1>1. CASE OpenRoom
    BY <1>1 DEF OpenRoom, state, Inv, ShownOfThisRoom, RoundOfRoom, RoundOfAlarm, AlarmSpent,
        Alarmed, Repairable, Running
<1>2. CASE LeaveRoom
    <2>1. /\ ~Alarmed' /\ shown' = None /\ round' = round /\ gen' = gen + 1
        BY <1>2 DEF LeaveRoom, Alarmed
    <2>2. gen \in Nat /\ round.gen \in Nat
        BY BoundAssumption DEF TypeOK, Round
    <2>3. Running => round.gen <= gen' /\ round.gen # gen'
        BY <2>1, <2>2 DEF Inv, RoundOfRoom
    <2> QED BY <2>1, <2>3
        DEF Inv, ShownOfThisRoom, RoundOfRoom, RoundOfAlarm, AlarmSpent, Running
<1>3. CASE OtherGame \/ ReapplyProtection \/ Undone \/ OnSweep
    BY <1>3, AsideKeeps
    DEF OtherGame, ReapplyProtection, Undone, OnSweep, ours, state, loop, Running
<1>4. ASSUME NEW m \in Member, MemberComes(m) \/ MemberAway(m) PROVE Inv'
    BY <1>4, AsideKeeps DEF MemberComes, MemberAway, state, Running
<1>5. CASE OnDue
    BY <1>5, AsideKeeps, LaunchedIsNotRunning DEF OnDue, ours, state
<1>6. CASE OnDone \/ ListenFails
    BY <1>6, AsideKeeps DEF OnDone, ListenFails, ours, state, Running, NoRound, Over
<1>7. CASE SweepEnds
    <2>1. UNCHANGED <<inRoom, gen, shown, canaryRepairs>> /\ (Alarmed' <=> Alarmed)
        BY <1>7 DEF SweepEnds, ours, Alarmed
    <2>2. Running' => Running /\ round' = round
        BY <1>7, LaunchedIsNotRunning DEF SweepEnds
    <2> QED BY <2>1, <2>2
        DEF Inv, ShownOfThisRoom, RoundOfRoom, RoundOfAlarm, AlarmSpent, Repairable
<1>8. CASE Plan
    <2>1. UNCHANGED <<inRoom, gen, shown, alerts, canaryRepairs>>
        BY <1>8 DEF Plan, ours, state
    <2>2. CASE MayOpen
        <3>1. /\ inRoom /\ (Alarmed => round.after)
              /\ round'.gen = gen /\ round'.after = round.after
            BY <1>8, <2>2 DEF Plan, MayOpen, TypeOK, Round
        <3>2. gen \in Nat
            BY BoundAssumption DEF TypeOK
        <3> QED BY <2>1, <3>1, <3>2
            DEF Inv, ShownOfThisRoom, RoundOfRoom, RoundOfAlarm, AlarmSpent, Alarmed, Repairable
    <2>3. CASE ~MayOpen
        BY <1>8, <2>1, <2>3, AsideKeeps DEF Plan, Running, Over, NoRound
    <2> QED BY <2>2, <2>3
<1>9. CASE Listen \/ CollectEnds \/ Mark
    <2>1. Running /\ round'.gen = round.gen /\ round'.after = round.after
        BY <1>9 DEF Listen, CollectEnds, Mark, Becomes, Running, TypeOK, Round
    <2> QED BY <1>9, <2>1, AsideKeeps DEF Listen, CollectEnds, Mark, ours, state
<1>10. CASE Fold
    <2>1. ~Running' /\ UNCHANGED <<inRoom, gen>>
        BY <1>10 DEF Fold, ours, Running, Over, NoRound
    <2>2. CASE ~OfThisRoom(round)
        BY <1>10, <2>1, <2>2, AsideKeeps DEF Fold, state
    <2>3. CASE OfThisRoom(round)
        <3>1. inRoom /\ shown' = [gen |-> round.gen, verdict |-> Verdict(round)]
            BY <1>10, <2>3 DEF Fold, OfThisRoom, Inv, RoundOfRoom, Running
        <3>2. ShownOfThisRoom'
            BY <2>1, <2>3, <3>1 DEF ShownOfThisRoom, OfThisRoom
        <3>3. AlarmSpent'
            BY <1>10, <2>3 DEF Fold, Inv, AlarmSpent, Alarmed, Repairable
        <3> QED BY <2>1, <3>2, <3>3 DEF Inv, RoundOfRoom, RoundOfAlarm
    <2> QED BY <2>2, <2>3
<1>11. ASSUME NEW r \in reports, TakeReport(r) PROVE Inv'
    <2>1. Running /\ round'.gen = round.gen /\ round'.after = round.after
        BY <1>11 DEF TakeReport, Running, TypeOK, Round
    <2> QED BY <1>11, <2>1, AsideKeeps DEF TakeReport, ours, state
<1>12. ASSUME NEW m \in Member, Dial(m) \/ Report_(m) PROVE Inv'
    <2>1. round'.ph = round.ph /\ round'.gen = round.gen /\ round'.after = round.after
        BY <1>12 DEF Dial, Report_, TypeOK, Round
    <2> QED BY <1>12, <2>1, AsideKeeps DEF Dial, Report_, ours, state, Running
<1>13. CASE UNCHANGED vars
    BY <1>13, AsideKeeps DEF vars, ours, state, Running
<1> QED
    BY <1>1, <1>2, <1>3, <1>4, <1>5, <1>6, <1>7, <1>8, <1>9, <1>10, <1>11, <1>12, <1>13
    DEF Next, Session, RoundStep

\* Whatever is left and opened while a round is on its way, what the screen
\* shows is of its room.
THEOREM ShownIsOfThisRoom == Spec => []ShownOfThisRoom
<1>1. Inv => ShownOfThisRoom
    BY DEF Inv
<1> QED BY <1>1, TypeInit, TypeStep, InvInit, InvStep, PTL DEF Spec

\* What a step does to an alarm.
LEMMA OnlyCleanClears ==
    ASSUME TypeOK, Inv, Next
    PROVE  Alarmed /\ inRoom' /\ ~Alarmed' => Verdict(round) = "clean" /\ round.after
<1> SUFFICES ASSUME Alarmed, inRoom', ~Alarmed'
             PROVE  Verdict(round) = "clean" /\ round.after
    OBVIOUS
<1>1. CASE Fold
    <2>1. OfThisRoom(round) /\ ~Repairable
        BY <1>1 DEF Fold, state, Alarmed, Inv, AlarmSpent
    <2>2. round.after
        BY <1>1, <2>1 DEF Fold, OfThisRoom, Inv, RoundOfAlarm, Running
    <2>3. Verdict(round) = "clean"
        BY <1>1, <2>1 DEF Fold, ClearsAlarm, Alarmed
    <2> QED BY <2>2, <2>3
<1>2. ASSUME ~Fold PROVE alerts' = alerts \/ ~inRoom' \/ (Alarmed => Alarmed')
    <2>1. CASE Session
        BY <2>1 DEF Session, OpenRoom, LeaveRoom, OtherGame, ReapplyProtection, MemberComes,
            MemberAway, state
    <2>2. CASE RoundStep
        BY <1>2, <2>2 DEF RoundStep, Plan, ListenFails, Listen, CollectEnds, TakeReport, state
    <2>3. CASE SweepEnds
        BY <2>3 DEF SweepEnds, Alarmed
    <2>4. CASE Undone \/ OnDue \/ OnDone \/ OnSweep \/ Mark
        BY <2>4 DEF Undone, OnDue, OnDone, OnSweep, Mark, state
    <2>5. CASE \E m \in Member : Dial(m) \/ Report_(m)
        BY <2>5 DEF Dial, Report_, state
    <2> QED BY <2>1, <2>2, <2>3, <2>4, <2>5 DEF Next
<1> QED BY <1>1, <1>2 DEF Alarmed

\* With any number of members, repairs, rooms and faults, an alarm that was
\* proven goes away in an open room only by a clean round run after applying.
THEOREM AlarmIsClearedByMeasure == Spec => ClearedByMeasure
<1>1. TypeOK /\ Inv /\ [Next]_vars
        => [Alarmed /\ inRoom' /\ ~Alarmed' => Verdict(round) = "clean" /\ round.after]_vars
    BY OnlyCleanClears
<1> QED BY <1>1, TypeInit, TypeStep, InvInit, InvStep, PTL DEF Spec, ClearedByMeasure
-----------------------------------------------------------------------------
(***************************************************************************)
(* The process.  Types, group by group.                                    *)
(***************************************************************************)

ProcessOK == /\ boot \in {"built", "loop", "served", "started", "wired", "up"}
             /\ ctxDone \in BOOLEAN /\ end \in {"no", "aborted", "crashed", "orderly"}
DoorOK    == /\ serve \in {"off", "accept", "over"} /\ got \in Conn \cup {Nobody}
             /\ cerrando \in BOOLEAN
TalkOK    == /\ conv \in [Conn -> {"free", "mute", "idle"} \cup Order]
             /\ link \in [Conn -> {"open", "lost", "cut"}]
             /\ guard \in [Conn -> {"hello", "on", "off"}]
SessionOK == reopen \in {"no", "running", "done"} /\ room \in {"none", "open", "back"}
ClosingOK == /\ apagar \in {"no", "door", "drain", "reopen", "leave", "close", "ui", "done"}
             /\ expired \in BOOLEAN /\ leaver \in {"no", "going", "left"}
WindowOK  == /\ st \in [UI -> {"none", "fresh", "main", "fallen", "exited"}]
             /\ held \in [UI -> BOOLEAN] /\ proc \in UI \cup {Nobody}
KeeperOK  == /\ watch \in {"off", "wait", "grace", "telling", "gone"}
             /\ seguidas \in Nat /\ stop \in BOOLEAN

LEMMA DaemonTypes ==
    /\ DaemonTypeOK => /\ ProcessOK /\ DoorOK /\ TalkOK /\ SessionOK /\ ClosingOK
                       /\ WindowOK /\ KeeperOK
    /\ ProcessOK' /\ DoorOK' /\ TalkOK' /\ SessionOK' /\ ClosingOK' /\ WindowOK' /\ KeeperOK'
         => DaemonTypeOK'
BY DEF DaemonTypeOK, ProcessOK, DoorOK, TalkOK, SessionOK, ClosingOK, WindowOK, KeeperOK

LEMMA DaemonUnchanged ==
    /\ ProcessOK /\ UNCHANGED process => ProcessOK'
    /\ DoorOK /\ UNCHANGED door => DoorOK'
    /\ TalkOK /\ UNCHANGED talk => TalkOK'
    /\ SessionOK /\ UNCHANGED session => SessionOK'
    /\ ClosingOK /\ UNCHANGED closing => ClosingOK'
    /\ WindowOK /\ UNCHANGED window => WindowOK'
    /\ KeeperOK /\ UNCHANGED keeper => KeeperOK'
BY DEF ProcessOK, DoorOK, TalkOK, SessionOK, ClosingOK, WindowOK, KeeperOK,
       process, door, talk, session, closing, window, keeper

\* What a launch does: one process that was not there is on its way up.
LEMMA LaunchFacts ==
    ASSUME WindowOK, NEW tracked \in BOOLEAN, Launch(tracked)
    PROVE  \E p \in UI :
              /\ st' = [st EXCEPT ![p] = "fresh"]
              /\ \E h \in BOOLEAN : /\ held' = [held EXCEPT ![p] = h]
                                    /\ apagar # "done" /\ "job" \notin Fault => h
              /\ proc' = IF tracked THEN p ELSE proc
<1> DEFINE p == CHOOSE p \in Place(tracked) : TRUE
<1>1. p \in Place(tracked)
    BY DEF Launch
<1>2. Place(tracked) \subseteq UI
    BY DEF Place, Spare
<1>3. p \in UI
    BY <1>1, <1>2
<1>4. st' = [st EXCEPT ![p] = "fresh"] /\ proc' = IF tracked THEN p ELSE proc
    BY DEF Launch
<1>5. \E h \in BOOLEAN : /\ held' = [held EXCEPT ![p] = h]
                         /\ apagar # "done" /\ "job" \notin Fault => h
    BY DEF Launch
<1> QED BY <1>3, <1>4, <1>5

LEMMA LaunchedIsTyped ==
    ASSUME WindowOK, NEW tracked \in BOOLEAN, Launch(tracked)
    PROVE  WindowOK'
BY LaunchFacts DEF WindowOK

LEMMA DaemonTypeInit == DaemonInit => DaemonTypeOK
<1> SUFFICES ASSUME DaemonInit PROVE DaemonTypeOK
    OBVIOUS
<1>1. /\ conv \in [Conn -> {"free", "mute", "idle"} \cup Order]
      /\ link \in [Conn -> {"open", "lost", "cut"}]
      /\ guard \in [Conn -> {"hello", "on", "off"}]
    BY DEF DaemonInit
<1>2. /\ st \in [UI -> {"none", "fresh", "main", "fallen", "exited"}]
      /\ held \in [UI -> BOOLEAN] /\ proc \in UI \cup {Nobody}
    BY DEF DaemonInit
<1> QED BY <1>1, <1>2 DEF DaemonInit, DaemonTypeOK

LEMMA DaemonTypeStep == DaemonTypeOK /\ [DaemonNext]_daemonVars => DaemonTypeOK'
<1> SUFFICES ASSUME DaemonTypeOK, [DaemonNext]_daemonVars
             PROVE  DaemonTypeOK'
    OBVIOUS
<1> USE DaemonTypes, DaemonUnchanged
<1>1. CASE Loop \/ Abort \/ Wire \/ Signal
    <2>1. ProcessOK'
        BY <1>1 DEF Loop, Abort, Wire, Signal, ProcessOK
    <2> QED BY <1>1, <2>1 DEF Loop, Abort, Wire, Signal
<1>2. CASE Serve \/ ReabrirLaSala
    <2>1. ProcessOK' /\ DoorOK' /\ SessionOK'
        BY <1>2 DEF Serve, ReabrirLaSala, door, ProcessOK, DoorOK, SessionOK
    <2> QED BY <1>2, <2>1 DEF Serve, ReabrirLaSala
<1>3. CASE StartUI
    <2>1. ProcessOK' /\ KeeperOK'
        BY <1>3 DEF StartUI, ProcessOK, KeeperOK
    <2>2. WindowOK'
        BY <1>3, LaunchedIsTyped DEF StartUI
    <2> QED BY <1>3, <2>1, <2>2 DEF StartUI
<1>4. CASE AcceptEnds
    <2>1. DoorOK'
        BY <1>4 DEF AcceptEnds, DoorOK
    <2> QED BY <1>4, <2>1 DEF AcceptEnds
<1>5. CASE Murio
    <2>1. KeeperOK'
        BY <1>5 DEF Murio, KeeperOK
    <2>2. WindowOK'
        BY <1>5 DEF Murio, WindowOK
    <2> QED BY <1>5, <2>1, <2>2 DEF Murio
<1>6. CASE Relaunch
    <2>1. KeeperOK'
        BY <1>6 DEF Relaunch, KeeperOK
    <2>2. WindowOK'
        BY <1>6, LaunchedIsTyped DEF Relaunch
    <2> QED BY <1>6, <2>1, <2>2 DEF Relaunch
<1>7. CASE WatchEnds \/ OnGiveUp \/ OnSignal
    <2>1. KeeperOK' /\ ClosingOK'
        BY <1>7 DEF WatchEnds, OnGiveUp, OnSignal, Begun, keeper, closing, KeeperOK, ClosingOK
    <2> QED BY <1>7, <2>1 DEF WatchEnds, OnGiveUp, OnSignal
<1>8. CASE CloseDoor \/ Drained \/ EsperarReapertura
    <2>1. DoorOK' /\ ClosingOK'
        BY <1>8 DEF CloseDoor, Drained, EsperarReapertura, door, DoorOK, ClosingOK
    <2> QED BY <1>8, <2>1 DEF CloseDoor, Drained, EsperarReapertura
<1>9. CASE LeaveRoomOnShutdown \/ Reabierta \/ Vuelta \/ Expire \/ Apagado
    <2>1. SessionOK' /\ ClosingOK'
        BY <1>9 DEF LeaveRoomOnShutdown, Reabierta, Vuelta, Expire, Apagado, session, closing,
                    SessionOK, ClosingOK
    <2> QED BY <1>9, <2>1 DEF LeaveRoomOnShutdown, Reabierta, Vuelta, Expire, Apagado
<1>10. CASE CerrarTodo
    <2>1. ClosingOK' /\ KeeperOK'
        BY <1>10 DEF CerrarTodo, ClosingOK, KeeperOK
    <2> QED BY <1>10, <2>1 DEF CerrarTodo
<1>11. CASE CloseHandles
    <2>1. ClosingOK' /\ WindowOK'
        BY <1>11 DEF CloseHandles, ClosingOK, WindowOK
    <2> QED BY <1>11, <2>1 DEF CloseHandles
<1>12. CASE Exit
    <2>1. ProcessOK' /\ WindowOK'
        BY <1>12 DEF Exit, JobCloses, ProcessOK, WindowOK
    <2> QED BY <1>12, <2>1 DEF Exit
<1>13. ASSUME NEW c \in Conn, Accept(c) PROVE DaemonTypeOK'
    <2>1. DoorOK' /\ TalkOK'
        BY <1>13 DEF Accept, Seat, talk, DoorOK, TalkOK
    <2> QED BY <1>13, <2>1 DEF Accept
<1>14. ASSUME NEW c \in Conn,
              \/ Hello(c) \/ Dispatch(c) \/ Panic(c) \/ ClientGoes(c) \/ HelloWait(c)
              \/ WatchCloses(c) \/ ReadEnds(c)
       PROVE  DaemonTypeOK'
    <2>1. TalkOK'
        BY <1>14 DEF Hello, Dispatch, Panic, ClientGoes, HelloWait, WatchCloses, ReadEnds, Ends,
                     Order, TalkOK
    <2> QED BY <1>14, <2>1 DEF Hello, Dispatch, Panic, ClientGoes, HelloWait,
                                            WatchCloses, ReadEnds
<1>15. ASSUME NEW c \in Conn, RoomOp(c) PROVE DaemonTypeOK'
    <2>1. TalkOK' /\ SessionOK'
        BY <1>15 DEF RoomOp, Answered, Ends, TalkOK, SessionOK
    <2> QED BY <1>15, <2>1 DEF RoomOp
<1>16. ASSUME NEW c \in Conn, Show(c) PROVE DaemonTypeOK'
    <2>1. TalkOK'
        BY <1>16 DEF Show, Answered, Ends, TalkOK
    <2>2. WindowOK'
        BY <1>16, LaunchedIsTyped DEF Show
    <2> QED BY <1>16, <2>1, <2>2 DEF Show
<1>17. ASSUME NEW c \in Conn, Shutdown(c) PROVE DaemonTypeOK'
    <2>1. ProcessOK' /\ ClosingOK' /\ WindowOK'
        BY <1>17 DEF Shutdown, Begun, JobCloses, ProcessOK, ClosingOK, WindowOK
    <2> QED BY <1>17, <2>1 DEF Shutdown
<1>18. ASSUME NEW p \in UI, Claim(p) \/ Falls(p) PROVE DaemonTypeOK'
    <2>1. WindowOK'
        BY <1>18 DEF Claim, Falls, WindowOK
    <2> QED BY <1>18, <2>1 DEF Claim, Falls
<1>19. CASE UNCHANGED daemonVars
    BY <1>19 DEF daemonVars
<1> QED
    BY <1>1, <1>2, <1>3, <1>4, <1>5, <1>6, <1>7, <1>8, <1>9, <1>10, <1>11, <1>12, <1>13, <1>14,
       <1>15, <1>16, <1>17, <1>18, <1>19
    DEF DaemonNext, Starting, Keeping, Stopping

(***************************************************************************)
(* Every variable of the process keeps its type: in particular a launched  *)
(* window has a place, and a conversation that ends leaves its seat empty  *)
(* and its watcher gone.                                                   *)
(***************************************************************************)
THEOREM DaemonTypeCorrect == DaemonSpec => []DaemonTypeOK
<1> QED BY DaemonTypeInit, DaemonTypeStep, PTL DEF DaemonSpec

(***************************************************************************)
(* How the stop goes: the door, the conversations, the reopening and the   *)
(* room, each past once and for all.  A seat that is taken before the door *)
(* closes is waited for; one that is taken after it ("late") is not.       *)
(***************************************************************************)
AfterDrain == {"reopen", "leave", "close", "ui", "done"}
AfterWait  == AfterDrain \ {"reopen"}
AfterLeave == AfterWait \ {"leave"}

\* Nobody can ask for the stop before it is wired: it is not there, and the
\* process falls.  The keeper is of a start that ended.
StopIsWired == /\ apagar # "no" => boot \in {"wired", "up"}
               /\ watch # "off" => boot = "up"

DoorIsShut == /\ cerrando <=> apagar \notin {"no", "door"}
              /\ got = Nobody

SeatsAreFree == apagar \in AfterDrain => \A c \in Conn : conv[c] = "free"

\* What ApagadoMax cuts short may still be running.
ReopeningIsOver == apagar \in AfterWait /\ ~expired => reopen # "running"

RoomIsLeft ==
    /\ leaver # "no" => apagar \in AfterWait
    /\ leaver = "left" /\ ~expired => room # "open"
    /\ apagar \in AfterLeave /\ ~expired => leaver = "left"
    /\ end = "orderly" => apagar = "done"

StopInv == StopIsWired /\ DoorIsShut /\ SeatsAreFree /\ ReopeningIsOver /\ RoomIsLeft

LEMMA StopInvInit == DaemonInit => StopInv
BY DEF DaemonInit, StopInv, StopIsWired, DoorIsShut, SeatsAreFree, ReopeningIsOver, RoomIsLeft,
       AfterDrain, AfterWait, AfterLeave

\* What a conversation does while the stop is past it: nothing.
LEMMA ConversationsKeepTheStop ==
    ASSUME DaemonTypeOK, StopInv, "late" \notin Fault, NEW c \in Conn,
           \/ Accept(c) \/ Hello(c) \/ Dispatch(c) \/ RoomOp(c) \/ Show(c) \/ Panic(c)
           \/ Shutdown(c) \/ ClientGoes(c) \/ HelloWait(c) \/ WatchCloses(c) \/ ReadEnds(c)
    PROVE  StopInv'
<1> USE DEF StopInv, Order
<1>1. CASE Accept(c)
    <2>1. conv[c] = "free" /\ ~cerrando /\ got' = Nobody
        BY <1>1, NobodyAssumption DEF Accept, DoorIsShut
    <2>2. apagar \notin AfterDrain
        BY <2>1 DEF DoorIsShut, AfterDrain
    <2> QED BY <1>1, <2>1, <2>2 DEF Accept, Seat, process, session, closing, keeper, StopIsWired,
            DoorIsShut, SeatsAreFree, ReopeningIsOver, RoomIsLeft, AfterWait, AfterLeave
<1>2. CASE ClientGoes(c) \/ HelloWait(c) \/ WatchCloses(c)
    BY <1>2 DEF ClientGoes, HelloWait, WatchCloses, process, door, session, closing, keeper,
            StopIsWired, DoorIsShut, SeatsAreFree, ReopeningIsOver, RoomIsLeft
<1>3. CASE Shutdown(c)
    <2>1. conv[c] # "free"
        BY <1>3 DEF Shutdown
    <2>2. apagar \notin AfterDrain
        BY <2>1 DEF SeatsAreFree
    <2> QED BY <1>3, <2>2 DEF Shutdown, Begun, door, talk, session, closing, keeper, StopIsWired,
            DoorIsShut, SeatsAreFree, ReopeningIsOver, RoomIsLeft, AfterDrain, AfterWait, AfterLeave
<1>4. CASE Hello(c) \/ Dispatch(c) \/ RoomOp(c) \/ Show(c) \/ Panic(c) \/ ReadEnds(c)
    <2>1. conv[c] # "free"
        BY <1>4 DEF Hello, Dispatch, RoomOp, Show, Panic, ReadEnds
    <2>2. apagar \notin AfterDrain /\ UNCHANGED <<process, door, reopen, closing, watch>>
        BY <1>4, <2>1 DEF SeatsAreFree, Hello, Dispatch, RoomOp, Show, Panic, ReadEnds, session, keeper
    <2>3. leaver = "no"
        BY <2>2 DEF RoomIsLeft, AfterWait
    <2> QED BY <2>2, <2>3 DEF process, door, closing, StopIsWired, DoorIsShut, SeatsAreFree,
            ReopeningIsOver, RoomIsLeft, AfterWait, AfterLeave
<1> QED BY <1>1, <1>2, <1>3, <1>4

LEMMA StopInvStep ==
    "late" \notin Fault /\ DaemonTypeOK /\ StopInv /\ [DaemonNext]_daemonVars => StopInv'
<1> SUFFICES ASSUME "late" \notin Fault, DaemonTypeOK, StopInv, [DaemonNext]_daemonVars
             PROVE  StopInv'
    OBVIOUS
<1> USE DEF StopInv
<1>1. CASE Starting \/ Signal
    <2>1. UNCHANGED <<got, cerrando, talk, closing, room>> /\ (end' = end \/ end' = "aborted")
        BY <1>1 DEF Starting, Loop, Abort, Serve, ReabrirLaSala, Wire, StartUI, Signal, door, session,
                    Alive
    <2>2. reopen' # reopen => apagar = "no"
        BY <1>1 DEF Starting, Loop, Abort, Serve, ReabrirLaSala, Wire, StartUI, Signal, session,
                    StopIsWired
    <2>3. /\ boot \in {"wired", "up"} => boot' \in {"wired", "up"}
          /\ watch' # watch => boot' = "up"
          /\ boot = "up" => boot' = "up"
        BY <1>1 DEF Starting, Loop, Abort, Serve, ReabrirLaSala, Wire, StartUI, Signal, keeper
    <2> QED BY <2>1, <2>2, <2>3 DEF talk, closing, StopIsWired, DoorIsShut, SeatsAreFree,
            ReopeningIsOver, RoomIsLeft, AfterDrain, AfterWait, AfterLeave
<1>2. CASE AcceptEnds \/ Murio \/ Relaunch \/ WatchEnds
    <2>1. UNCHANGED <<process, got, cerrando, talk, session, closing>>
        BY <1>2 DEF AcceptEnds, Murio, Relaunch, WatchEnds, door
    <2>2. watch' # watch => watch # "off"
        BY <1>2 DEF AcceptEnds, Murio, Relaunch, WatchEnds, keeper
    <2> QED BY <2>1, <2>2 DEF process, talk, session, closing, StopIsWired, DoorIsShut,
            SeatsAreFree, ReopeningIsOver, RoomIsLeft
<1>3. CASE OnGiveUp \/ OnSignal
    <2>1. boot = "up"
        BY <1>3 DEF OnGiveUp, OnSignal, StopIsWired
    <2> QED BY <1>3, <2>1 DEF OnGiveUp, OnSignal, Begun, process, door, talk, session, keeper, StopIsWired,
            DoorIsShut, SeatsAreFree, ReopeningIsOver, RoomIsLeft, AfterDrain, AfterWait, AfterLeave
<1>4. CASE CloseDoor
    BY <1>4 DEF CloseDoor, process, talk, session, keeper, StopIsWired, DoorIsShut, SeatsAreFree,
            ReopeningIsOver, RoomIsLeft, AfterDrain, AfterWait, AfterLeave
<1>5. CASE Drained
    BY <1>5 DEF Drained, process, door, talk, session, keeper, StopIsWired, DoorIsShut, SeatsAreFree,
            ReopeningIsOver, RoomIsLeft, AfterDrain, AfterWait, AfterLeave
<1>6. CASE EsperarReapertura
    BY <1>6 DEF EsperarReapertura, process, door, talk, session, keeper, StopIsWired, DoorIsShut,
            SeatsAreFree, ReopeningIsOver, RoomIsLeft, AfterDrain, AfterWait, AfterLeave
<1>7. CASE LeaveRoomOnShutdown
    BY <1>7 DEF LeaveRoomOnShutdown, process, door, talk, keeper, StopIsWired, DoorIsShut,
            SeatsAreFree, ReopeningIsOver, RoomIsLeft, AfterDrain, AfterWait, AfterLeave
<1>8. CASE Apagado \/ CerrarTodo \/ CloseHandles
    BY <1>8 DEF Apagado, CerrarTodo, CloseHandles, process, door, talk, session, keeper, Alive,
            StopIsWired, DoorIsShut, SeatsAreFree, ReopeningIsOver, RoomIsLeft, AfterDrain,
            AfterWait, AfterLeave
<1>9. CASE Exit
    BY <1>9 DEF Exit, door, talk, session, closing, keeper, StopIsWired, DoorIsShut, SeatsAreFree,
            ReopeningIsOver, RoomIsLeft
<1>10. CASE Reabierta
    BY <1>10 DEF Reabierta, process, door, talk, closing, keeper, StopIsWired, DoorIsShut,
            SeatsAreFree, ReopeningIsOver, RoomIsLeft, AfterDrain, AfterWait, AfterLeave
<1>11. CASE Vuelta
    BY <1>11 DEF Vuelta, process, door, talk, closing, keeper, StopIsWired, DoorIsShut,
            SeatsAreFree, ReopeningIsOver, RoomIsLeft
<1>12. CASE Expire
    BY <1>12 DEF Expire, process, door, talk, session, keeper, StopIsWired, DoorIsShut,
            SeatsAreFree, ReopeningIsOver, RoomIsLeft
<1>13. CASE \E p \in UI : Claim(p) \/ Falls(p)
    BY <1>13 DEF Claim, Falls, process, door, talk, session, closing, keeper, StopIsWired,
            DoorIsShut, SeatsAreFree, ReopeningIsOver, RoomIsLeft
<1>14. CASE UNCHANGED daemonVars
    BY <1>14 DEF daemonVars, process, door, talk, session, closing, keeper, StopIsWired,
            DoorIsShut, SeatsAreFree, ReopeningIsOver, RoomIsLeft
<1>15. CASE \E c \in Conn : \/ Accept(c) \/ Hello(c) \/ Dispatch(c) \/ RoomOp(c) \/ Show(c)
                           \/ Panic(c) \/ Shutdown(c) \/ ClientGoes(c) \/ HelloWait(c)
                           \/ WatchCloses(c) \/ ReadEnds(c)
    BY <1>15, ConversationsKeepTheStop
<1> QED BY <1>1, <1>2, <1>3, <1>4, <1>5, <1>6, <1>7, <1>8, <1>9, <1>10, <1>11, <1>12, <1>13, <1>14,
           <1>15 DEF DaemonNext, Keeping, Stopping

(***************************************************************************)
(* A stop that ended in its time left no room, whatever was on its way     *)
(* when it began, as long as no connection is between being taken and      *)
(* having a seat as the door closes.                                       *)
(***************************************************************************)
THEOREM StopLeavesNoRoom == "late" \notin Fault => (DaemonSpec => []CleanEnd)
<1> SUFFICES ASSUME "late" \notin Fault PROVE DaemonSpec => []CleanEnd
    OBVIOUS
<1>1. StopInv => CleanEnd
    BY DEF StopInv, RoomIsLeft, CleanEnd, AfterLeave, AfterWait, AfterDrain
<1>2. DaemonTypeOK /\ StopInv /\ [DaemonNext]_daemonVars => StopInv'
    BY StopInvStep
<1> QED BY <1>1, <1>2, StopInvInit, DaemonTypeCorrect, PTL DEF DaemonSpec

(***************************************************************************)
(* The window.  Nobody launches one before the start ends or once the job  *)
(* is closed, so it holds every one there is; and the keeper, who could,   *)
(* is waited for.                                                          *)
(***************************************************************************)
NothingBeforeUp ==
    boot # "up" => /\ apagar = "no" /\ watch = "off"
                   /\ \A c \in Conn : conv[c] = "free"
                   /\ \A p \in UI : st[p] = "none"

KeeperIsGone == apagar = "done" => watch \in {"off", "gone"}

JobHoldsAll == \A p \in UI : held[p]

WindowInv == NothingBeforeUp /\ KeeperIsGone /\ JobHoldsAll /\ NoWindowOutlives

NoStrangers == "late" \notin Fault /\ "early" \notin Fault /\ "job" \notin Fault

LEMMA WindowInvInit == DaemonInit => WindowInv
BY DEF DaemonInit, WindowInv, NothingBeforeUp, KeeperIsGone, JobHoldsAll, NoWindowOutlives, Alive

LEMMA NobodyIsThere ==
    /\ There = {} <=> \A p \in UI : st[p] \notin {"fresh", "main"}
    /\ There' = {} <=> \A p \in UI : st'[p] \notin {"fresh", "main"}
BY DEF There

\* As the process ends its job does, with every window in it.
LEMMA JobTakesAll ==
    ASSUME DaemonTypeOK, JobHoldsAll, JobCloses
    PROVE  \A p \in UI : st'[p] = "none"
BY DEF JobHoldsAll, JobCloses, DaemonTypeOK

\* A launch before the job is closed is held by it.
LEMMA LaunchIsHeld ==
    ASSUME DaemonTypeOK, JobHoldsAll, NoStrangers, apagar # "done",
           NEW tracked \in BOOLEAN, Launch(tracked)
    PROVE  JobHoldsAll'
BY LaunchFacts, DaemonTypes DEF JobHoldsAll, NoStrangers, DaemonTypeOK

LEMMA WindowInvStep ==
    NoStrangers /\ DaemonTypeOK /\ StopInv /\ WindowInv /\ [DaemonNext]_daemonVars => WindowInv'
<1> SUFFICES ASSUME NoStrangers, DaemonTypeOK, StopInv, WindowInv, [DaemonNext]_daemonVars
             PROVE  WindowInv'
    OBVIOUS
<1> USE DEF WindowInv
<1>1. CASE Loop \/ Serve \/ ReabrirLaSala \/ Wire \/ Signal
    <2>1. UNCHANGED <<end, talk, closing, window, watch>> /\ (boot = "up" => boot' = "up")
        BY <1>1 DEF Loop, Serve, ReabrirLaSala, Wire, Signal, keeper
    <2> QED BY <2>1 DEF talk, closing, window, NothingBeforeUp, KeeperIsGone, JobHoldsAll,
            NoWindowOutlives, Alive, There
<1>2. CASE Abort
    <2>1. \A p \in UI : st'[p] = "none"
        BY <1>2 DEF Abort, NothingBeforeUp, window
    <2>2. UNCHANGED <<boot, talk, closing, window, keeper>>
        BY <1>2 DEF Abort
    <2> QED BY <2>1, <2>2, NobodyIsThere DEF talk, closing, window, keeper, NothingBeforeUp,
            KeeperIsGone, JobHoldsAll, NoWindowOutlives
<1>3. CASE StartUI
    <2>1. apagar = "no" /\ apagar' = "no" /\ Alive' /\ boot' = "up"
        BY <1>3 DEF StartUI, NothingBeforeUp, closing, Alive
    <2>2. JobHoldsAll'
        BY <1>3, <2>1, LaunchIsHeld DEF StartUI, window, JobHoldsAll
    <2> QED BY <2>1, <2>2 DEF NothingBeforeUp, KeeperIsGone, NoWindowOutlives
<1>4. CASE Relaunch
    <2>1. apagar # "done" /\ apagar' = apagar /\ Alive' /\ boot = "up" /\ boot' = "up"
        BY <1>4 DEF Relaunch, KeeperIsGone, NothingBeforeUp, process, closing, Alive
    <2>2. JobHoldsAll'
        BY <1>4, <2>1, LaunchIsHeld DEF Relaunch, window, JobHoldsAll
    <2> QED BY <2>1, <2>2 DEF NothingBeforeUp, KeeperIsGone, NoWindowOutlives
<1>5. CASE Murio \/ WatchEnds \/ OnGiveUp
    <2>1. boot = "up" /\ boot' = "up" /\ held' = held
        BY <1>5 DEF Murio, WatchEnds, OnGiveUp, process, window, NothingBeforeUp
    <2>2. KeeperIsGone'
        BY <1>5 DEF Murio, WatchEnds, OnGiveUp, closing, KeeperIsGone
    <2>3. NoWindowOutlives'
        BY <1>5 DEF Murio, WatchEnds, OnGiveUp, process, window, Alive, NoWindowOutlives, There
    <2> QED BY <2>1, <2>2, <2>3 DEF NothingBeforeUp, JobHoldsAll
<1>6. CASE \/ OnSignal \/ CloseDoor \/ Drained \/ EsperarReapertura \/ LeaveRoomOnShutdown
           \/ Apagado \/ CerrarTodo \/ Expire
    <2>1. /\ Alive' /\ boot = boot' /\ UNCHANGED <<window, watch>>
          /\ apagar' = "done" => apagar = "done"
        BY <1>6 DEF OnSignal, CloseDoor, Drained, EsperarReapertura, LeaveRoomOnShutdown, Apagado,
                    CerrarTodo, Expire, Begun, process, keeper, Alive, RoomIsLeft, StopInv
    <2>2. boot = "up"
        BY <1>6 DEF OnSignal, CloseDoor, Drained, EsperarReapertura, LeaveRoomOnShutdown, Apagado,
                    CerrarTodo, Expire, NothingBeforeUp, RoomIsLeft, StopInv, AfterWait, AfterDrain
    <2> QED BY <2>1, <2>2 DEF window, NothingBeforeUp, KeeperIsGone, JobHoldsAll, NoWindowOutlives
<1>7. CASE CloseHandles
    <2>1. Alive' /\ boot = "up" /\ boot' = "up" /\ held' = held
        BY <1>7 DEF CloseHandles, NothingBeforeUp, process, Alive
    <2>2. KeeperIsGone'
        BY <1>7 DEF CloseHandles, keeper, KeeperIsGone
    <2> QED BY <2>1, <2>2 DEF NothingBeforeUp, JobHoldsAll, NoWindowOutlives
<1>8. CASE Exit
    <2>1. \A p \in UI : st'[p] = "none"
        BY <1>8, JobTakesAll DEF Exit
    <2>2. boot' = "up" /\ UNCHANGED <<held, apagar, watch>>
        BY <1>8 DEF Exit, closing, keeper
    <2> QED BY <2>1, <2>2, NobodyIsThere DEF NothingBeforeUp, KeeperIsGone, JobHoldsAll, NoWindowOutlives
<1>9. CASE AcceptEnds \/ Reabierta \/ Vuelta
    BY <1>9 DEF AcceptEnds, Reabierta, Vuelta, process, talk, closing, window, keeper,
            NothingBeforeUp, KeeperIsGone, JobHoldsAll, NoWindowOutlives, Alive, There
<1>10. ASSUME NEW c \in Conn, Accept(c) PROVE WindowInv'
    <2>1. boot = "up"
        BY <1>10, NobodyAssumption DEF Accept, AtTheDoor, NoStrangers, StopInv, DoorIsShut
    <2> QED BY <1>10, <2>1 DEF Accept, process, closing, window, keeper,
            NothingBeforeUp, KeeperIsGone, JobHoldsAll, NoWindowOutlives, Alive, There
<1>11. ASSUME NEW c \in Conn,
              \/ Hello(c) \/ Dispatch(c) \/ RoomOp(c) \/ Panic(c) \/ ClientGoes(c) \/ ReadEnds(c)
       PROVE  WindowInv'
    <2>1. boot = "up"
        BY <1>11 DEF Hello, Dispatch, RoomOp, Panic, ClientGoes, ReadEnds, Order, NothingBeforeUp
    <2>2. UNCHANGED <<process, closing, window, keeper>>
        BY <1>11 DEF Hello, Dispatch, RoomOp, Panic, ClientGoes, ReadEnds
    <2> QED BY <2>1, <2>2 DEF process, closing, window, keeper, NothingBeforeUp, KeeperIsGone,
            JobHoldsAll, NoWindowOutlives, Alive, There
<1>12. ASSUME NEW c \in Conn, HelloWait(c) \/ WatchCloses(c) PROVE WindowInv'
    BY <1>12 DEF HelloWait, WatchCloses, process, closing, window, keeper, NothingBeforeUp,
            KeeperIsGone, JobHoldsAll, NoWindowOutlives, Alive, There
<1>13. ASSUME NEW c \in Conn, Show(c) PROVE WindowInv'
    <2>1. conv[c] # "free"
        BY <1>13 DEF Show
    <2>2. boot = "up" /\ apagar # "done"
        BY <2>1 DEF NothingBeforeUp, StopInv, SeatsAreFree, AfterDrain
    <2>3. Alive' /\ UNCHANGED <<boot, apagar, watch>>
        BY <1>13 DEF Show, process, closing, keeper, Alive
    <2>4. JobHoldsAll'
        BY <1>13, <2>2, LaunchIsHeld DEF Show, window, JobHoldsAll
    <2> QED BY <2>2, <2>3, <2>4 DEF NothingBeforeUp, KeeperIsGone, NoWindowOutlives
<1>14. ASSUME NEW c \in Conn, Shutdown(c) PROVE WindowInv'
    <2>1. boot = "up"
        BY <1>14 DEF Shutdown, NothingBeforeUp
    <2>2. /\ UNCHANGED <<boot, end, st, held, watch>>
          /\ apagar' = "done" => apagar = "done"
        BY <1>14, <2>1 DEF Shutdown, Begun, keeper
    <2> QED BY <2>1, <2>2 DEF NothingBeforeUp, KeeperIsGone, JobHoldsAll, NoWindowOutlives, Alive, There
<1>15. ASSUME NEW p \in UI, Claim(p) \/ Falls(p) PROVE WindowInv'
    <2>1. boot = "up" /\ st[p] \in {"fresh", "main"}
        BY <1>15 DEF Claim, Falls, NothingBeforeUp
    <2>2. Alive
        BY <2>1, NobodyIsThere DEF NoWindowOutlives
    <2>3. UNCHANGED <<boot, end, held, apagar, watch>>
        BY <1>15 DEF Claim, Falls, process, closing, keeper
    <2> QED BY <2>1, <2>2, <2>3 DEF NothingBeforeUp, KeeperIsGone, JobHoldsAll, NoWindowOutlives, Alive
<1>16. CASE UNCHANGED daemonVars
    BY <1>16 DEF daemonVars, process, talk, closing, window, keeper, NothingBeforeUp, KeeperIsGone,
            JobHoldsAll, NoWindowOutlives, Alive, There
<1> QED BY <1>1, <1>2, <1>3, <1>4, <1>5, <1>6, <1>7, <1>8, <1>9, <1>10, <1>11, <1>12, <1>13, <1>14,
           <1>15, <1>16 DEF DaemonNext, Starting, Keeping, Stopping

(***************************************************************************)
(* No window is left when the process is gone, whoever launched it and     *)
(* however it ended, as long as nobody is at the door before the start     *)
(* ends or as it closes, and the processes are born in no other job.       *)
(***************************************************************************)
THEOREM WindowsDieWithTheProcess ==
    "late" \notin Fault /\ "early" \notin Fault /\ "job" \notin Fault
      => (DaemonSpec => []NoWindowOutlives)
<1> SUFFICES ASSUME NoStrangers PROVE DaemonSpec => []NoWindowOutlives
    BY DEF NoStrangers
<1>1. DaemonTypeOK /\ StopInv /\ [DaemonNext]_daemonVars => StopInv'
    BY StopInvStep DEF NoStrangers
<1>2. DaemonTypeOK /\ StopInv /\ WindowInv /\ [DaemonNext]_daemonVars => WindowInv'
    BY WindowInvStep
<1>3. WindowInv => NoWindowOutlives
    BY DEF WindowInv
<1> QED BY <1>1, <1>2, <1>3, StopInvInit, WindowInvInit, DaemonTypeCorrect, PTL DEF DaemonSpec
=============================================================================
