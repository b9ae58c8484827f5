---------------------------- MODULE Debts_proofs ----------------------------
(***************************************************************************)
(* Theorems about what Kanpachi owes the machine, for any set of foreign   *)
(* rules and of adapters, on both systems.  Each theorem names the faults  *)
(* it does without; whatever the others do, it holds.                      *)
(*                                                                         *)
(* The invariant has five parts, each inductive with the types and those   *)
(* above it: where a sequence may be (Course), the books of the rules      *)
(* (RulesKnown), of the doors (DoorsBooked) and of the tweaks              *)
(* (TweaksKnown, RowBooked), and how much a sequence that goes well has    *)
(* already given back (RulesDone, DoorsDone, TweaksDone).                  *)
(***************************************************************************)
EXTENDS Debts, TLAPS

\* Which steps belong to which sequence, and who may be suspending meanwhile.
Course ==
    /\ job = "none" <=> at = "idle"
    /\ job # "none" => last = "none"
    /\ at \in {"restore", "restoring", "forget"} => job \in {"start", "leave", "reset"}
    /\ at = "withdraw" => job \in {"start", "leave"}
    /\ at = "revert" => job \in {"leave", "reset"}
    /\ at = "down" => job = "leave"
    /\ at \in {"gate", "allow", "up"} => job = "open"
    /\ at \in {"row", "directplay"} => job \in {"open", "game"}
    /\ room = "open" => last \notin {"start", "leave", "reset"}
    /\ room = "open" => at \notin {"gate", "allow", "up"} /\ job # "reset"
    /\ at # "allow" => book = {} /\ asked = {}
    /\ job # "none" => (alive <=> job # "reset")
    /\ job = "start" \/ ~alive => room = "none"

\* Without anything that overlaps, one suspends at a time, and nobody does in
\* a sequence that restores.
Settling == {"restore", "restoring", "forget", "withdraw", "revert", "down"}
AskAlone == \A k \in Asker : ask[k] # "no" =>
    alive /\ room = "open" /\ at \notin Settling /\ Alone({k})

\* The record has the owner's word for every rule that is otherwise, and what
\* is on its way into it has too.
RuleKnown(r) ==
    /\ record[r] = "none" => rule[r] = wish[r]
    /\ record[r] # "none" => record[r] = wish[r]
    /\ \A k \in Asker :
         fresh[k][r] # "none" /\ record[r] = "none" => fresh[k][r] = wish[r]
AskKnows(k) ==
    /\ ask[k] = "save" => seen[k] = record
    /\ ask[k] = "set" => Dom(fresh[k]) \subseteq Dom(record)
    /\ ask[k] \in {"no", "read"} => fresh[k] = Nothing
RulesKnown ==
    /\ \A r \in Rule : rule[r] # "gone" => RuleKnown(r)
    /\ \A k \in Asker : AskKnows(k)
    /\ at \in {"restoring", "forget"} => back = record
    /\ at = "forget" => RulesPaid

\* A door this opened is in the book, or in the one about to be written, or an
\* opening left it without its line.
DoorsBooked == \A a \in Adapter :
    door[a] \in {"half", "ours"} => a \in ledger \cup stray \cup book
Growing == at = "allow" => ledger \subseteq book

\* The book has the owner's word for the feature of Windows, and the row.
TweaksKnown ==
    \/ was = IF dpWish THEN "on" ELSE "off"
    \/ was = "none" /\ dp = dpWish
RowBooked ==
    /\ row => added \/ loose
    /\ loose => ~added

\* What a sequence that goes well has given back, by where it is.
RulesDone ==
    /\ job # "none" /\ fine /\ at \in {"withdraw", "revert", "down"} => RulesPaid
    /\ last \in {"start", "leave", "reset"} => RulesPaid
DoorsDone ==
    /\ job \in {"start", "leave"} /\ fine /\ at \in {"revert", "down"} => DoorsPaid
    /\ last \in {"start", "leave"} => DoorsPaid
TweaksDone ==
    /\ fine /\ at = "down" => TweaksPaid
    /\ last \in {"leave", "reset"} => TweaksPaid

(***************************************************************************)
(* Types.                                                                  *)
(***************************************************************************)

LifeOK == alive \in BOOLEAN /\ room \in {"none", "open"} /\ game \in BOOLEAN
SeqOK ==
    /\ job \in {"none", "start", "open", "game", "leave", "reset"}
    /\ at \in {"idle", "restore", "restoring", "forget", "withdraw", "revert",
               "down", "gate", "allow", "up", "row", "directplay"}
    /\ fine \in BOOLEAN
    /\ last \in {"none", "failed", "start", "open", "game", "leave", "reset"}
RulesOK ==
    /\ rule \in [Rule -> {"on", "off", "gone"}]
    /\ wish \in [Rule -> {"on", "off", "gone"}]
    /\ record \in [Rule -> {"none", "on", "off"}]
    /\ back \in [Rule -> {"none", "on", "off"}]
    /\ ask \in [Asker -> {"no", "read", "load", "save", "set"}]
    /\ fresh \in [Asker -> [Rule -> {"none", "on", "off"}]]
    /\ seen \in [Asker -> [Rule -> {"none", "on", "off"}]]
DoorsOK ==
    /\ door \in [Adapter -> {"shut", "half", "own", "ours"}]
    /\ ledger \subseteq Adapter /\ asked \subseteq Adapter
    /\ book \subseteq Adapter /\ stray \subseteq Adapter
TweaksOK ==
    /\ row \in BOOLEAN /\ added \in BOOLEAN /\ loose \in BOOLEAN
    /\ dp \in BOOLEAN /\ dpWish \in BOOLEAN /\ was \in {"none", "on", "off"}

LEMMA TypeParts ==
    TypeOK <=> /\ system \in {"windows", "linux"}
               /\ LifeOK /\ SeqOK /\ RulesOK /\ DoorsOK /\ TweaksOK
BY DEF TypeOK, LifeOK, SeqOK, RulesOK, DoorsOK, TweaksOK

\* Which parts of the state the steps of one part leave alone.
LEMMA RulesAlone ==
    ASSUME Next PROVE UNCHANGED rules \/ Crash \/ Suspend \/ Restore
        \/ \E r \in Rule : OwnerSets(r) \/ OwnerRemoves(r)
BY DEF Next, Start, Reset, Leave, Open, Up, Activate, Allow, Gate, AllowOne, AllowWrite,
       AllowFails, DoctorFix, Reload, Withdraw, Tweak, Row, DirectPlay, Revert, Down, Reapply,
       Owner, OwnerSetsDirectPlay, OperatorAllows, OperatorShuts, rules, asking

LEMMA DoorsAlone ==
    ASSUME Next PROVE UNCHANGED doors \/ Crash \/ Allow \/ DoctorFix \/ Reload \/ Withdraw
        \/ \E a \in Adapter : OperatorAllows(a) \/ OperatorShuts(a)
BY DEF Next, Start, Reset, Leave, Open, Up, Activate, Suspend, AskRoom, AskRead, AskLoad,
       AskSave, AskSet, Restore, RestoreLoad, RestoreSet, RestoreForget, Tweak, Row,
       DirectPlay, Revert, Down, Reapply, Owner, OwnerSets, OwnerRemoves, OwnerSetsDirectPlay

LEMMA TweaksAlone ==
    ASSUME Next PROVE UNCHANGED tweaks \/ Row \/ DirectPlay \/ Revert \/ Reapply
        \/ OwnerSetsDirectPlay
BY DEF Next, Start, Reset, Crash, Leave, Open, Up, Activate, Suspend, AskRoom, AskRead,
       AskLoad, AskSave, AskSet, Restore, RestoreLoad, RestoreSet, RestoreForget, Allow, Gate,
       AllowOne, AllowWrite, AllowFails, DoctorFix, Reload, Withdraw, Tweak, Down, Owner,
       OwnerSets, OwnerRemoves, OperatorAllows, OperatorShuts, tweaks

LEMMA SeqAlone ==
    ASSUME Next PROVE UNCHANGED seq \/ Start \/ Reset \/ Crash \/ Leave \/ Up \/ Activate
        \/ (\E gated \in BOOLEAN : Open(gated)) \/ Restore \/ Allow \/ DoctorFix
        \/ Withdraw \/ Row \/ DirectPlay \/ Revert \/ Down
BY DEF Next, Suspend, AskRoom, AskRead, AskLoad, AskSave, AskSet, Tweak, Reapply, Reload,
       Owner, OwnerSets, OwnerRemoves, OwnerSetsDirectPlay, OperatorAllows, OperatorShuts

LEMMA LifeAlone ==
    ASSUME Next PROVE UNCHANGED life \/ Start \/ Crash \/ Up \/ Activate \/ Down
BY DEF Next, Reset, Leave, Open, Suspend, AskRoom, AskRead, AskLoad, AskSave, AskSet,
       Restore, RestoreLoad, RestoreSet, RestoreForget, Allow, Gate, AllowOne, AllowWrite,
       AllowFails, DoctorFix, Reload, Withdraw, Tweak, Row, DirectPlay, Revert, Reapply,
       Owner, OwnerSets, OwnerRemoves, OwnerSetsDirectPlay, OperatorAllows, OperatorShuts

LEMMA StepType ==
    ASSUME TypeOK, NEW s \in {"restore", "withdraw", "revert"}, NEW well \in BOOLEAN,
           Step(s, well)
    PROVE  SeqOK'
BY DEF Step, Finish, Following, TypeOK, SeqOK

LEMMA PolicyType ==
    ASSUME TypeOK, SetPrefixPolicy(game) PROVE row' \in BOOLEAN /\ added' \in BOOLEAN /\ loose' \in BOOLEAN
BY DEF SetPrefixPolicy, TypeOK

\* What setEnabled stops at is among what it was asked for.
LEMMA TouchedIn == ASSUME NEW all, NEW R \in Touched(all) PROVE R \subseteq all
BY DEF Touched

LEMMA SetType ==
    ASSUME TypeOK, NEW R, R \subseteq Rule, NEW v, \A r \in R : v[r] \in {"on", "off"}
    PROVE  Set(R, v) \in [Rule -> {"on", "off", "gone"}]
BY DEF Set, TypeOK

Lines == [Rule -> {"none", "on", "off"}]

LEMMA NothingType == Nothing \in Lines
BY DEF Nothing, Lines

LEMMA MergedType ==
    ASSUME NEW f \in Lines, NEW g \in Lines PROVE Merged(f, g) \in Lines
BY DEF Merged, Lines

LEMMA AskType ==
    ASSUME TypeOK, NEW k \in Asker, AskEnds(k)
    PROVE  /\ ask' \in [Asker -> {"no", "read", "load", "save", "set"}]
           /\ fresh' \in [Asker -> Lines] /\ seen' \in [Asker -> Lines]
BY NothingType DEF AskEnds, Lines, TypeOK

LEMMA RulesType == ASSUME TypeOK, Next PROVE RulesOK'
<1> USE DEF Lines
<1>1. CASE UNCHANGED rules
    BY <1>1 DEF rules, asking, TypeOK, RulesOK
<1>2. CASE Crash
    BY <1>2, NothingType DEF Crash, TypeOK, RulesOK
<1>3. ASSUME NEW k \in Asker, AskRoom(k) \/ AskRead(k) \/ AskLoad(k) \/ AskSave(k)
      PROVE  RulesOK'
    <2>1. CASE AskRoom(k)
        BY <2>1 DEF AskRoom, TypeOK, RulesOK
    <2>2. CASE AskRead(k)
        <3>1. fresh' \in [Asker -> Lines]
            BY <2>2 DEF AskRead, TypeOK
        <3> QED BY <2>2, <3>1 DEF AskRead, TypeOK, RulesOK
    <2>3. CASE AskLoad(k)
        <3>1. CASE AskEnds(k)
            BY <2>3, <3>1, AskType DEF AskLoad, TypeOK, RulesOK
        <3>2. CASE seen' = [seen EXCEPT ![k] = record] /\ fresh' = fresh
            BY <2>3, <3>2 DEF AskLoad, AskEnds, TypeOK, RulesOK
        <3> QED BY <2>3, <3>1, <3>2 DEF AskLoad
    <2>4. CASE AskSave(k)
        <3>1. record' \in Lines
            BY <2>4, MergedType DEF AskSave, TypeOK
        <3> QED BY <2>4, <3>1, AskType DEF AskSave, TypeOK, RulesOK
    <2> QED BY <1>3, <2>1, <2>2, <2>3, <2>4
<1>5. ASSUME NEW k \in Asker, AskSet(k) PROVE RulesOK'
    <2>1. rule' \in [Rule -> {"on", "off", "gone"}]
        BY <1>5 DEF AskSet, Set, TypeOK
    <2> QED BY <1>5, <2>1, AskType DEF AskSet, TypeOK, RulesOK
<1>6. CASE RestoreLoad
    BY <1>6 DEF RestoreLoad, asking, TypeOK, RulesOK
<1>7. CASE RestoreSet
    <2>1. PICK R \in Touched(Dom(back)) : rule' = Set(R, back)
        BY <1>7 DEF RestoreSet
    <2>2. R \subseteq Rule /\ \A r \in R : back[r] \in {"on", "off"}
        BY <2>1, TouchedIn DEF Dom, TypeOK
    <2>3. rule' \in [Rule -> {"on", "off", "gone"}]
        BY <2>1, <2>2, SetType
    <2>4. back' = back \/ back' = Nothing
        BY <1>7 DEF RestoreSet
    <2> QED BY <1>7, <2>3, <2>4, NothingType DEF RestoreSet, asking, TypeOK, RulesOK
<1>8. CASE RestoreForget
    BY <1>8, NothingType DEF RestoreForget, asking, TypeOK, RulesOK
<1>9. ASSUME NEW r \in Rule, OwnerSets(r) \/ OwnerRemoves(r) PROVE RulesOK'
    <2>1. rule' \in [Rule -> {"on", "off", "gone"}] /\ wish' \in [Rule -> {"on", "off", "gone"}]
        <3>1. CASE OwnerSets(r)
            <4>1. PICK v \in {"on", "off"} :
                    rule' = [rule EXCEPT ![r] = v] /\ wish' = [wish EXCEPT ![r] = v]
                BY <3>1 DEF OwnerSets
            <4> QED BY <4>1 DEF TypeOK
        <3>2. CASE OwnerRemoves(r)
            BY <3>2 DEF OwnerRemoves, TypeOK
        <3> QED BY <1>9, <3>1, <3>2
    <2>2. UNCHANGED <<record, back, ask, fresh, seen>>
        BY <1>9 DEF OwnerSets, OwnerRemoves, asking
    <2> QED BY <2>1, <2>2 DEF TypeOK, RulesOK
<1> QED BY <1>1, <1>2, <1>3, <1>5, <1>6, <1>7, <1>8, <1>9, RulesAlone DEF Suspend, Restore

\* An opening that is left opens at most what it was told to, and what it
\* opened is in no book.
LEMMA LeftOffDoors ==
    ASSUME TypeOK, LeftOff
    PROVE  /\ door' \in [Adapter -> {"shut", "half", "own", "ours"}]
           /\ stray \subseteq stray' /\ stray' \subseteq Adapter
           /\ asked' = {} /\ book' = {}
           /\ \A a \in Adapter :
                \/ door'[a] = door[a]
                \/ a \in asked \ book /\ door[a] # "own" /\ door'[a] \in {"half", "ours"}
           /\ \A a \in (asked \cup book) \ ledger : door'[a] \in {"half", "ours"} => a \in stray'
BY DEF LeftOff, Blocked, TypeOK

LEMMA DoorsType == ASSUME TypeOK, Next PROVE DoorsOK'
<1>1. CASE UNCHANGED doors
    BY <1>1 DEF doors, allowing, TypeOK, DoorsOK
<1>2. CASE Crash \/ AllowFails
    <2>1. ledger' = ledger /\ LeftOff
        BY <1>2 DEF Crash, AllowFails
    <2> QED BY <2>1, LeftOffDoors DEF TypeOK, DoorsOK
<1>3. CASE Gate \/ AllowWrite
    BY <1>3 DEF Gate, Blocked, allowing, AllowWrite, TypeOK, DoorsOK
<1>4. ASSUME NEW a \in Adapter, AllowOne(a) \/ OperatorAllows(a) \/ OperatorShuts(a)
      PROVE DoorsOK'
    BY <1>4 DEF AllowOne, Opened, OperatorAllows, OperatorShuts, allowing, TypeOK, DoorsOK
<1>5. CASE DoctorFix \/ Reload
    BY <1>5 DEF DoctorFix, Reload, Blocked, allowing, TypeOK, DoorsOK
<1>6. CASE Withdraw
    <2>1. door' \in [Adapter -> {"shut", "half", "own", "ours"}] /\ UNCHANGED <<asked, book, stray>>
        BY <1>6 DEF Withdraw, allowing, TypeOK
    <2>2. ledger' \subseteq ledger
        BY <1>6 DEF Withdraw
    <2> QED BY <2>1, <2>2 DEF TypeOK, DoorsOK
<1> QED BY <1>1, <1>2, <1>3, <1>4, <1>5, <1>6, DoorsAlone DEF Allow

LEMMA TweaksType == ASSUME TypeOK, Next PROVE TweaksOK'
<1>1. CASE UNCHANGED tweaks
    BY <1>1 DEF tweaks, TypeOK, TweaksOK
<1>2. CASE Row \/ Reapply
    BY <1>2, PolicyType DEF Row, Reapply, TypeOK, TweaksOK
<1>3. CASE DirectPlay
    BY <1>3 DEF DirectPlay, SetDirectPlay, TypeOK, TweaksOK
<1>4. CASE Revert
    BY <1>4 DEF Revert, Undone, Struck, TypeOK, TweaksOK
<1>5. CASE OwnerSetsDirectPlay
    BY <1>5 DEF OwnerSetsDirectPlay, TypeOK, TweaksOK
<1> QED BY <1>1, <1>2, <1>3, <1>4, <1>5, TweaksAlone

LEMMA LifeType == ASSUME TypeOK, Next PROVE LifeOK'
BY LifeAlone DEF Start, Crash, Up, Activate, Down, life, TypeOK, LifeOK

LEMMA SeqType == ASSUME TypeOK, Next PROVE SeqOK'
<1>1. CASE UNCHANGED seq
    BY <1>1 DEF seq, TypeOK, SeqOK
<1>2. CASE Start \/ Reset \/ Crash \/ Leave \/ Up \/ Activate
    BY <1>2 DEF Start, Reset, Crash, Leave, Up, Activate, Begin, TypeOK, SeqOK
<1>3. ASSUME NEW gated \in BOOLEAN, Open(gated) PROVE SeqOK'
    BY <1>3 DEF Open, Begin, TypeOK, SeqOK
<1>4. CASE Restore
    BY <1>4, StepType DEF Restore, RestoreLoad, RestoreSet, RestoreForget, TypeOK, SeqOK
<1>5. CASE Allow
    BY <1>5 DEF Allow, Gate, AllowOne, AllowWrite, AllowFails, Finish, seq, TypeOK, SeqOK
<1>6. CASE DoctorFix
    BY <1>6 DEF DoctorFix, TypeOK, SeqOK
<1>7. CASE Withdraw
    BY <1>7, StepType DEF Withdraw
<1>8. CASE Revert
    BY <1>8, StepType DEF Revert
<1>9. CASE Row \/ DirectPlay \/ Down
    BY <1>9 DEF Row, DirectPlay, Down, Finish, TypeOK, SeqOK
<1> QED BY <1>1, <1>2, <1>3, <1>4, <1>5, <1>6, <1>7, <1>8, <1>9, SeqAlone

LEMMA TypeInit == Init => TypeOK
<1> SUFFICES ASSUME Init PROVE TypeOK
    OBVIOUS
<1>1. RulesOK
    BY DEF Init, RulesOK, Nothing
<1>2. DoorsOK /\ TweaksOK
    BY DEF Init, DoorsOK, TweaksOK
<1>3. LifeOK /\ SeqOK /\ system \in {"windows", "linux"}
    BY DEF Init, LifeOK, SeqOK
<1> QED BY <1>1, <1>2, <1>3, TypeParts

LEMMA TypeStep == TypeOK /\ [Next]_vars => TypeOK'
<1> SUFFICES ASSUME TypeOK, [Next]_vars PROVE TypeOK'
    OBVIOUS
<1>1. CASE Next
    <2>1. system' = system
        BY <1>1 DEF Next, Start, Reset, Crash, Leave, Open, Up, Activate, Suspend, AskRoom,
            AskRead, AskLoad, AskSave, AskSet, Restore, RestoreLoad, RestoreSet, RestoreForget,
            Allow, Gate, AllowOne, AllowWrite, AllowFails, DoctorFix, Reload, Withdraw, Tweak,
            Row, DirectPlay, Revert, Down, Reapply, Owner, OwnerSets, OwnerRemoves,
            OwnerSetsDirectPlay, OperatorAllows, OperatorShuts
    <2> QED BY <1>1, <2>1, RulesType, DoorsType, TweaksType, LifeType, SeqType
        DEF TypeOK, LifeOK, SeqOK, RulesOK, DoorsOK, TweaksOK
<1>2. CASE UNCHANGED vars
    BY <1>2 DEF vars, life, seq, rules, asking, doors, allowing, tweaks, TypeOK
<1> QED BY <1>1, <1>2

\* Every variable keeps its type: no record, book or step is ever other than
\* one the code can read back.
THEOREM TypeCorrect == Spec => []TypeOK
BY TypeInit, TypeStep, PTL DEF Spec

(***************************************************************************)
(* Where a sequence may be.                                                *)
(***************************************************************************)

\* A step that settles goes to the next of its own sequence, or ends it.
LEMMA StepCourse ==
    ASSUME TypeOK, Course, NEW well \in BOOLEAN, NEW s \in {"restore", "withdraw", "revert"},
           at = s \/ (s = "restore" /\ at \in {"restoring", "forget"}),
           Step(s, well), UNCHANGED <<life, asked, book>>
    PROVE  Course' /\ (at' = "idle" \/ at' \in Settling)
<1>1. CASE s = "restore"
    BY <1>1 DEF Step, Following, Finish, Course, Settling, life, TypeOK
<1>2. CASE s = "withdraw"
    BY <1>2 DEF Step, Following, Finish, Course, Settling, life, TypeOK
<1>3. CASE s = "revert"
    BY <1>3 DEF Step, Following, Finish, Course, Settling, life, TypeOK
<1> QED BY <1>1, <1>2, <1>3

LEMMA CourseInit == Init => Course
BY DEF Init, Course

LEMMA CourseStep == ASSUME TypeOK, Course, [Next]_vars PROVE Course'
<1>1. CASE Start \/ Reset \/ Leave
    BY <1>1 DEF Start, Reset, Leave, Begin, Idle, Free, life, doors, allowing, TypeOK, Course
<1>2. CASE Crash
    BY <1>2, LeftOffDoors DEF Crash, TypeOK, Course
<1>3. CASE Up \/ Activate
    BY <1>3 DEF Up, Activate, Begin, Free, Idle, doors, allowing, TypeOK, Course
<1>4. ASSUME NEW gated \in BOOLEAN, Open(gated) PROVE Course'
    BY <1>4 DEF Open, Begin, Free, Idle, life, doors, allowing, TypeOK, Course
<1>5. CASE RestoreLoad
    <2>1. CASE Dom(record) = {}
        BY <1>5, <2>1, StepCourse DEF RestoreLoad, doors, allowing
    <2>2. CASE Dom(record) # {}
        BY <1>5, <2>2 DEF RestoreLoad, doors, allowing, life, TypeOK, Course
    <2> QED BY <2>1, <2>2
<1>6. CASE RestoreSet
    <2>1. CASE at' = "forget" /\ UNCHANGED <<job, fine, last>>
        BY <1>6, <2>1 DEF RestoreSet, doors, allowing, life, TypeOK, Course
    <2>2. CASE Step("restore", FALSE)
        BY <1>6, <2>2, StepCourse DEF RestoreSet, doors, allowing
    <2> QED BY <1>6, <2>1, <2>2 DEF RestoreSet
<1>7. CASE RestoreForget
    BY <1>7, StepCourse DEF RestoreForget, doors, allowing
<1>8. CASE Allow \/ Reload
    <2>1. CASE Gate
        BY <2>1 DEF Gate, Finish, allowing, life, TypeOK, Course
    <2>2. ASSUME NEW a \in Adapter, AllowOne(a) PROVE Course'
        BY <2>2 DEF AllowOne, seq, life, TypeOK, Course
    <2>3. CASE AllowWrite
        BY <2>3 DEF AllowWrite, life, TypeOK, Course
    <2>4. CASE AllowFails
        BY <2>4, LeftOffDoors DEF AllowFails, Finish, life, TypeOK, Course
    <2>5. CASE Reload
        BY <2>5 DEF Reload, allowing, seq, life, TypeOK, Course
    <2> QED BY <1>8, <2>1, <2>2, <2>3, <2>4, <2>5 DEF Allow
<1>9. CASE DoctorFix
    BY <1>9 DEF DoctorFix, allowing, life, TypeOK, Course
<1>10. CASE Withdraw
    BY <1>10, StepCourse DEF Withdraw, allowing
<1>11. CASE Revert
    BY <1>11, StepCourse DEF Revert, doors, allowing
<1>12. CASE Row \/ DirectPlay
    BY <1>12 DEF Row, DirectPlay, Finish, doors, allowing, life, TypeOK, Course
<1>13. CASE Down
    BY <1>13 DEF Down, Finish, doors, allowing, TypeOK, Course
<1>14. CASE Suspend \/ Reapply
    BY <1>14 DEF Suspend, AskRoom, AskRead, AskEnds, AskLoad, AskSave, AskSet, Reapply, seq, doors, allowing, life, Course
<1>15. CASE Owner
    BY <1>15 DEF Owner, OwnerSets, OwnerRemoves, OwnerSetsDirectPlay, Reload, OperatorAllows,
        OperatorShuts, seq, doors, allowing, life, Course
<1>16. CASE UNCHANGED vars
    BY <1>16 DEF vars, seq, doors, allowing, life, Course
<1> QED BY <1>1, <1>2, <1>3, <1>4, <1>5, <1>6, <1>7, <1>8, <1>9, <1>10, <1>11, <1>12, <1>13,
    <1>14, <1>15, <1>16 DEF Next, Restore, Tweak

\* With nobody leaving over a suspension, no sequence that settles meets one.
LEMMA AskAloneInit == Init => AskAlone
BY DEF Init, AskAlone

\* A step that neither asks nor settles leaves AskAlone as it was.
LEMMA AskAloneKept ==
    ASSUME AskAlone, ask' = ask, at' = at \/ at' \notin Settling,
           (alive' /\ room' = "open") \/ UNCHANGED <<alive, room>> \/ Alone({})
    PROVE  AskAlone'
BY DEF AskAlone, Alone

\* The steps of a suspension that is under way leave the others out of it.
LEMMA AskAloneAsks ==
    ASSUME TypeOK, AskAlone, NEW k \in Asker, ask[k] # "no", UNCHANGED <<life, seq>>,
           NEW v, ask' = [ask EXCEPT ![k] = v]
    PROVE  AskAlone'
BY DEF AskAlone, Alone, life, seq, TypeOK

LEMMA AskAloneStep ==
    ASSUME "overlap" \notin Fault, TypeOK, Course, AskAlone, [Next]_vars PROVE AskAlone'
<1>1. CASE Start \/ Reset \/ Leave \/ Up \/ Activate
    <2>1. ask' = ask
        BY <1>1 DEF Start, Reset, Leave, Up, Activate, rules, asking
    <2>2. CASE Leave
        BY <2>1, <2>2, AskAloneKept DEF Leave, AskAlone, Alone
    <2>3. CASE Start \/ Reset \/ Up
        <3>1. Alone({})
            BY <2>3 DEF Start, Reset, Up, AskAlone, Alone, Course
        <3> QED BY <2>1, <3>1 DEF AskAlone, Alone
    <2>4. CASE Activate
        BY <2>1, <2>4, AskAloneKept DEF Activate, Begin, Settling
    <2> QED BY <1>1, <2>2, <2>3, <2>4
<1>2. CASE Crash
    BY <1>2 DEF Crash, AskAlone
<1>3. ASSUME NEW gated \in BOOLEAN, Open(gated) PROVE AskAlone'
    BY <1>3, AskAloneKept DEF Open, Begin, rules, asking, life, Settling
<1>4. CASE Suspend
    <2>1. PICK k \in Asker : AskRoom(k) \/ AskRead(k) \/ AskLoad(k) \/ AskSave(k) \/ AskSet(k)
        BY <1>4 DEF Suspend
    <2>2. CASE AskRoom(k)
        <3>1. at \notin Settling /\ alive /\ room = "open" /\ Alone({})
            BY <2>2 DEF AskRoom, Free, Idle, Course, Settling
        <3> QED BY <2>2, <3>1 DEF AskRoom, AskAlone, Alone, life, seq, TypeOK
    <2>3. CASE ~AskRoom(k)
        BY <2>1, <2>3, AskAloneAsks DEF AskRead, AskLoad, AskSave, AskSet, AskEnds
    <2> QED BY <2>2, <2>3
<1>5. CASE Restore \/ Withdraw \/ Revert \/ Down
    <2>1. at \in Settling
        BY <1>5 DEF Restore, RestoreLoad, RestoreSet, RestoreForget, Withdraw, Revert, Down,
            Settling
    <2>2. ask' = ask
        BY <1>5 DEF Restore, RestoreLoad, RestoreSet, RestoreForget, Withdraw, Revert, Down,
            rules, asking
    <2> QED BY <2>1, <2>2 DEF AskAlone
<1>6. CASE Allow \/ DoctorFix \/ Reload \/ Row \/ DirectPlay \/ Reapply
    <2>1. UNCHANGED <<ask, life>>
        BY <1>6 DEF Allow, Gate, AllowOne, AllowWrite, AllowFails, DoctorFix, Reload, Row,
            DirectPlay, Reapply, rules, asking
    <2>2. at' = at \/ at' \notin Settling
        BY <1>6 DEF Allow, Gate, AllowOne, AllowWrite, AllowFails, DoctorFix, Reload, Row,
            DirectPlay, Reapply, seq, Finish, Settling
    <2> QED BY <2>1, <2>2, AskAloneKept DEF life
<1>7. CASE Owner
    BY <1>7, AskAloneKept DEF Owner, OwnerSets, OwnerRemoves, OwnerSetsDirectPlay,
        OperatorAllows, OperatorShuts, rules, asking, seq, life
<1>8. CASE UNCHANGED vars
    BY <1>8, AskAloneKept DEF vars, rules, asking, seq, life
<1> QED BY <1>1, <1>2, <1>3, <1>4, <1>5, <1>6, <1>7, <1>8 DEF Next, Tweak

(***************************************************************************)
(* The rules.                                                              *)
(***************************************************************************)

LEMMA RulesKnownInit == Init => RulesKnown
BY DEF Init, RulesKnown, RuleKnown, AskKnows, Nothing, Dom

LEMMA StepForgets ==
    ASSUME NEW well \in BOOLEAN, Step("restore", well)
    PROVE  at' \notin {"restoring", "forget"}
BY DEF Step, Following, Finish

LEMMA RulesKnownStep ==
    ASSUME TypeOK, Course, AskAlone, RulesKnown, [Next]_vars PROVE RulesKnown'
<1>1. CASE Crash
    BY <1>1 DEF Crash, RulesKnown, RuleKnown, AskKnows, Nothing, TypeOK
<1>2. ASSUME NEW k \in Asker, AskRoom(k) \/ AskRead(k) \/ AskLoad(k) PROVE RulesKnown'
    <2>1. at \notin {"restoring", "forget"} /\ at' = at
        BY <1>2 DEF AskRoom, AskRead, AskLoad, seq, AskAlone, Settling, Free, Idle, Course
    <2>2. UNCHANGED <<rule, record, wish>>
        BY <1>2 DEF AskRoom, AskRead, AskLoad
    <2>3. \A j \in Asker \ {k} : UNCHANGED <<ask[j], fresh[j], seen[j]>>
        BY <1>2 DEF AskRoom, AskRead, AskLoad, AskEnds, TypeOK
    <2>4. \A r \in Rule : fresh'[k][r] \in {"none", fresh[k][r], rule[r]}
        BY <1>2 DEF AskRoom, AskRead, AskLoad, AskEnds, Nothing, TypeOK
    <2>5. AskKnows(k)'
        BY <1>2 DEF AskRoom, AskRead, AskLoad, AskEnds, RulesKnown, AskKnows, TypeOK
    <2>6. \A j \in Asker : AskKnows(j)'
        BY <2>2, <2>3, <2>5 DEF RulesKnown, AskKnows, Dom
    <2>7. \A r \in Rule : rule'[r] # "gone" => RuleKnown(r)'
        BY <2>2, <2>3, <2>4 DEF RulesKnown, RuleKnown
    <2> QED BY <2>1, <2>6, <2>7 DEF RulesKnown
<1>4. ASSUME NEW k \in Asker, AskSave(k) PROVE RulesKnown'
    <2>1. at \notin {"restoring", "forget"} /\ at' = at
        BY <1>4 DEF AskSave, seq, AskAlone, Settling
    <2>2. UNCHANGED <<rule, wish>> /\ ask[k] = "save"
        BY <1>4 DEF AskSave
    <2>3. \A j \in Asker \ {k} :
            ask[j] = "no" /\ fresh[j] = Nothing /\ UNCHANGED <<ask[j], fresh[j], seen[j]>>
        BY <1>4 DEF AskSave, AskEnds, AskAlone, Alone, RulesKnown, AskKnows, TypeOK
    <2>4. CASE record' = Merged(seen[k], fresh[k])
        <3>1. record' = Merged(record, fresh[k])
            BY <2>2, <2>4 DEF RulesKnown, AskKnows
        <3>2. CASE ask' = [ask EXCEPT ![k] = "set"] /\ UNCHANGED <<fresh, seen>>
            <4>1. \A r \in Rule : rule'[r] # "gone" => RuleKnown(r)'
                BY <2>2, <2>3, <3>1, <3>2 DEF Merged, RulesKnown, RuleKnown, Nothing, TypeOK
            <4>2. ask'[k] = "set" /\ Dom(fresh'[k]) \subseteq Dom(record')
                BY <3>1, <3>2 DEF Merged, Dom, TypeOK
            <4>3. \A j \in Asker : AskKnows(j)'
                BY <2>3, <3>2, <4>2 DEF AskKnows
            <4> QED BY <2>1, <4>1, <4>3 DEF RulesKnown
        <3>3. CASE record' = record /\ AskEnds(k)
            BY <2>1, <2>2, <2>3, <3>3 DEF AskEnds, RulesKnown, RuleKnown, AskKnows, Nothing, TypeOK
        <3> QED BY <1>4, <3>2, <3>3 DEF AskSave
    <2>5. CASE record' = record /\ AskEnds(k)
        <3>1. \A j \in Asker : fresh'[j] = Nothing /\ ask'[j] = "no"
            BY <2>3, <2>5 DEF AskEnds, TypeOK
        <3>2. \A r \in Rule : rule'[r] # "gone" => RuleKnown(r)'
            BY <2>2, <2>5, <3>1 DEF RulesKnown, RuleKnown, Nothing
        <3> QED BY <2>1, <3>1, <3>2 DEF RulesKnown, AskKnows
    <2> QED BY <1>4, <2>4, <2>5 DEF AskSave
<1>5. ASSUME NEW k \in Asker, AskSet(k) PROVE RulesKnown'
    <2>1. at \notin {"restoring", "forget"} /\ at' = at /\ ask[k] = "set"
        BY <1>5 DEF AskSet, seq, AskAlone, Settling
    <2>2. PICK R \in Touched(Dom(fresh[k])) : rule' = Set(R, [r \in Rule |-> "off"])
        BY <1>5 DEF AskSet
    <2>3. \A r \in R : record[r] # "none"
        BY <2>1, <2>2, TouchedIn DEF RulesKnown, AskKnows, Dom
    <2>4. UNCHANGED <<record, wish>> /\ \A j \in Asker : fresh'[j] = Nothing /\ ask'[j] = "no"
        BY <1>5, <2>1 DEF AskSet, AskEnds, AskAlone, Alone, RulesKnown, AskKnows, TypeOK
    <2>5. \A r \in Rule : rule'[r] # "gone" => rule[r] # "gone" /\ (record[r] = "none" => rule'[r] = rule[r])
        BY <2>2, <2>3 DEF Set, TypeOK
    <2>6. \A r \in Rule : rule'[r] # "gone" => RuleKnown(r)'
        BY <2>4, <2>5 DEF RulesKnown, RuleKnown, Nothing
    <2> QED BY <2>1, <2>4, <2>6 DEF RulesKnown, AskKnows
<1>6. CASE RestoreLoad
    BY <1>6, StepForgets DEF RestoreLoad, asking, RulesKnown, RuleKnown, AskKnows, RulesPaid, TypeOK
<1>7. CASE RestoreSet
    <2>1. PICK R \in Touched(Dom(back)) : RestoreSet /\ rule' = Set(R, back)
            /\ (R = Dom(back) \/ at' # "forget")
        BY <1>7, StepForgets DEF RestoreSet
    <2>2. back = record /\ UNCHANGED <<record, ask, fresh, seen, wish>>
        BY <2>1 DEF RestoreSet, asking, RulesKnown
    <2>3. \A r \in Rule : rule[r] = "gone" => rule'[r] = "gone"
        BY <2>1 DEF Set, TypeOK
    <2>4. \A r \in Rule : rule[r] # "gone" =>
            rule'[r] = (IF r \in R THEN record[r] ELSE rule[r])
        BY <2>1, <2>2 DEF Set, TypeOK
    <2>5. \A r \in R : record[r] # "none"
        BY <2>1, <2>2, TouchedIn DEF Dom
    <2>6. \A r \in Rule : rule'[r] # "gone" => rule[r] # "gone" /\ (r \in R => rule'[r] = wish[r])
                    /\ (record[r] = "none" => rule'[r] = wish[r])
        BY <2>3, <2>4, <2>5 DEF RulesKnown, RuleKnown
    <2>7. at' = "forget" => RulesPaid'
        <3> SUFFICES ASSUME at' = "forget", NEW r \in Rule, rule'[r] # "gone"
                     PROVE  rule'[r] = wish[r]
            BY <2>2 DEF RulesPaid
        <3>1. R = Dom(record)
            BY <2>1, <2>2
        <3> QED BY <2>6, <3>1 DEF Dom, TypeOK
    <2>8. at' \in {"restoring", "forget"} => back' = record'
        BY <2>1, <2>2, StepForgets DEF RestoreSet
    <2>9. \A r \in Rule : rule'[r] # "gone" => RuleKnown(r)'
        BY <2>2, <2>6 DEF RulesKnown, RuleKnown
    <2> QED BY <2>2, <2>7, <2>8, <2>9 DEF RulesKnown, AskKnows, Dom
<1>8. CASE RestoreForget
    <2>1. at' \notin {"restoring", "forget"} /\ UNCHANGED <<rule, ask, fresh, seen, wish>>
        BY <1>8, StepForgets DEF RestoreForget, asking
    <2>2. (\A k \in Asker : ask[k] = "no" /\ fresh[k] = Nothing) /\ RulesPaid
        BY <1>8 DEF RestoreForget, AskAlone, Settling, RulesKnown, AskKnows, TypeOK
    <2>3. record' = Nothing \/ record' = record
        BY <1>8 DEF RestoreForget
    <2>4. \A r \in Rule : record'[r] = "none" \/ record'[r] = record[r]
        BY <2>3 DEF Nothing
    <2> QED BY <2>1, <2>2, <2>4 DEF RulesKnown, RuleKnown, AskKnows, RulesPaid, Nothing, TypeOK
<1>9. ASSUME NEW r \in Rule, OwnerSets(r) \/ OwnerRemoves(r) PROVE RulesKnown'
    BY <1>9 DEF OwnerSets, OwnerRemoves, asking, seq, RulesKnown, RuleKnown, AskKnows, RulesPaid, TypeOK
<1>10. CASE UNCHANGED rules /\ Next /\ ~Restore /\ ~Suspend
    <2>1. at' \in {"restoring", "forget"} => at' = at
        BY <1>10 DEF Next, Start, Reset, Crash, Leave, Open, Up, Activate, Allow, Gate,
            AllowOne, AllowFails, LeftOff, AllowWrite, DoctorFix, Withdraw, Tweak, Row, DirectPlay, Revert, Down,
            Reapply, Owner, OwnerSets, OwnerRemoves, OwnerSetsDirectPlay, Reload, OperatorAllows,
            OperatorShuts, Begin, Step, Finish, Following, seq
    <2> QED BY <1>10, <2>1 DEF rules, asking, RulesKnown, RuleKnown, AskKnows, RulesPaid
<1>11. CASE UNCHANGED vars
    BY <1>11 DEF vars, rules, asking, seq, RulesKnown, RuleKnown, AskKnows, RulesPaid
<1> QED BY <1>1, <1>2, <1>4, <1>5, <1>6, <1>7, <1>8, <1>9, <1>10, <1>11, RulesAlone
    DEF Suspend, Restore

(***************************************************************************)
(* The doors.                                                              *)
(***************************************************************************)

\* What shuts was in the book, and what leaves the book is shut.
LEMMA WithdrawDoors ==
    ASSUME TypeOK, Withdraw
    PROVE  /\ ledger' \subseteq ledger /\ UNCHANGED <<asked, book, stray>>
           /\ \A a \in Adapter : door'[a] = door[a] \/ (a \in ledger /\ door'[a] = "shut")
           /\ \A a \in ledger \ ledger' : door'[a] = "shut"
<1>1. PICK C \in SUBSET ledger, S \in SUBSET ledger :
        /\ C \subseteq S
        /\ door' = [a \in Adapter |-> IF a \in S THEN "shut" ELSE door[a]]
        /\ ledger' = ledger \ C \/ ledger' = ledger
    BY DEF Withdraw
<1> QED BY <1>1 DEF Withdraw, allowing, TypeOK

\* A pass that was there before anybody asked is in nothing an opening reads or
\* writes, whatever fails or dies and whoever else opens doors.
THEOREM PassOfTheOwnerIsKept == Spec => OwnPassKept
<1> DEFINE Apart(a) == door[a] = "own" /\ a \notin ledger \cup asked \cup book
           Kept == \A a \in Adapter :
              door[a] = "own" /\ a \notin ledger \cup asked \cup book =>
                 \/ OperatorShuts(a)
                 \/ door'[a] = "own" /\ a \notin ledger' \cup asked' \cup book'
<1>1. ASSUME TypeOK, Next PROVE Kept
    <2> SUFFICES ASSUME NEW a \in Adapter, Apart(a), ~OperatorShuts(a) PROVE Apart(a)'
        OBVIOUS
    <2>1. CASE UNCHANGED doors
        BY <2>1 DEF doors, allowing
    <2>2. CASE Crash \/ AllowFails
        BY <1>1, <2>2, LeftOffDoors DEF Crash, AllowFails
    <2>3. CASE Gate \/ AllowWrite
        BY <2>3 DEF Gate, AllowWrite, Blocked, allowing
    <2>4. ASSUME NEW b \in Adapter, AllowOne(b) \/ OperatorAllows(b) \/ OperatorShuts(b)
          PROVE  Apart(a)'
        <3>1. b # a
            BY <2>4 DEF AllowOne, OperatorAllows, Blocked
        <3> QED BY <1>1, <2>4, <3>1 DEF AllowOne, OperatorAllows, OperatorShuts, allowing, TypeOK
    <2>5. CASE DoctorFix \/ Reload
        <3>1. door'[a] = door[a] /\ UNCHANGED <<asked, book>>
            BY <1>1, <2>5 DEF DoctorFix, Reload, Blocked, allowing, TypeOK
        <3>2. a \notin ledger'
            BY <2>5 DEF DoctorFix, Reload, Blocked
        <3> QED BY <3>1, <3>2
    <2>6. CASE Withdraw
        BY <1>1, <2>6, WithdrawDoors
    <2> QED BY <1>1, <2>1, <2>2, <2>3, <2>4, <2>5, <2>6, DoorsAlone DEF Allow
<1>2. TypeOK /\ [Next]_vars => [Kept]_vars
    BY <1>1
<1>3. Init => TypeOK
    BY TypeInit
<1>4. TypeOK /\ [Next]_vars => TypeOK'
    BY TypeStep
<1> QED BY <1>2, <1>3, <1>4, PTL DEF Spec, OwnPassKept

\* While nobody else opens doors, the book being written has the one there is.
LEMMA GrowingStep ==
    ASSUME "doctor" \notin Fault, TypeOK, Course, Growing, [Next]_vars PROVE Growing'
<1>1. CASE Gate
    BY <1>1 DEF Gate, Growing, Finish
<1>2. ASSUME NEW a \in Adapter, AllowOne(a) PROVE Growing'
    BY <1>2 DEF AllowOne, Growing, seq
<1>3. CASE AllowWrite \/ AllowFails \/ DoctorFix \/ Withdraw \/ Crash
    BY <1>3 DEF AllowWrite, AllowFails, DoctorFix, Withdraw, Crash, Step, Following, Finish, Growing
<1>4. ASSUME NEW a \in Adapter, OperatorAllows(a) \/ OperatorShuts(a) PROVE Growing'
    BY <1>4 DEF OperatorAllows, OperatorShuts, allowing, Growing, seq
<1>5. CASE Reload
    BY <1>5 DEF Reload, allowing, Growing, seq
<1>6. CASE UNCHANGED doors /\ Next /\ ~Allow /\ ~DoctorFix /\ ~Withdraw
    <2>1. at' = "allow" => at = "allow"
        BY <1>6 DEF Next, Start, Reset, Crash, Leave, Open, Up, Activate, Suspend, AskRoom,
            AskRead, AskLoad, AskSave, AskSet, Restore, RestoreLoad, RestoreSet, RestoreForget,
            Tweak, Row, DirectPlay, Revert, Down, Reapply, Reload, Owner, OwnerSets,
            OwnerRemoves, OwnerSetsDirectPlay, OperatorAllows, OperatorShuts, Begin, Step,
            Finish, Following, seq
    <2> QED BY <1>6, <2>1 DEF doors, allowing, Growing
<1>7. CASE UNCHANGED vars
    BY <1>7 DEF vars, doors, allowing, seq, Growing
<1> QED BY <1>1, <1>2, <1>3, <1>4, <1>5, <1>6, <1>7, DoorsAlone DEF Allow

\* A line leaves the book only once its door is shut, whatever fails.
THEOREM BookedDoorIsShut ==
    ASSUME "doctor" \notin Fault PROVE Spec => BookedTillShut
<1> DEFINE Shut == \A a \in ledger \ ledger' : door'[a] = "shut"
<1>1. Init => Growing
    BY DEF Init, Growing
<1>2. TypeOK /\ Growing /\ Next => Shut
    <2> SUFFICES ASSUME TypeOK, Growing, Next, NEW a \in ledger, a \notin ledger'
                 PROVE  door'[a] = "shut"
        OBVIOUS
    <2>1. ~DoctorFix /\ ~Reload /\ ~Crash /\ ~Allow
        BY DEF Reload, DoctorFix, Crash, Allow, Gate, AllowOne, AllowFails, AllowWrite, Growing
    <2>2. ~(\E b \in Adapter : OperatorAllows(b) \/ OperatorShuts(b))
        BY DEF Reload, OperatorAllows, OperatorShuts
    <2>3. Withdraw
        BY <2>1, <2>2, DoorsAlone DEF doors, allowing
    <2> QED BY <2>3, WithdrawDoors
<1>3. TypeOK /\ Course /\ Growing /\ [Next]_vars => [Shut]_vars
    BY <1>2
<1>4. TypeOK /\ Course /\ Growing /\ [Next]_vars => (TypeOK /\ Course /\ Growing)'
    BY TypeStep, CourseStep, GrowingStep
<1> QED BY <1>1, <1>3, <1>4, TypeInit, CourseInit, PTL DEF Spec, BookedTillShut

(***************************************************************************)
(* The tweaks.                                                             *)
(***************************************************************************)

LEMMA TweaksKnownStep == ASSUME TypeOK, TweaksKnown, [Next]_vars PROVE TweaksKnown'
<1>1. CASE UNCHANGED tweaks
    BY <1>1 DEF tweaks, TweaksKnown
<1>2. CASE Row \/ Reapply
    BY <1>2 DEF Row, Reapply, TweaksKnown
<1>3. CASE DirectPlay
    BY <1>3 DEF DirectPlay, SetDirectPlay, TweaksKnown, TypeOK
<1>4. CASE Revert
    <2>1. PICK put \in Touched({"row", "dp"}) : Undone(put) /\ (Struck(put) \/ UNCHANGED <<added, was>>)
        BY <1>4 DEF Revert
    <2>2. dpWish' = dpWish
        BY <1>4 DEF Revert
    <2>3. was # "none" => (was = "on") = dpWish
        BY DEF TweaksKnown, TypeOK
    <2>4. (was = "none" => dp = dpWish) /\ dp' \in {dp, dpWish}
        BY <2>1, <2>3 DEF Undone, TweaksKnown
    <2>5. was' = was => TweaksKnown'
        BY <2>1, <2>2, <2>3, <2>4 DEF Undone, TweaksKnown, TypeOK
    <2>6. was' # was => was' = "none" /\ dp' = dpWish
        BY <2>1, <2>3 DEF Undone, Struck
    <2> QED BY <2>2, <2>5, <2>6 DEF TweaksKnown
<1>5. CASE OwnerSetsDirectPlay
    BY <1>5 DEF OwnerSetsDirectPlay, TweaksKnown, TypeOK
<1>6. CASE UNCHANGED vars
    BY <1>6 DEF vars, tweaks, TweaksKnown
<1> QED BY <1>1, <1>2, <1>3, <1>4, <1>5, <1>6, TweaksAlone

\* With nobody leaving over a suspension, a death at any point, whatever fails,
\* leaves on disk how the owner had what is otherwise now.
THEOREM OriginalIsKnown ==
    ASSUME "overlap" \notin Fault PROVE Spec => []OriginalKnown
<1> DEFINE Inv == TypeOK /\ Course /\ AskAlone /\ RulesKnown /\ TweaksKnown
<1>1. Init => Inv
    <2>1. Init => TweaksKnown
        BY DEF Init, TweaksKnown
    <2> QED BY <2>1, TypeInit, CourseInit, AskAloneInit, RulesKnownInit
<1>2. Inv /\ [Next]_vars => Inv'
    BY TypeStep, CourseStep, AskAloneStep, RulesKnownStep, TweaksKnownStep
<1>3. Inv => OriginalKnown
    <2> SUFFICES ASSUME Inv PROVE OriginalKnown
        OBVIOUS
    <2>1. \A r \in Rule : rule[r] \notin {"gone", wish[r]} => record[r] = wish[r]
        BY DEF RulesKnown, RuleKnown
    <2>2. dp # dpWish => was = IF dpWish THEN "on" ELSE "off"
        BY DEF TweaksKnown
    <2> QED BY <2>1, <2>2 DEF OriginalKnown
<1> QED BY <1>1, <1>2, <1>3, PTL DEF Spec

(***************************************************************************)
(* What a sequence that goes well has given back.                          *)
(***************************************************************************)

\* A door that is opened is in a book, or its opening was left before that, if
\* nobody else opens doors meanwhile.
LEMMA DoorsBookedStep ==
    ASSUME "doctor" \notin Fault, TypeOK, Course, Growing, DoorsBooked, [Next]_vars
    PROVE  DoorsBooked'
<1>1. CASE Crash \/ AllowFails
    <2>1. ledger' = ledger /\ LeftOff
        BY <1>1 DEF Crash, AllowFails
    <2> QED BY <2>1, LeftOffDoors DEF DoorsBooked
<1>2. CASE Gate \/ AllowWrite
    BY <1>2 DEF Gate, AllowWrite, allowing, Course, Growing, DoorsBooked
<1>3. ASSUME NEW a \in Adapter, AllowOne(a) \/ OperatorAllows(a) \/ OperatorShuts(a)
      PROVE  DoorsBooked'
    BY <1>3 DEF AllowOne, OperatorAllows, OperatorShuts, allowing, DoorsBooked, TypeOK
<1>4. CASE DoctorFix \/ Reload
    BY <1>4 DEF DoctorFix, Reload, Blocked, allowing, DoorsBooked, TypeOK
<1>5. CASE Withdraw
    BY <1>5, WithdrawDoors DEF DoorsBooked
<1>6. CASE UNCHANGED doors
    BY <1>6 DEF doors, allowing, DoorsBooked
<1>7. CASE UNCHANGED vars
    BY <1>7 DEF vars, doors, allowing, DoorsBooked
<1> QED BY <1>1, <1>2, <1>3, <1>4, <1>5, <1>6, <1>7, DoorsAlone DEF Allow

LEMMA RowBookedStep ==
    ASSUME TypeOK, RowBooked, [Next]_vars PROVE RowBooked'
<1>1. CASE UNCHANGED tweaks
    BY <1>1 DEF tweaks, RowBooked
<1>2. CASE Row \/ Reapply
    BY <1>2 DEF Row, Reapply, SetPrefixPolicy, RowBooked, TypeOK
<1>3. CASE DirectPlay \/ OwnerSetsDirectPlay
    <2>1. UNCHANGED <<row, added, loose>>
        BY <1>3 DEF DirectPlay, OwnerSetsDirectPlay
    <2> QED BY <2>1 DEF RowBooked
<1>4. CASE Revert
    <2>1. PICK put \in Touched({"row", "dp"}) : Undone(put) /\ (Struck(put) \/ UNCHANGED <<added, was>>)
        BY <1>4 DEF Revert
    <2>2. loose' = loose
        BY <1>4 DEF Revert
    <2>3. row' = row \/ (added /\ row' = FALSE)
        BY <2>1 DEF Undone
    <2>4. added' = added \/ added' = FALSE
        BY <2>1, <1>4 DEF Struck, TypeOK
    <2>5. added' # added => row' = FALSE
        BY <2>1 DEF Undone, Struck, TypeOK
    <2> QED BY <2>2, <2>3, <2>4, <2>5 DEF RowBooked, TypeOK
<1>5. CASE UNCHANGED vars
    BY <1>5 DEF vars, tweaks, RowBooked
<1> QED BY <1>1, <1>2, <1>3, <1>4, <1>5, TweaksAlone

SomeSets == \E k \in Asker : AskSet(k)

\* Every rule stays paid but for what puts rules off or back.
LEMMA RulesStayPaid ==
    ASSUME TypeOK, RulesPaid, [Next]_vars, ~SomeSets, ~RestoreSet PROVE RulesPaid'
<1>1. CASE UNCHANGED rules
    BY <1>1 DEF rules, asking, RulesPaid
<1>2. CASE Crash \/ Suspend \/ Restore
    BY <1>2 DEF Crash, Suspend, SomeSets, AskRoom, AskRead, AskLoad, AskSave, Restore,
        RestoreLoad, RestoreForget, RulesPaid
<1>3. ASSUME NEW r \in Rule, OwnerSets(r) \/ OwnerRemoves(r) PROVE RulesPaid'
    <2>1. \A q \in Rule : UNCHANGED <<rule[q], wish[q]>> \/ rule'[q] \in {"gone", wish'[q]}
        BY <1>3 DEF OwnerSets, OwnerRemoves, TypeOK
    <2> QED BY <2>1 DEF RulesPaid
<1>4. CASE UNCHANGED vars
    BY <1>4 DEF vars, rules, asking, RulesPaid
<1> QED BY <1>1, <1>2, <1>3, <1>4, RulesAlone

LEMMA RulesDoneStep ==
    ASSUME TypeOK, Course, AskAlone, RulesKnown, RulesDone, [Next]_vars PROVE RulesDone'
<1> DEFINE Past == job # "none" /\ fine /\ at \in {"withdraw", "revert", "down"}
           Over == last \in {"start", "leave", "reset"}
<1>1. CASE RestoreLoad
    <2>1. CASE Dom(record) = {}
        <3>1. RulesPaid
            BY <2>1 DEF Dom, RulesKnown, RuleKnown, RulesPaid
        <3> QED BY <1>1, <3>1 DEF RestoreLoad, RulesDone, RulesPaid
    <2>2. CASE Dom(record) # {}
        BY <1>1, <2>2 DEF RestoreLoad, Course, RulesDone
    <2> QED BY <2>1, <2>2
<1>2. CASE RestoreSet
    BY <1>2 DEF RestoreSet, Step, Following, Finish, Course, RulesDone
<1>3. CASE RestoreForget
    BY <1>3 DEF RestoreForget, RulesKnown, RulesDone, RulesPaid
<1>4. CASE SomeSets
    <2>1. ~Past' /\ ~Over'
        BY <1>4 DEF SomeSets, AskSet, seq, AskAlone, Settling, Course
    <2> QED BY <2>1 DEF RulesDone
<1>5. ASSUME ~Restore, ~SomeSets, Past' \/ Over' PROVE RulesPaid'
    <2>1. Past \/ Over
        <3>1. CASE UNCHANGED seq
            BY <1>5, <3>1 DEF seq
        <3>2. CASE Start \/ Reset \/ Crash \/ Leave \/ Up \/ Activate
            BY <1>5, <3>2 DEF Start, Reset, Crash, Leave, Up, Activate, Begin
        <3>3. CASE \E gated \in BOOLEAN : Open(gated)
            BY <1>5, <3>3 DEF Open, Begin
        <3>4. CASE Allow \/ DoctorFix
            BY <1>5, <3>4 DEF Allow, Gate, AllowOne, AllowFails, LeftOff, AllowWrite, DoctorFix, Finish, seq
        <3>5. CASE Withdraw
            BY <1>5, <3>5 DEF Withdraw, Step, Following, Finish, Course
        <3>6. CASE Revert
            BY <1>5, <3>6 DEF Revert, Step, Following, Finish, Course
        <3>7. CASE Row \/ DirectPlay
            BY <1>5, <3>7 DEF Row, DirectPlay, Finish, Course
        <3>8. CASE Down
            BY <1>5, <3>8 DEF Down, Finish, Course
        <3>9. CASE UNCHANGED vars
            BY <1>5, <3>9 DEF vars, seq
        <3> QED BY <1>5, <3>1, <3>2, <3>3, <3>4, <3>5, <3>6, <3>7, <3>8, <3>9, SeqAlone
    <2>2. RulesPaid
        BY <2>1 DEF RulesDone
    <2> QED BY <1>5, <2>2, RulesStayPaid DEF Restore
<1> QED BY <1>1, <1>2, <1>3, <1>4, <1>5 DEF Restore, RulesDone

LEMMA DoorsStayPaid ==
    ASSUME TypeOK, Course, DoorsPaid, [Next]_vars, ~DoctorFix, at # "allow" PROVE DoorsPaid'
<1>1. CASE UNCHANGED doors
    BY <1>1 DEF doors, allowing, DoorsPaid
<1>2. CASE Crash
    BY <1>2, LeftOffDoors DEF Crash, Course, DoorsPaid
<1>3. CASE Gate
    BY <1>3 DEF Gate, DoorsPaid
<1>4. CASE AllowWrite \/ AllowFails \/ \E a \in Adapter : AllowOne(a)
    BY <1>4 DEF AllowWrite, AllowFails, AllowOne
<1>5. CASE Withdraw
    BY <1>5, WithdrawDoors DEF DoorsPaid
<1>6. ASSUME NEW a \in Adapter, OperatorAllows(a) \/ OperatorShuts(a) PROVE DoorsPaid'
    BY <1>6 DEF OperatorAllows, OperatorShuts, DoorsPaid, TypeOK
<1>7. CASE Reload
    BY <1>7 DEF Reload, DoorsPaid, TypeOK
<1>8. CASE UNCHANGED vars
    BY <1>8 DEF vars, doors, allowing, DoorsPaid
<1> QED BY <1>1, <1>2, <1>3, <1>4, <1>5, <1>6, <1>7, <1>8, DoorsAlone DEF Allow

LEMMA DoorsDoneStep ==
    ASSUME TypeOK, Course, DoorsBooked, DoorsDone, [Next]_vars PROVE DoorsDone'
<1> DEFINE Past == job \in {"start", "leave"} /\ fine /\ at \in {"revert", "down"}
           Over == last \in {"start", "leave"}
<1>1. CASE Withdraw
    <2>1. PICK S \in SUBSET ledger :
            /\ door' = [a \in Adapter |-> IF a \in S THEN "shut" ELSE door[a]]
            /\ \E well \in BOOLEAN : Step("withdraw", well) /\ (well => S = ledger)
        BY <1>1 DEF Withdraw
    <2>2. Past' \/ Over' => S = ledger
        BY <1>1, <2>1 DEF Withdraw, Step, Following, Finish, Course
    <2>3. book = {} /\ stray' = stray
        BY <1>1 DEF Withdraw, Course
    <2>4. S = ledger => DoorsPaid'
        BY <2>1, <2>3 DEF DoorsBooked, DoorsPaid, TypeOK
    <2> QED BY <2>2, <2>4 DEF DoorsDone
<1>2. ASSUME ~Withdraw, Past' \/ Over' PROVE DoorsPaid'
    <2>1. (Past \/ Over) /\ at # "allow" /\ ~DoctorFix
        <3>1. CASE UNCHANGED seq
            BY <1>2, <3>1 DEF seq, Course, DoctorFix
        <3>2. CASE Start \/ Reset \/ Crash \/ Leave \/ Up \/ Activate
            BY <1>2, <3>2 DEF Start, Reset, Crash, Leave, Up, Activate, Begin, Course, DoctorFix,
                Row, DirectPlay
        <3>3. CASE \E gated \in BOOLEAN : Open(gated)
            BY <1>2, <3>3 DEF Open, Begin
        <3>4. CASE Allow \/ DoctorFix
            BY <1>2, <3>4 DEF Allow, Gate, AllowOne, AllowFails, LeftOff, AllowWrite, DoctorFix, Finish, seq, Course
        <3>5. CASE Restore
            BY <1>2, <3>5 DEF Restore, RestoreLoad, RestoreSet, RestoreForget, Step, Following,
                Finish, Course
        <3>6. CASE Revert
            BY <1>2, <3>6 DEF Revert, DoctorFix, Step, Following, Finish, Course
        <3>7. CASE Row \/ DirectPlay
            BY <1>2, <3>7 DEF Row, DirectPlay, Finish, Course
        <3>8. CASE Down
            BY <1>2, <3>8 DEF Down, DoctorFix, Finish, Course
        <3>9. CASE UNCHANGED vars
            BY <1>2, <3>9 DEF vars, seq, Course, DoctorFix
        <3> QED BY <1>2, <3>1, <3>2, <3>3, <3>4, <3>5, <3>6, <3>7, <3>8, <3>9, SeqAlone
    <2>2. DoorsPaid
        BY <2>1 DEF DoorsDone
    <2> QED BY <2>1, <2>2, DoorsStayPaid
<1> QED BY <1>1, <1>2 DEF DoorsDone

LEMMA TweaksStayPaid ==
    ASSUME TypeOK, Course, AskAlone, TweaksPaid, [Next]_vars, "overlap" \notin Fault,
           at \notin {"revert", "row", "directplay"}, room = "open" => at = "down"
    PROVE  TweaksPaid'
<1>1. CASE Reapply
    BY <1>1 DEF Reapply, Free, Idle, Course
<1>2. CASE OwnerSetsDirectPlay
    BY <1>2 DEF OwnerSetsDirectPlay, TweaksPaid, TypeOK
<1>3. CASE UNCHANGED tweaks
    BY <1>3 DEF tweaks, TweaksPaid
<1> QED BY <1>1, <1>2, <1>3, TweaksAlone DEF vars, Row, DirectPlay, Revert

LEMMA TweaksDoneStep ==
    ASSUME "overlap" \notin Fault, TypeOK, Course, AskAlone, TweaksKnown, RowBooked,
           TweaksDone, [Next]_vars
    PROVE  TweaksDone'
<1> DEFINE Past == fine /\ at = "down"
           Over == last \in {"leave", "reset"}
<1>1. CASE Revert
    <2>1. PICK put \in Touched({"row", "dp"}) : Undone(put)
            /\ \E well \in BOOLEAN : Step("revert", well) /\ (well => put = {"row", "dp"})
        BY <1>1 DEF Revert
    <2>2. Past' \/ Over' => put = {"row", "dp"}
        BY <1>1, <2>1 DEF Revert, Step, Following, Finish, Course
    <2>3. put = {"row", "dp"} => (row' => loose) /\ dp' = dpWish
        BY <2>1 DEF Undone, RowBooked, TweaksKnown, TypeOK
    <2> QED BY <1>1, <2>2, <2>3 DEF Revert, TweaksDone, TweaksPaid
<1>2. ASSUME ~Revert, Past' \/ Over' PROVE TweaksPaid'
    <2>1. (Past \/ Over) /\ ~Row /\ ~DirectPlay
        <3>1. CASE UNCHANGED seq
            BY <1>2, <3>1 DEF seq, Course, Row, DirectPlay
        <3>2. CASE Start \/ Reset \/ Crash \/ Leave \/ Up \/ Activate
            BY <1>2, <3>2 DEF Start, Reset, Crash, Leave, Up, Activate, Begin, Course, DoctorFix,
                Row, DirectPlay
        <3>3. CASE \E gated \in BOOLEAN : Open(gated)
            BY <1>2, <3>3 DEF Open, Begin
        <3>4. CASE Allow \/ DoctorFix
            BY <1>2, <3>4 DEF Allow, Gate, AllowOne, AllowFails, LeftOff, AllowWrite, DoctorFix, Finish, seq, Course
        <3>5. CASE Restore
            BY <1>2, <3>5 DEF Restore, RestoreLoad, RestoreSet, RestoreForget, Step, Following,
                Finish, Course
        <3>6. CASE Withdraw
            BY <1>2, <3>6 DEF Withdraw, Step, Following, Finish, Course
        <3>7. CASE Row \/ DirectPlay
            BY <1>2, <3>7 DEF Row, DirectPlay, Finish, Course
        <3>8. CASE Down
            BY <1>2, <3>8 DEF Down, Row, DirectPlay, Finish, Course
        <3>9. CASE UNCHANGED vars
            BY <1>2, <3>9 DEF vars, seq, Course, Row, DirectPlay
        <3> QED BY <1>2, <3>1, <3>2, <3>3, <3>4, <3>5, <3>6, <3>7, <3>8, <3>9, SeqAlone
    <2>2. TweaksPaid /\ at \notin {"revert", "row", "directplay"} /\ (room = "open" => at = "down")
        BY <2>1 DEF TweaksDone, Course, TypeOK
    <2> QED BY <2>2, TweaksStayPaid
<1> QED BY <1>1, <1>2 DEF TweaksDone

\* When no step of theirs fails, a start, an exit and a reset leave nothing owed
\* of what they answer for, whoever died or failed before and at whatever step,
\* but what the opening itself left without a line.
THEOREM SettlementsPay ==
    ASSUME Fault \subseteq {"tool"} PROVE Spec => []SettledIsPaid
<1> DEFINE Known == TypeOK /\ Course /\ AskAlone /\ RulesKnown /\ TweaksKnown /\ RowBooked
                    /\ Growing /\ DoorsBooked
           Done == RulesDone /\ DoorsDone /\ TweaksDone
<1>0. "overlap" \notin Fault /\ "doctor" \notin Fault
    OBVIOUS
<1>1. Init => Known /\ Done
    <2>1. Init => TweaksKnown /\ RowBooked /\ Growing /\ DoorsBooked /\ Done
        BY DEF Init, TweaksKnown, RowBooked, Growing, DoorsBooked, RulesDone, DoorsDone,
            TweaksDone
    <2> QED BY <2>1, TypeInit, CourseInit, AskAloneInit, RulesKnownInit
<1>2. Known /\ [Next]_vars => Known'
    BY <1>0, TypeStep, CourseStep, AskAloneStep, RulesKnownStep, TweaksKnownStep, RowBookedStep,
       GrowingStep, DoorsBookedStep
<1>3. Known /\ Done /\ [Next]_vars => Done'
    BY <1>0, RulesDoneStep, DoorsDoneStep, TweaksDoneStep
<1>4. Done => SettledIsPaid
    BY DEF RulesDone, DoorsDone, TweaksDone, SettledIsPaid
<1> QED BY <1>1, <1>2, <1>3, <1>4, PTL DEF Spec
=============================================================================
