------------------------------- MODULE Debts --------------------------------
(***************************************************************************)
(* What Kanpachi touches of the machine that is not its own and outlives   *)
(* it, and the three books it keeps to give it back: the foreign firewall  *)
(* rules it disables (suspended-rules.json, netfw), the doors it opens in  *)
(* the firewall of another manager (foreign-allows.json, nftpermits), and  *)
(* the row of the prefix policy and the feature of Windows a game asks for *)
(* (applied-tweaks.json, netcfg).                                          *)
(*                                                                         *)
(* The start of the service, the opening of a room, its teardown and the   *)
(* reset without a daemon are each a sequence of steps; the first three    *)
(* run with the session's lock.  Suspending rules and putting the adapter  *)
(* back after a network event only read the session under it.  A daemon    *)
(* may die between any two steps, and what is on disk and in the system    *)
(* stays.  What the owner of the machine sets is kept beside, as what has  *)
(* to be given back.                                                       *)
(*                                                                         *)
(* `stray' and `loose' are no state of the code: they remember which door  *)
(* or row was left without its line, by a step that failed or died between *)
(* the change and the writing of its book.                                 *)
(*                                                                         *)
(* A door is one fact of the machine: of firewalld it is half open once it *)
(* is in the configuration and not yet in force.  A door that a close that *)
(* fails leaves open till somebody reloads is open, and whoever reloads    *)
(* shuts it.  Metric, MTU and routes die with the adapter and are left out.*)
(***************************************************************************)

CONSTANTS
    Rule,       \* foreign rules of the Windows firewall
    Adapter,    \* the adapters of the room and of the lobby
    Asker,      \* conversations that may ask to suspend rules
    Fault       \* a subset of FaultKinds

(***************************************************************************)
(* "tool": a command of the system, the store of rules or a write of a     *)
(* book fails.  "overlap": work that had let go of the session's lock goes *)
(* on while a room is left, or while more of the same kind is done.        *)
(* "doctor": it opens doors while a room is opening others.                *)
(***************************************************************************)
FaultKinds == {"tool", "overlap", "doctor"}

ASSUME FaultAssumption == Fault \subseteq FaultKinds

VARIABLES
    system,                  \* "windows" or "linux": never changes
    alive, room, game,       \* the daemon, its session, a game with tweaks
    job, at, fine, last,     \* the sequence under way, its step, how it goes,
                             \* and how the one before it ended
    rule, record, back,      \* the rules, suspended-rules.json, what
                             \* RestoreForeign read of it
    ask, fresh, seen,        \* each SuspendForeign: where it is, the rules and
                             \* the record it read
    door, ledger,            \* the doors, foreign-allows.json
    asked, book,             \* AllowBlocked's: what it was told, its book
    stray,                   \* doors an opening left with no line
    row, added,              \* the row of the prefix policy, PrefixPolicyAdded
    loose,                   \* whether the row was left with no line
    dp, was,                 \* DirectPlay, DirectPlayWas
    wish, dpWish             \* how the owner of the machine wants them

life  == <<alive, room, game>>
seq   == <<job, at, fine, last>>
asking == <<ask, fresh, seen>>
rules == <<rule, record, back, asking, wish>>
allowing == <<asked, book>>
doors == <<door, ledger, allowing, stray>>
tweaks == <<row, added, loose, dp, was, dpWish>>
vars  == <<system, life, seq, rules, doors, tweaks>>
-----------------------------------------------------------------------------
Windows == system = "windows"
Linux == system = "linux"

Nothing == [r \in Rule |-> "none"]
Dom(f) == {r \in Rule : f[r] # "none"}

Init ==
    /\ system \in {"windows", "linux"}
    /\ alive = FALSE /\ room = "none" /\ game = FALSE
    /\ job = "none" /\ at = "idle" /\ fine = TRUE /\ last = "none"
    /\ rule \in [Rule -> IF Windows THEN {"on", "off"} ELSE {"gone"}]
    /\ wish = rule /\ record = Nothing /\ back = Nothing
    /\ ask = [k \in Asker |-> "no"]
    /\ fresh = [k \in Asker |-> Nothing] /\ seen = fresh
    /\ door \in [Adapter -> IF Linux THEN {"shut", "own"} ELSE {"own"}]
    /\ ledger = {} /\ asked = {} /\ book = {} /\ stray = {}
    /\ row = FALSE /\ added = FALSE /\ loose = FALSE
    /\ dp \in IF Windows THEN BOOLEAN ELSE {FALSE}
    /\ dpWish = dp /\ was = "none"
-----------------------------------------------------------------------------
Idle == job = "none"
Free == alive /\ Idle           \* the session's lock can be had

Begin(j, s) == job' = j /\ at' = s /\ fine' = TRUE /\ last' = "none"
Finish(j, well) ==
    /\ job' = "none" /\ at' = "idle" /\ fine' = TRUE
    /\ last' = IF well THEN j ELSE "failed"

\* The doors are thought to close with the room only.
Bug_Following(s) ==
    CASE s = "restore"  -> IF job = "leave" THEN "withdraw"
                           ELSE IF job = "reset" THEN "revert" ELSE "end"
      [] s = "withdraw" -> "revert"
      [] s = "revert"   -> IF job = "reset" THEN "end" ELSE "down"

\* The step after s.  A failure is logged and the sequence goes on.
Following(s) ==
    CASE s = "restore"  -> IF job = "reset" THEN "revert" ELSE "withdraw"
      [] s = "withdraw" -> IF job = "start" THEN "end" ELSE "revert"
      [] s = "revert"   -> IF job = "reset" THEN "end" ELSE "down"

Step(s, well) ==
    IF Following(s) = "end"
    THEN Finish(job, fine /\ well)
    ELSE /\ at' = Following(s) /\ fine' = (fine /\ well)
         /\ UNCHANGED <<job, last>>

\* NewSession.  Purging what was Kanpachi's own comes first and is fatal, and
\* then there was no start.
Start ==
    /\ ~alive /\ Idle
    /\ alive' = TRUE
    /\ Begin("start", "restore")
    /\ UNCHANGED <<system, room, game, rules, doors, tweaks>>

\* Reset, with no daemon.
Reset ==
    /\ ~alive /\ Idle
    /\ Begin("reset", "restore")
    /\ UNCHANGED <<system, life, rules, doors, tweaks>>

\* The other firewall does not let these in.
Blocked == {a \in Adapter : door[a] \in {"shut", "half"}}

\* A pass of the operator's own stays one when it is asked for again.
Opened(a) == IF door[a] = "own" THEN "own" ELSE "ours"

\* AllowBlocked is left before its book is written, at one of its opens or
\* after it.  firewalld's is two commands, and what the first of them did stays.
LeftOff ==
    /\ door' \in {door} \cup
         {[door EXCEPT ![a] = d] : a \in Blocked \cap (asked \ book), d \in {"half", "ours"}}
    /\ stray' = stray \cup
         {a \in (asked \cup book) \ ledger : door'[a] \in {"half", "ours"}}
    /\ asked' = {} /\ book' = {}

\* The process that runs the sequence dies, and who was suspending with it.
Crash ==
    /\ alive \/ job = "reset"
    /\ alive' = FALSE /\ room' = "none" /\ game' = FALSE
    /\ job' = "none" /\ at' = "idle" /\ fine' = TRUE /\ last' = "failed"
    /\ ask' = [k \in Asker |-> "no"] /\ back' = Nothing
    /\ fresh' = [k \in Asker |-> Nothing] /\ seen' = [k \in Asker |-> Nothing]
    /\ LeftOff
    /\ UNCHANGED <<system, rule, record, wish, ledger, tweaks>>

\* Nobody is suspending but who.
Alone(who) == \A k \in Asker \ who : ask[k] = "no"

\* One of the exits of a room, whoever asks for it.
Leave ==
    /\ Free /\ room = "open"
    /\ Alone({}) \/ "overlap" \in Fault
    /\ Begin("leave", "restore")
    /\ UNCHANGED <<system, life, rules, doors, tweaks>>

\* CreateRoom and JoinRoom, once what was in the way is gone.  Going back by
\* itself (ResumeRoom, Rejoin) does not look at the other firewall.
Open(gated) ==
    /\ Free /\ room = "none"
    /\ Begin("open", IF gated THEN "gate" ELSE "up")
    /\ UNCHANGED <<system, life, rules, doors, tweaks>>
-----------------------------------------------------------------------------
\* SuspendForeignRules.  Whether there is a room is asked with the lock, and
\* the rest is done without it, and with none of its own.
AskRoom(k) ==
    /\ Windows /\ Free /\ room = "open" /\ ask[k] = "no"
    /\ Alone({}) \/ "overlap" \in Fault
    /\ ask' = [ask EXCEPT ![k] = "read"]
    /\ UNCHANGED <<system, life, seq, rule, record, back, fresh, seen, wish,
                   doors, tweaks>>

\* The live rules.  One that is not there aborts it with nothing written.
AskRead(k) ==
    /\ ask[k] = "read"
    /\ \/ \E R \in SUBSET Rule \ {{}} :
            /\ \A r \in R : rule[r] # "gone"
            /\ fresh' = [fresh EXCEPT ![k] =
                 [r \in Rule |-> IF r \in R THEN rule[r] ELSE "none"]]
            /\ ask' = [ask EXCEPT ![k] = "load"]
       \/ /\ "tool" \in Fault \/ \E r \in Rule : rule[r] = "gone"
          /\ ask' = [ask EXCEPT ![k] = "no"] /\ fresh' = fresh
    /\ UNCHANGED <<system, life, seq, rule, record, back, seen, wish, doors,
                   tweaks>>

\* It ends, and what it had read goes with it.
AskEnds(k) ==
    /\ ask' = [ask EXCEPT ![k] = "no"]
    /\ fresh' = [fresh EXCEPT ![k] = Nothing]
    /\ seen' = [seen EXCEPT ![k] = Nothing]

AskLoad(k) ==
    /\ ask[k] = "load"
    /\ \/ /\ ask' = [ask EXCEPT ![k] = "save"]
          /\ seen' = [seen EXCEPT ![k] = record] /\ fresh' = fresh
       \/ "tool" \in Fault /\ AskEnds(k)
    /\ UNCHANGED <<system, life, seq, rule, record, back, wish, doors, tweaks>>

\* The newer line wins: what a rule already suspended looks like.
Bug_Merged(existing, new) ==
    [r \in Rule |-> IF new[r] # "none" THEN new[r] ELSE existing[r]]

\* mergeSuspended: the older line wins.
Merged(existing, new) ==
    [r \in Rule |-> IF existing[r] # "none" THEN existing[r] ELSE new[r]]

AskSave(k) ==
    /\ ask[k] = "save"
    /\ \/ /\ record' = Merged(seen[k], fresh[k])
          /\ ask' = [ask EXCEPT ![k] = "set"] /\ UNCHANGED <<fresh, seen>>
       \/ "tool" \in Fault /\ record' = record /\ AskEnds(k)
    /\ UNCHANGED <<system, life, seq, rule, back, wish, doors, tweaks>>

\* setEnabled, rule by rule: it may stop halfway, and skips what is gone.
Set(R, value) == [r \in Rule |->
    IF r \in R /\ rule[r] # "gone" THEN value[r] ELSE rule[r]]
Touched(all) == {all} \cup IF "tool" \in Fault THEN SUBSET all ELSE {}

AskSet(k) ==
    /\ ask[k] = "set"
    /\ \E R \in Touched(Dom(fresh[k])) :
         rule' = Set(R, [r \in Rule |-> "off"])
    /\ AskEnds(k)
    /\ UNCHANGED <<system, life, seq, record, back, wish, doors, tweaks>>

\* RestoreForeign: the record is read, the rules go back to it, and the file
\* is cleared last, only if every write went well.
RestoreLoad ==
    /\ at = "restore"
    /\ IF Dom(record) = {}
       THEN Step("restore", TRUE) /\ back' = back
       ELSE /\ at' = "restoring" /\ back' = record
            /\ UNCHANGED <<job, fine, last>>
    /\ UNCHANGED <<system, life, rule, record, asking, wish, doors, tweaks>>

RestoreSet ==
    /\ at = "restoring"
    /\ \E R \in Touched(Dom(back)) :
         /\ rule' = Set(R, back)
         /\ \/ R = Dom(back) /\ at' = "forget" /\ back' = back
               /\ UNCHANGED <<job, fine, last>>
            \/ "tool" \in Fault /\ back' = Nothing /\ Step("restore", FALSE)
    /\ UNCHANGED <<system, life, record, asking, wish, doors, tweaks>>

RestoreForget ==
    /\ at = "forget"
    /\ back' = Nothing
    /\ \/ record' = Nothing /\ Step("restore", TRUE)
       \/ "tool" \in Fault /\ record' = record /\ Step("restore", FALSE)
    /\ UNCHANGED <<system, life, rule, asking, wish, doors, tweaks>>
-----------------------------------------------------------------------------
\* Whether there is a pass already is not looked at.
Bug_Gate ==
    /\ at = "gate"
    /\ at' = "allow" /\ asked' = Adapter /\ book' = ledger
    /\ UNCHANGED <<system, life, job, fine, last, rules, door, ledger, stray,
                   tweaks>>

\* firewallGateLocked, with or without consent: what is blocked is read once,
\* and AllowBlocked reads its book.
Gate ==
    /\ at = "gate"
    /\ \/ Blocked = {} /\ at' = "up" /\ UNCHANGED <<job, fine, last, allowing>>
       \/ Blocked # {} /\ Finish("open", TRUE) /\ UNCHANGED allowing
       \/ /\ Blocked # {} /\ at' = "allow"
          /\ asked' = Blocked /\ book' = ledger
          /\ UNCHANGED <<job, fine, last>>
    /\ UNCHANGED <<system, life, rules, door, ledger, stray, tweaks>>

\* AllowBlocked: adapter by adapter, and the book at the end.  What the book
\* already has is skipped, and whether it still blocks is not asked again.
AllowOne(a) ==
    /\ at = "allow" /\ a \in asked \ book
    /\ door' = [door EXCEPT ![a] = Opened(a)] /\ book' = book \cup {a}
    /\ UNCHANGED <<system, life, seq, rules, ledger, asked, stray, tweaks>>

AllowWrite ==
    /\ at = "allow" /\ asked \subseteq book
    /\ ledger' = book /\ asked' = {} /\ book' = {}
    /\ stray' = stray \ book
    /\ at' = "up"
    /\ UNCHANGED <<system, life, job, fine, last, rules, door, tweaks>>

\* One open, or the write at the end, fails: the others before it stay open.
AllowFails ==
    /\ at = "allow" /\ "tool" \in Fault
    /\ LeftOff
    /\ Finish("open", FALSE)
    /\ UNCHANGED <<system, life, rules, ledger, tweaks>>

\* kanpachi doctor --fix: the same opening, from another process, which may
\* fail or die like the daemon's.
DoctorFix ==
    /\ Linux /\ Blocked # {}
    /\ at = "allow" => "doctor" \in Fault
    /\ \/ /\ door' = [a \in Adapter |->
                 IF a \in Blocked \ ledger THEN "ours" ELSE door[a]]
          /\ ledger' = ledger \cup Blocked /\ stray' = stray \ Blocked
       \/ \E D \in SUBSET (Blocked \ ledger) : \E H \in SUBSET D :
            /\ door' = [a \in Adapter |-> IF a \in H THEN "half"
                                          ELSE IF a \in D THEN "ours" ELSE door[a]]
            /\ ledger' = ledger /\ stray' = stray \cup D
    /\ last' = "none" /\ fine' = FALSE
    /\ UNCHANGED <<system, life, job, at, rules, allowing, tweaks>>

\* What firewalld has in its configuration comes into force, whoever reloads it.
Reload ==
    /\ Linux /\ \E a \in Adapter : door[a] = "half"
    /\ door' = [a \in Adapter |-> IF door[a] = "half" THEN "ours" ELSE door[a]]
    /\ UNCHANGED <<system, life, seq, rules, ledger, allowing, stray, tweaks>>

\* The book is torn up once it has been gone through.
Bug_Withdraw ==
    /\ at = "withdraw"
    /\ \E C \in SUBSET ledger :
         /\ C = ledger \/ "tool" \in Fault
         /\ door' = [a \in Adapter |-> IF a \in C THEN "shut" ELSE door[a]]
         /\ ledger' = {} /\ Step("withdraw", C = ledger)
    /\ UNCHANGED <<system, life, rules, allowing, stray, tweaks>>

\* WithdrawAdapters: a line stays if its close failed (those not in C), also
\* when the door shut all the same.  Whose the pass is now is not asked.
Withdraw ==
    /\ at = "withdraw"
    /\ \E C \in SUBSET ledger : \E S \in SUBSET ledger :
         /\ C \subseteq S /\ (C = ledger \/ "tool" \in Fault)
         /\ door' = [a \in Adapter |-> IF a \in S THEN "shut" ELSE door[a]]
         /\ \/ ledger' = ledger \ C /\ Step("withdraw", C = ledger)
            \/ "tool" \in Fault /\ ledger' = ledger /\ Step("withdraw", FALSE)
    /\ UNCHANGED <<system, life, rules, allowing, stray, tweaks>>
-----------------------------------------------------------------------------
\* The network comes up, or it does not and everything is undone.
Up ==
    /\ at = "up"
    /\ \/ room' = "open" /\ game' \in BOOLEAN /\ at' = "row"
          /\ UNCHANGED <<job, fine, last>>
       \/ UNCHANGED <<room, game>> /\ Begin("leave", "restore")
    /\ UNCHANGED <<system, alive, rules, doors, tweaks>>

\* ActivateProfile of the host, or the announcement a guest gets.
Activate ==
    /\ Free /\ room = "open"
    /\ game' = ~game
    /\ Begin("game", "row")
    /\ UNCHANGED <<system, alive, room, rules, doors, tweaks>>

\* setPrefixPolicy: the row first and the book after it, which may not be
\* written: the write fails, or the process dies.
SetPrefixPolicy(want) ==
    \/ UNCHANGED <<row, added, loose>> /\ (want = added \/ "tool" \in Fault)
    \/ want # added /\ row' = want /\ added' = want /\ loose' = FALSE
    \/ want # added /\ row' = want /\ added' = added /\ loose' = want

Row ==
    /\ at = "row"
    /\ IF Windows THEN SetPrefixPolicy(game) ELSE UNCHANGED <<row, added, loose>>
    /\ at' = "directplay"
    /\ UNCHANGED <<system, life, job, fine, last, rules, doors, dp, was, dpWish>>

\* SetDirectPlay: the value there was goes to the book first, and only once.
\* Turning off what nobody turned on is nothing to do.
SetDirectPlay(want) ==
    \/ /\ dp = want \/ (~want /\ was = "none") \/ "tool" \in Fault
       /\ UNCHANGED <<dp, was>>
    \/ /\ dp # want /\ (want \/ was # "none")
       /\ was' = IF was = "none" THEN IF dp THEN "on" ELSE "off" ELSE was
       /\ dp' = want \/ ("tool" \in Fault /\ dp' = dp)

DirectPlay ==
    /\ at = "directplay"
    /\ IF Windows THEN SetDirectPlay(game) ELSE UNCHANGED <<dp, was>>
    /\ Finish(job, TRUE)
    /\ UNCHANGED <<system, life, rules, doors, row, added, loose, dpWish>>

\* ReapplyAdapter, after a network event: what to apply is read with the lock
\* and applied without it, to an adapter that is there until Engine.Leave.
Reapply ==
    /\ Windows /\ room = "open"
    /\ Free \/ (job = "leave" /\ "overlap" \in Fault)
    /\ SetPrefixPolicy(game)
    /\ UNCHANGED <<system, life, seq, rules, doors, dp, was, dpWish>>

\* RevertTweaks: each is undone if it can, and the book keeps what is left.
Undone(put) ==
    /\ row' = IF added /\ "row" \in put THEN FALSE ELSE row
    /\ dp' = IF was # "none" /\ "dp" \in put THEN was = "on" ELSE dp
Struck(put) ==
    /\ added' = (added /\ "row" \notin put)
    /\ was' = IF "dp" \in put THEN "none" ELSE was

Revert ==
    /\ at = "revert"
    /\ \E put \in Touched({"row", "dp"}) :
         /\ Undone(put)
         /\ \/ Struck(put) /\ Step("revert", put = {"row", "dp"})
            \/ "tool" \in Fault /\ UNCHANGED <<added, was>>
               /\ Step("revert", FALSE)
    /\ UNCHANGED <<system, life, rules, doors, loose, dpWish>>

\* Engine.Leave, with which the adapter goes.
Down ==
    /\ at = "down"
    /\ room' = "none" /\ game' = FALSE
    /\ Finish("leave", fine)
    /\ UNCHANGED <<system, alive, rules, doors, tweaks>>
-----------------------------------------------------------------------------
\* The owner of the machine: what is not in a book is theirs to change, and a
\* program may be removed with its rules at any time.
OwnerSets(r) ==
    /\ rule[r] # "gone" /\ record[r] = "none"
    /\ \A k \in Asker : fresh[k][r] = "none"
    /\ \E v \in {"on", "off"} \ {rule[r]} :
         rule' = [rule EXCEPT ![r] = v] /\ wish' = [wish EXCEPT ![r] = v]
    /\ UNCHANGED <<system, life, seq, record, back, asking, doors, tweaks>>

OwnerRemoves(r) ==
    /\ rule[r] # "gone"
    /\ rule' = [rule EXCEPT ![r] = "gone"]
    /\ UNCHANGED <<system, life, seq, record, back, asking, wish, doors,
                   tweaks>>

OwnerSetsDirectPlay ==
    /\ Windows /\ was = "none"
    /\ dp' = ~dp /\ dpWish' = ~dp
    /\ UNCHANGED <<system, life, seq, rules, doors, row, added, loose, was>>

\* A pass of the operator's own, given and taken away at any moment, also on an
\* adapter that is in the book or about to be.
OperatorAllows(a) ==
    /\ Linux /\ a \in Blocked
    /\ door' = [door EXCEPT ![a] = "own"] /\ stray' = stray \ {a}
    /\ UNCHANGED <<system, life, seq, rules, ledger, allowing, tweaks>>

OperatorShuts(a) ==
    /\ Linux /\ door[a] # "shut"
    /\ door' = [door EXCEPT ![a] = "shut"] /\ stray' = stray \ {a}
    /\ UNCHANGED <<system, life, seq, rules, ledger, allowing, tweaks>>

Suspend ==
    \E k \in Asker : AskRoom(k) \/ AskRead(k) \/ AskLoad(k) \/ AskSave(k) \/ AskSet(k)
Restore == RestoreLoad \/ RestoreSet \/ RestoreForget
Allow == Gate \/ (\E a \in Adapter : AllowOne(a)) \/ AllowWrite \/ AllowFails
Tweak == Row \/ DirectPlay \/ Revert \/ Down \/ Reapply
Owner ==
    \/ \E r \in Rule : OwnerSets(r) \/ OwnerRemoves(r)
    \/ OwnerSetsDirectPlay
    \/ \E a \in Adapter : OperatorAllows(a) \/ OperatorShuts(a)

Next ==
    \/ Start \/ Reset \/ Crash \/ Leave \/ Up \/ Activate
    \/ \E gated \in BOOLEAN : Open(gated)
    \/ Suspend \/ Restore \/ Allow \/ DoctorFix \/ Reload \/ Withdraw \/ Tweak
    \/ Owner

Spec == Init /\ [][Next]_vars
-----------------------------------------------------------------------------
(* Properties.                                                             *)

\* Types of every variable.
TypeOK ==
    /\ system \in {"windows", "linux"}
    /\ alive \in BOOLEAN /\ room \in {"none", "open"} /\ game \in BOOLEAN
    /\ job \in {"none", "start", "open", "game", "leave", "reset"}
    /\ at \in {"idle", "restore", "restoring", "forget", "withdraw", "revert",
               "down", "gate", "allow", "up", "row", "directplay"}
    /\ fine \in BOOLEAN
    /\ last \in {"none", "failed", "start", "open", "game", "leave", "reset"}
    /\ rule \in [Rule -> {"on", "off", "gone"}]
    /\ wish \in [Rule -> {"on", "off", "gone"}]
    /\ record \in [Rule -> {"none", "on", "off"}]
    /\ back \in [Rule -> {"none", "on", "off"}]
    /\ ask \in [Asker -> {"no", "read", "load", "save", "set"}]
    /\ fresh \in [Asker -> [Rule -> {"none", "on", "off"}]]
    /\ seen \in [Asker -> [Rule -> {"none", "on", "off"}]]
    /\ door \in [Adapter -> {"shut", "half", "own", "ours"}]
    /\ ledger \subseteq Adapter /\ asked \subseteq Adapter
    /\ book \subseteq Adapter /\ stray \subseteq Adapter
    /\ row \in BOOLEAN /\ added \in BOOLEAN /\ loose \in BOOLEAN
    /\ dp \in BOOLEAN /\ dpWish \in BOOLEAN /\ was \in {"none", "on", "off"}

\* Whatever Kanpachi has left otherwise than its owner had it, the books still
\* say how it was: a death at any point leaves the record and not the guesswork.
OriginalKnown ==
    /\ \A r \in Rule :
         rule[r] \notin {"gone", wish[r]} => record[r] = wish[r]
    /\ dp # dpWish => was = IF dpWish THEN "on" ELSE "off"

RulesPaid == \A r \in Rule : rule[r] \in {"gone", wish[r]}
DoorsPaid == \A a \in Adapter : door[a] \in {"half", "ours"} => a \in stray
TweaksPaid == (row => loose) /\ dp = dpWish

\* Leaving a room, starting the service or resetting the machine, when no step
\* of it fails, leaves nothing of what it answers for owed, but for a door or a
\* row whose own opening was left before its line was written.
SettledIsPaid ==
    /\ last \in {"start", "leave", "reset"} /\ Alone({}) => RulesPaid
    /\ last \in {"start", "leave"} => DoorsPaid
    /\ last \in {"leave", "reset"} => TweaksPaid

\* A rule the operator already had never enters the book, so it can never leave
\* through it: what passes and is in no book, nor about to be, stays so until
\* the operator takes it away.
OwnPassKept ==
    [][\A a \in Adapter :
          door[a] = "own" /\ a \notin ledger \cup asked \cup book =>
             \/ OperatorShuts(a)
             \/ door'[a] = "own" /\ a \notin ledger' \cup asked' \cup book']_vars

\* A line leaves the book of doors only with its door shut, whatever fails.
BookedTillShut ==
    [][\A a \in ledger \ ledger' : door'[a] = "shut"]_vars
=============================================================================
