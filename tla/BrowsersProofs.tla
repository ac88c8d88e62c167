---------------------------- MODULE BrowsersProofs ----------------------------
(***************************************************************************)
(* Who answers for a browser that runs, for any number of browsers,        *)
(* faults, lives of the worker thread and closed pages: the entry of the   *)
(* pool, the thread that starts or closes it, or a failure that has been   *)
(* counted.                                                                *)
(***************************************************************************)
EXTENDS Browsers, FiniteSetTheorems, TLAPS

Budgets == {"faults", "closes", "blind"}
Budget  == /\ left.faults <= MaxFaults /\ left.closes <= MaxCloses
           /\ left.blind <= MaxBlind
IsCalm  == /\ left.faults = MaxFaults /\ left.closes = MaxCloses
           /\ left.blind = MaxBlind

\* Where the thread is and what it has in its hands.
Stages ==
    /\ thread = None <=> at = "off"
    /\ mine # None <=> at \in {"load", "stopping"}
    /\ at = "stopping" => entry = None
    /\ at \in {"launch", "load"} => ~Open

\* The browser that is answered for while nothing has failed.
Owner == IF mine # None THEN {mine} ELSE IF entry # None THEN {entry.ctl} ELSE {}

Tidy == /\ attempts = 0 /\ profile = Running /\ Running = Owner
        /\ lock \in Running \cup {None}
        /\ at \in {"launch", "load"} => call # "task" /\ entry = None
        /\ entry # None => browser[entry.ctl] = "page"

\* What has been counted, and may still become a browser left behind: an entry without
\* its page, a start for a task.
OwedPage == IF entry # None /\ browser[entry.ctl] # "page" THEN 1 ELSE 0
OwedTask == IF at \in {"launch", "load"} /\ call = "task" THEN 1 ELSE 0
Covered  == Cardinality(Orphans) + OwedPage + OwedTask <= Blamed

Inv == TypeOK /\ Budget /\ Stages /\ NeverRefused /\ (IsCalm => Tidy) /\ Covered
-----------------------------------------------------------------------------
(* Lemmas about counting.                                                  *)

LEMMA Shares ==
  ASSUME NEW l \in [Budgets -> Nat], l.faults <= MaxFaults, l.closes <= MaxCloses,
         l.blind <= MaxBlind
  PROVE  LET sum == (MaxFaults - l.faults) + (MaxCloses - l.closes)
                       + (MaxBlind - l.blind)
         IN  /\ sum \in Nat
             /\ sum = 0 <=> /\ l.faults = MaxFaults /\ l.closes = MaxCloses
                           /\ l.blind = MaxBlind
<1>1. l.faults \in Nat /\ l.closes \in Nat /\ l.blind \in Nat
  BY DEF Budgets
<1>2. PICK f \in Nat, c \in Nat, d \in Nat :
         f = l.faults /\ c = l.closes /\ d = l.blind
  BY <1>1
<1>3. f <= MaxFaults /\ c <= MaxCloses /\ d <= MaxBlind
  BY <1>2
<1>4. LET sum == (MaxFaults - f) + (MaxCloses - c) + (MaxBlind - d)
      IN  /\ sum \in Nat
          /\ sum = 0 <=> f = MaxFaults /\ c = MaxCloses /\ d = MaxBlind
  <2>1. MaxFaults \in Nat /\ MaxCloses \in Nat /\ MaxBlind \in Nat
    BY BrowsersAssumption
  <2>2. QED
    BY <1>3, <2>1
<1>5. QED
  BY <1>2, <1>4

LEMMA BlamedType ==
  ASSUME TypeOK, Budget
  PROVE  Blamed \in Nat /\ (Blamed = 0 <=> IsCalm)
  BY Shares DEF TypeOK, Budget, Blamed, IsCalm, Budgets

LEMMA BlamedTypeNext ==
  ASSUME TypeOK', Budget'
  PROVE  Blamed' \in Nat
  BY Shares DEF TypeOK, Budget, Blamed, Budgets

LEMMA SpendFacts ==
  ASSUME TypeOK, Budget, NEW b \in Budgets, Spend(b)
  PROVE  /\ left' \in [Budgets -> Nat]
         /\ Budget' /\ Blamed' = Blamed + 1 /\ ~IsCalm'
<1>1. /\ left \in [Budgets -> Nat]
      /\ left.faults \in Nat /\ left.closes \in Nat /\ left.blind \in Nat
      /\ left' = [left EXCEPT ![b] = left[b] - 1] /\ left[b] > 0
  BY DEF TypeOK, Spend, Budgets
<1>2. left' \in [Budgets -> Nat]
  BY <1>1
<1>3. \/ /\ left'.faults = left.faults - 1 /\ left'.closes = left.closes
         /\ left'.blind = left.blind
      \/ /\ left'.faults = left.faults /\ left'.closes = left.closes - 1
         /\ left'.blind = left.blind
      \/ /\ left'.faults = left.faults /\ left'.closes = left.closes
         /\ left'.blind = left.blind - 1
  BY <1>1 DEF Budgets
<1>4. QED
  BY <1>1, <1>2, <1>3, BrowsersAssumption DEF Budget, Blamed, IsCalm

LEMMA OrphansFinite == IsFiniteSet(Orphans) /\ Cardinality(Orphans) \in Nat
<1>1. Orphans \in SUBSET Ids
  BY DEF Orphans, Running
<1>2. QED
  BY <1>1, BrowsersAssumption, FS_Subset, FS_CardinalityType

LEMMA OrphansLess ==
  ASSUME Orphans' \subseteq Orphans
  PROVE  Cardinality(Orphans)' \in Nat /\ Cardinality(Orphans)' <= Cardinality(Orphans)
  BY OrphansFinite, FS_Subset, FS_CardinalityType

LEMMA OrphansMore ==
  ASSUME NEW x, Orphans' \subseteq Orphans \cup {x}
  PROVE  Cardinality(Orphans)' \in Nat /\ Cardinality(Orphans)' <= Cardinality(Orphans) + 1
<1>1. /\ IsFiniteSet(Orphans \cup {x})
      /\ Cardinality(Orphans \cup {x}) <= Cardinality(Orphans) + 1
  BY OrphansFinite, FS_AddElement
<1>2. QED
  BY <1>1, FS_Subset, FS_CardinalityType

LEMMA OwedType == OwedPage \in {0, 1} /\ OwedTask \in {0, 1}
  BY DEF OwedPage, OwedTask

LEMMA Sums ==
  ASSUME NEW o \in Nat, NEW oo \in Nat, NEW p \in Nat, NEW pp \in Nat,
         NEW t \in Nat, NEW tt \in Nat, NEW b \in Nat, NEW bb \in Nat,
         o + p + t <= b,
         \/ oo <= o /\ pp + tt + b <= p + t + bb
         \/ oo <= o + 1 /\ pp + tt + b + 1 <= p + t + bb
  PROVE  oo + pp + tt <= bb
  OBVIOUS

\* What the count needs of a step: nothing is left behind that was not owed or blamed.
LEMMA StillCovered ==
  ASSUME TypeOK, Budget, Covered, Budget', TypeOK',
         \/ /\ Orphans' \subseteq Orphans
            /\ OwedPage' + OwedTask' + Blamed <= OwedPage + OwedTask + Blamed'
         \/ \E x : /\ Orphans' \subseteq Orphans \cup {x}
                  /\ OwedPage' + OwedTask' + Blamed + 1 <= OwedPage + OwedTask + Blamed'
  PROVE  Covered'
<1>1. Blamed \in Nat /\ Blamed' \in Nat
  BY BlamedType, BlamedTypeNext
<1>2. /\ OwedPage \in {0, 1} /\ OwedTask \in {0, 1}
      /\ OwedPage' \in {0, 1} /\ OwedTask' \in {0, 1}
      /\ \A n \in {0, 1} : n \in Nat
  BY DEF OwedPage, OwedTask
<1>3. Cardinality(Orphans) \in Nat
  BY OrphansFinite
<1>4. CASE Orphans' \subseteq Orphans /\
           OwedPage' + OwedTask' + Blamed <= OwedPage + OwedTask + Blamed'
  <2>1. Cardinality(Orphans)' \in Nat /\ Cardinality(Orphans)' <= Cardinality(Orphans)
    BY <1>4, OrphansLess
  <2>2. Cardinality(Orphans) + OwedPage + OwedTask <= Blamed
    BY DEF Covered
  <2>3. Cardinality(Orphans)' + OwedPage' + OwedTask' <= Blamed'
    BY <1>1, <1>2, <1>3, <1>4, <2>1, <2>2, Sums
  <2>4. QED
    BY <2>3 DEF Covered
<1>5. ASSUME NEW x, Orphans' \subseteq Orphans \cup {x},
             OwedPage' + OwedTask' + Blamed + 1 <= OwedPage + OwedTask + Blamed'
      PROVE  Covered'
  <2>1. Cardinality(Orphans)' \in Nat /\ Cardinality(Orphans)' <= Cardinality(Orphans) + 1
    BY <1>5, OrphansMore
  <2>2. Cardinality(Orphans) + OwedPage + OwedTask <= Blamed
    BY DEF Covered
  <2>3. Cardinality(Orphans)' + OwedPage' + OwedTask' <= Blamed'
    BY <1>1, <1>2, <1>3, <1>5, <2>1, <2>2, Sums
  <2>4. QED
    BY <2>3 DEF Covered
<1>6. QED
  BY <1>4, <1>5
-----------------------------------------------------------------------------
(* The thread, outside the pool.                                           *)

\* The thread moves between the places where it holds no controller.
LEMMA ThreadMoves ==
  ASSUME Inv, UNCHANGED <<browser, profile, lock, entry, call, mine, attempts, left>>,
         at \in {"off", "boot", "boot again", "idle", "closing"},
         at' \in {"off", "boot", "boot again", "idle", "closing"},
         thread' \in Idents \cup {None}, thread' = None <=> at' = "off",
         Open => thread' = thread /\ at' # "off"
  PROVE  Inv'
<1>1. TypeOK'
  BY DEF Inv, TypeOK
<1>2. Open' <=> Open
  BY DEF Open
<1>3. Budget' /\ (IsCalm' => IsCalm) /\ Blamed' = Blamed
  BY DEF Inv, Budget, IsCalm, Blamed
<1>4. Stages' /\ NeverRefused'
  BY <1>2 DEF Inv, Stages, NeverRefused
<1>5. Running' = Running /\ Owner' = Owner
  BY DEF Running, Owner
<1>6. Tidy => Tidy'
  BY <1>5 DEF Tidy
<1>7. Orphans' = Orphans /\ OwedPage' = OwedPage /\ OwedTask' = OwedTask
  BY <1>5 DEF Orphans, OwedPage, OwedTask
<1>8. Covered'
  BY <1>3, <1>7 DEF Inv, Covered
<1>9. QED
  BY <1>1, <1>3, <1>4, <1>6, <1>8 DEF Inv

LEMMA StartThreadKeeps ==
  ASSUME Inv, StartThread
  PROVE  Inv'
<1>1. thread' # None
  BY BrowsersAssumption DEF StartThread
<1>2. ~Open
  BY DEF Inv, NeverRefused, StartThread
<1>3. QED
  BY <1>1, <1>2, ThreadMoves DEF StartThread, worldVars

LEMMA LeaveLoopKeeps ==
  ASSUME Inv, LeaveLoop
  PROVE  Inv'
<1>1. thread \in Idents \cup {None} /\ thread # None
  BY DEF Inv, TypeOK, Stages, LeaveLoop
<1>2. QED
  BY <1>1, ThreadMoves DEF LeaveLoop, worldVars

LEMMA ReuseKeeps ==
  ASSUME Inv, NEW c \in Calls, Reuse(c)
  PROVE  Inv'
<1>1. at \in {"boot", "boot again", "idle"}
  BY DEF Reuse, AskedBy
<1>2. thread \in Idents \cup {None} /\ thread # None
  BY <1>1 DEF Inv, TypeOK, Stages
<1>3. at' \in {"boot again", "idle"} /\ thread' = thread
  BY DEF Reuse, Return
<1>4. QED
  BY <1>1, <1>2, <1>3, ThreadMoves DEF Reuse, worldVars

\* The open page of another thread is never met, so only get_page refuses a page, and
\* the thread is in its loop then.
LEMMA RefuseKeeps ==
  ASSUME Inv, NEW c \in Calls, Refuse(c)
  PROVE  Inv'
<1>1. c = "extract" /\ at = "idle"
  BY DEF Inv, NeverRefused, Refuse, AskedBy
<1>2. at' = "idle" /\ thread' = thread
  BY <1>1 DEF Refuse, Raise
<1>3. thread \in Idents \cup {None} /\ thread # None
  BY <1>1 DEF Inv, TypeOK, Stages
<1>4. QED
  BY <1>1, <1>2, <1>3, ThreadMoves DEF Refuse, worldVars

LEMMA LaunchKeeps ==
  ASSUME Inv, NEW c \in Calls, Launch(c)
  PROVE  Inv'
<1>1. /\ at \in {"boot", "boot again", "idle"} /\ at' = "launch" /\ call' = c
      /\ mine = None /\ mine' = None /\ attempts' = 0 /\ ~Open
      /\ UNCHANGED <<browser, profile, lock, entry, thread>>
  BY DEF Inv, Stages, Launch, AskedBy, worldVars
<1>2. ASSUME left' \in [Budgets -> Nat]
      PROVE  TypeOK'
  <2>1. attempts' = 0
    BY <1>1
  <2>2. attempts' \in 0..2
    BY <2>1
  <2>3. call' \in Calls /\ mine' \in Ids \cup {None}
    BY <1>1
  <2>4. at' \in {"off", "boot", "boot again", "idle", "launch", "load",
                 "closing", "stopping"}
    BY <1>1
  <2>5. left' \in [{"faults", "closes", "blind"} -> Nat]
    BY <1>2 DEF Budgets
  <2>6. QED
    BY <1>1, <2>2, <2>3, <2>4, <2>5 DEF Inv, TypeOK
<1>3. CASE c = "task"
  <2>1. /\ left' \in [Budgets -> Nat] /\ Budget' /\ Blamed' = Blamed + 1 /\ ~IsCalm'
    BY <1>3, SpendFacts DEF Inv, Launch, Budgets
  <2>2. TypeOK'
    BY <1>2, <2>1
  <2>3. Open' <=> Open
    BY <1>1 DEF Open
  <2>4. Stages' /\ NeverRefused'
    BY <1>1, <2>3 DEF Inv, Stages, NeverRefused
  <2>5. Orphans' = Orphans /\ OwedPage' = OwedPage
    BY <1>1 DEF Orphans, OwedPage, Running
  <2>6. OwedTask = 0 /\ OwedTask' = 1
    BY <1>1, <1>3 DEF OwedTask
  <2>7. OwedPage' + OwedTask' + Blamed <= OwedPage + OwedTask + Blamed'
    BY <2>1, <2>5, <2>6, BlamedType, OwedType DEF Inv
  <2>8. Covered'
    BY <2>1, <2>2, <2>5, <2>7, StillCovered DEF Inv
  <2>9. QED
    BY <2>1, <2>2, <2>4, <2>8 DEF Inv
<1>4. CASE c # "task"
  <2>1. left' = left
    BY <1>4 DEF Launch
  <2>2. Budget' /\ (IsCalm' => IsCalm) /\ Blamed' = Blamed
    BY <2>1 DEF Inv, Budget, IsCalm, Blamed
  <2>3. TypeOK'
    BY <1>2, <2>1 DEF Inv, TypeOK, Budgets
  <2>4. Open' <=> Open
    BY <1>1 DEF Open
  <2>5. Stages' /\ NeverRefused'
    BY <1>1, <2>4 DEF Inv, Stages, NeverRefused
  <2>6. Orphans' = Orphans /\ OwedPage' = OwedPage /\ Running' = Running /\ Owner' = Owner
    BY <1>1 DEF Orphans, OwedPage, Running, Owner
  <2>7. OwedTask = 0 /\ OwedTask' = 0
    BY <1>1, <1>4 DEF OwedTask
  <2>8. Covered'
    BY <2>2, <2>6, <2>7 DEF Inv, Covered
  <2>9. Tidy => Tidy'
    BY <1>1, <1>4, <2>6 DEF Tidy, Open
  <2>10. QED
    BY <2>2, <2>3, <2>5, <2>8, <2>9 DEF Inv
<1>5. QED
  BY <1>3, <1>4
-----------------------------------------------------------------------------
(* BrowserController.start.                                                *)

LEMMA EntryType ==
  ASSUME TypeOK, entry # None
  PROVE  entry.ctl \in Ids /\ entry.tid \in Idents /\ entry.ctl # None
  BY BrowsersAssumption DEF TypeOK

\* A browser that starts has no page yet and is answered for by the thread.
LEMMA BrowserStarts ==
  ASSUME Inv, at = "launch", NEW b \in Ids, b \notin Running,
         browser' = [browser EXCEPT ![b] = "bare"], mine' = b, at' = "load",
         UNCHANGED <<entry, thread, call, attempts, left>>,
         profile' \in SUBSET Ids, lock' \in Ids \cup {None, "stale"}, Tidy => Tidy'
  PROVE  Inv'
<1>1. /\ browser \in [Ids -> {"none", "page", "bare"}] /\ b # None
      /\ \A a \in Ids : browser'[a] = IF a = b THEN "bare" ELSE browser[a]
      /\ browser' \in [Ids -> {"none", "page", "bare"}]
  BY BrowsersAssumption DEF Inv, TypeOK
<1>2. TypeOK'
  BY <1>1 DEF Inv, TypeOK
<1>3. Running' = Running \cup {b}
  BY <1>1 DEF Running
<1>4. ~Open /\ ~Open'
  BY <1>1, EntryType DEF Inv, Stages, Open
<1>5. Budget' /\ (IsCalm' => IsCalm) /\ Blamed' = Blamed
  BY DEF Inv, Budget, IsCalm, Blamed
<1>6. Stages' /\ NeverRefused'
  BY <1>1, <1>4 DEF Inv, Stages, NeverRefused
<1>7. Orphans' \subseteq Orphans
  <2>1. mine = None
    BY DEF Inv, Stages
  <2>2. \A a \in Ids : a # None
    BY BrowsersAssumption
  <2>3. Running \subseteq Ids
    BY DEF Running
  <2>4. QED
    BY <1>3, <2>1, <2>2, <2>3 DEF Orphans
<1>8. OwedPage' = OwedPage /\ OwedTask' = OwedTask
  BY <1>4 DEF OwedPage, OwedTask, Open
<1>9. Covered'
  BY <1>2, <1>5, <1>7, <1>8, StillCovered, BlamedType, OwedType DEF Inv
<1>10. QED
  BY <1>2, <1>5, <1>6, <1>9 DEF Inv

LEMMA OnProfileKeeps ==
  ASSUME Inv, OnProfile
  PROVE  Inv'
<1>1. PICK b \in Ids \ Running : /\ browser' = [browser EXCEPT ![b] = "bare"]
                                 /\ profile' = profile \cup {b}
                                 /\ lock' = b /\ mine' = b
  BY DEF OnProfile
<1>2. profile' \in SUBSET Ids
  BY <1>1 DEF Inv, TypeOK
<1>3. ASSUME Tidy
      PROVE  Tidy'
  <2>1. entry = None /\ mine = None /\ call # "task"
    BY <1>3 DEF Tidy, Inv, Stages, OnProfile
  <2>2. Running = {} /\ profile = {}
    BY <1>3, <2>1 DEF Tidy, Owner
  <2>3. Running' = {b}
    BY <1>1, <2>2 DEF Running, Inv, TypeOK
  <2>4. b # None
    BY BrowsersAssumption
  <2>5. Owner' = {b} /\ profile' = {b} /\ lock' = b
    BY <1>1, <2>2, <2>4 DEF Owner
  <2>6. attempts' = attempts /\ entry' = entry /\ call' = call
    BY DEF OnProfile
  <2>7. QED
    BY <1>3, <2>1, <2>3, <2>5, <2>6 DEF Tidy
<1>4. QED
  BY <1>1, <1>2, <1>3, BrowserStarts DEF OnProfile

LEMMA WithoutProfileKeeps ==
  ASSUME Inv, WithoutProfile
  PROVE  Inv'
<1>1. PICK b \in Ids \ Running : browser' = [browser EXCEPT ![b] = "bare"] /\ mine' = b
  BY DEF WithoutProfile
<1>2. ~Tidy
  BY DEF WithoutProfile, Tidy
<1>3. profile' \in SUBSET Ids /\ lock' \in Ids \cup {None, "stale"}
  BY DEF WithoutProfile, Inv, TypeOK
<1>4. QED
  BY <1>1, <1>2, <1>3, BrowserStarts DEF WithoutProfile

\* A launch that is tried again: the profile was in use or the call raised.
LEMMA ProfileLockedKeeps ==
  ASSUME Inv, ProfileLocked
  PROVE  Inv'
<1>1. /\ at' = "launch" /\ mine' = None /\ attempts' = attempts + 1
      /\ lock' \in {None, lock}
      /\ UNCHANGED <<browser, profile, entry, thread, call>>
  BY DEF ProfileLocked, Retry
<1>2. attempts' \in 0..2
  <2>1. attempts \in 0..2 /\ attempts < 2
    BY DEF ProfileLocked, Inv, TypeOK
  <2>2. attempts' = attempts + 1
    BY <1>1
  <2>3. QED
    BY <2>1, <2>2
<1>3. at \in {"launch", "load"} /\ ~Open /\ mine \notin Running
  <2>1. CASE at = "launch"
    BY <2>1, BrowsersAssumption DEF Inv, Stages, Running
  <2>2. CASE at = "load"
    BY <2>2 DEF ProfileLocked, Refused, Inv, Stages, Running
  <2>3. QED
    BY <2>1, <2>2 DEF ProfileLocked, Refused
<1>4. /\ left' \in [Budgets -> Nat] /\ Budget'
      /\ \/ Blamed' = Blamed /\ (IsCalm' => IsCalm) /\ ~Tidy
         \/ Blamed' = Blamed + 1 /\ ~IsCalm'
  <2>1. CASE at = "launch" /\ lock = None
    <3>1. left.faults > 0 /\ left' = [left EXCEPT !.faults = left.faults - 1]
      BY <2>1 DEF ProfileLocked, Refused, Retry
    <3>2. Spend("faults")
      BY <3>1 DEF Spend
    <3>3. QED
      BY <3>2, SpendFacts DEF Inv, Budgets
  <2>2. CASE ~(at = "launch" /\ lock = None)
    <3>1. left' = left
      BY <2>2 DEF ProfileLocked, Retry
    <3>2. ~Tidy
      <4>1. CASE at = "launch"
        BY <2>2, <4>1 DEF Inv, Stages, Tidy, Owner
      <4>2. CASE at = "load"
        BY <1>3, <4>2 DEF Inv, Stages, Tidy, Owner
      <4>3. QED
        BY <1>3, <4>1, <4>2
    <3>3. QED
      BY <3>1, <3>2 DEF Inv, TypeOK, Budget, IsCalm, Blamed, Budgets
  <2>3. QED
    BY <2>1, <2>2
<1>5. TypeOK'
  BY <1>1, <1>2, <1>4 DEF Inv, TypeOK, Budgets
<1>6. Open' <=> Open
  BY <1>1 DEF Open
<1>7. Stages' /\ NeverRefused'
  BY <1>1, <1>3, <1>6 DEF Inv, Stages, NeverRefused
<1>8. Orphans' \subseteq Orphans
  BY <1>1, <1>3 DEF Orphans, Running
<1>9. OwedPage' = OwedPage /\ OwedTask' = OwedTask
  BY <1>1, <1>3 DEF OwedPage, OwedTask
<1>10. OwedPage' + OwedTask' + Blamed <= OwedPage + OwedTask + Blamed'
  BY <1>4, <1>9, BlamedType, OwedType DEF Inv
<1>11. Covered'
  BY <1>4, <1>5, <1>8, <1>10, StillCovered DEF Inv
<1>12. QED
  BY <1>4, <1>5, <1>7, <1>11 DEF Inv

\* Where an exception leaves the thread; a boot ends, and no page is open then.
LEMMA RaiseFacts ==
  ASSUME Inv, NEW c \in Calls, at \in {"launch", "load"}, Raise(c), mine' = None,
         UNCHANGED <<browser, entry>>
  PROVE  /\ at' \in {"off", "idle"} /\ thread' \in Idents \cup {None}
         /\ Stages' /\ NeverRefused'
<1>1. thread \in Idents \cup {None} /\ thread # None /\ ~Open
  BY DEF Inv, TypeOK, Stages
<1>2. /\ at' \in {"off", "idle"} /\ thread' \in {thread, None}
      /\ thread' = None <=> at' = "off"
  <2>1. CASE c \in {"boot", "boot again"}
    BY <2>1 DEF Raise
  <2>2. CASE c \notin {"boot", "boot again"}
    BY <1>1, <2>2 DEF Raise
  <2>3. QED
    BY <2>1, <2>2
<1>3. ~Open'
  BY <1>1 DEF Open
<1>4. QED
  BY <1>1, <1>2, <1>3 DEF Stages, NeverRefused

LEMMA LaunchFailsKeeps ==
  ASSUME Inv, LaunchFails
  PROVE  Inv'
<1>1. /\ at = "launch" /\ mine = None /\ Spend("faults") /\ Raise(call) /\ call \in Calls
      /\ UNCHANGED <<browser, profile, lock, entry, call, mine, attempts>>
  BY DEF LaunchFails, Inv, TypeOK, Stages, worldVars
<1>2. /\ left' \in [Budgets -> Nat] /\ Budget' /\ Blamed' = Blamed + 1 /\ ~IsCalm'
  BY <1>1, SpendFacts DEF Inv, Budgets
<1>3. /\ at' \in {"off", "idle"} /\ thread' \in Idents \cup {None}
      /\ Stages' /\ NeverRefused'
  BY <1>1, RaiseFacts
<1>4. TypeOK'
  BY <1>1, <1>2, <1>3 DEF Inv, TypeOK, Budgets
<1>5. Orphans' = Orphans /\ OwedPage' = OwedPage /\ OwedTask' = 0
  BY <1>1, <1>3 DEF Orphans, OwedPage, OwedTask, Running
<1>6. OwedPage' + OwedTask' + Blamed <= OwedPage + OwedTask + Blamed'
  BY <1>2, <1>5, BlamedType, OwedType DEF Inv
<1>7. Covered'
  BY <1>2, <1>4, <1>5, <1>6, StillCovered DEF Inv
<1>8. QED
  BY <1>2, <1>3, <1>4, <1>7 DEF Inv
-----------------------------------------------------------------------------
(* The rest of get_or_create_provider_session.                             *)

\* A controller that is left at this point is counted, by the fault or by the task, if
\* its browser still runs.
LEMMA LoadFailsKeeps ==
  ASSUME Inv, LoadFails
  PROVE  Inv'
<1>1. /\ at = "load" /\ Raise(call) /\ call \in Calls /\ mine' = None
      /\ UNCHANGED <<browser, profile, lock, entry, call, attempts>>
  BY DEF LoadFails, Inv, TypeOK, Stages, worldVars
<1>2. /\ at' \in {"off", "idle"} /\ thread' \in Idents \cup {None}
      /\ Stages' /\ NeverRefused'
  BY <1>1, RaiseFacts
<1>3. OwedPage' = OwedPage /\ OwedTask' = 0
  BY <1>1, <1>2 DEF OwedPage, OwedTask
<1>4. Orphans' \subseteq Orphans \cup {mine} /\ Running' = Running
  BY <1>1 DEF Orphans, Running
<1>5. CASE call # "task" /\ browser[mine] # "none"
  <2>1. Spend("faults")
    BY <1>5 DEF LoadFails
  <2>2. /\ left' \in [Budgets -> Nat] /\ Budget' /\ Blamed' = Blamed + 1 /\ ~IsCalm'
    BY <2>1, SpendFacts DEF Inv, Budgets
  <2>3. TypeOK'
    BY <1>1, <1>2, <2>2 DEF Inv, TypeOK, Budgets
  <2>4. OwedPage' + OwedTask' + Blamed + 1 <= OwedPage + OwedTask + Blamed'
    BY <1>3, <2>2, BlamedType, OwedType DEF Inv
  <2>5. Covered'
    BY <1>4, <2>2, <2>3, <2>4, StillCovered DEF Inv
  <2>6. QED
    BY <1>2, <2>2, <2>3, <2>5 DEF Inv
<1>6. CASE ~(call # "task" /\ browser[mine] # "none")
  <2>1. left' = left
    BY <1>6 DEF LoadFails
  <2>2. Budget' /\ (IsCalm' => IsCalm) /\ Blamed' = Blamed
    BY <2>1 DEF Inv, Budget, IsCalm, Blamed
  <2>3. TypeOK'
    BY <1>1, <1>2, <2>1 DEF Inv, TypeOK, Budgets
  <2>4. ~Tidy
    <3>1. Tidy => call # "task" /\ mine \in Running
      BY <1>1 DEF Inv, Stages, Tidy, Owner
    <3>2. QED
      BY <1>6, <3>1 DEF Running
  <2>5. CASE call = "task"
    <3>1. OwedPage' + OwedTask' + Blamed + 1 <= OwedPage + OwedTask + Blamed'
      <4>1. OwedTask = 1
        BY <1>1, <2>5 DEF OwedTask
      <4>2. QED
        BY <1>3, <2>2, <4>1, BlamedType, OwedType DEF Inv
    <3>2. Covered'
      BY <1>4, <2>2, <2>3, <3>1, StillCovered DEF Inv
    <3>3. QED
      BY <1>2, <2>2, <2>3, <2>4, <3>2 DEF Inv
  <2>6. CASE browser[mine] = "none"
    <3>1. mine \notin Running
      BY <2>6 DEF Running
    <3>2. Orphans' \subseteq Orphans
      BY <1>1, <1>4, <3>1 DEF Orphans
    <3>3. OwedPage' + OwedTask' + Blamed <= OwedPage + OwedTask + Blamed'
      BY <1>3, <2>2, BlamedType, OwedType DEF Inv
    <3>4. Covered'
      BY <2>2, <2>3, <3>2, <3>3, StillCovered DEF Inv
    <3>5. QED
      BY <1>2, <2>2, <2>3, <2>4, <3>4 DEF Inv
  <2>7. QED
    BY <1>6, <2>5, <2>6
<1>7. QED
  BY <1>5, <1>6

\* The entry that is overwritten has lost its page, which was counted.
LEMMA LoadPageKeeps ==
  ASSUME Inv, LoadPage
  PROVE  Inv'
<1>1. /\ at = "load" /\ mine \in Ids /\ thread \in Idents /\ call # "task" /\ ~Open
      /\ browser[mine] # "none" /\ browser' = [browser EXCEPT ![mine] = "page"]
      /\ mine' = None /\ entry' = [ctl |-> mine, tid |-> thread]
      /\ at' \in {"boot again", "idle"} /\ thread' = thread
      /\ UNCHANGED <<profile, lock, call, attempts, left>>
  BY DEF LoadPage, Register, Return, Inv, TypeOK, Stages
<1>2. /\ entry' \in [ctl : Ids, tid : Idents] /\ entry' # None /\ mine # None
      /\ entry'.ctl = mine /\ entry'.tid = thread /\ thread # None
  <2>1. [ctl |-> mine, tid |-> thread] \in [ctl : Ids, tid : Idents]
    BY <1>1
  <2>2. /\ None \notin [ctl : Ids, tid : Idents]
        /\ None \notin Ids /\ None \notin Idents
    BY BrowsersAssumption
  <2>3. entry' \in [ctl : Ids, tid : Idents]
    BY <1>1, <2>1
  <2>4. entry' # None
    BY <2>2, <2>3
  <2>5. entry'.ctl = mine /\ entry'.tid = thread
    BY <1>1
  <2>6. QED
    BY <1>1, <2>2, <2>3, <2>4, <2>5
<1>3. /\ browser' \in [Ids -> {"none", "page", "bare"}] /\ browser'[mine] = "page"
      /\ Running' = Running /\ mine \in Running
  BY <1>1 DEF Inv, TypeOK, Running
<1>4. TypeOK'
  BY <1>1, <1>2, <1>3 DEF Inv, TypeOK
<1>5. Budget' /\ (IsCalm' => IsCalm) /\ Blamed' = Blamed
  BY <1>1 DEF Inv, Budget, IsCalm, Blamed
<1>6. Stages'
  BY <1>1, <1>2 DEF Stages
<1>7. NeverRefused'
  BY <1>1, <1>2 DEF NeverRefused
<1>8. Tidy => Tidy'
  <2>1. Owner = {mine} /\ Owner' = {mine}
    BY <1>1, <1>2 DEF Owner
  <2>2. QED
    BY <1>1, <1>2, <1>3, <2>1 DEF Tidy
<1>9. OwedPage' = 0 /\ OwedTask' = 0 /\ OwedTask = 0
  BY <1>1, <1>2, <1>3 DEF OwedPage, OwedTask
<1>10. Orphans' = Running \ {None, mine}
  BY <1>1, <1>2, <1>3 DEF Orphans
<1>11. CASE entry = None
  <2>1. Orphans' \subseteq Orphans
    BY <1>10, <1>11 DEF Orphans
  <2>2. OwedPage' + OwedTask' + Blamed <= OwedPage + OwedTask + Blamed'
    BY <1>5, <1>9, BlamedType, OwedType DEF Inv
  <2>3. Covered'
    BY <1>4, <1>5, <2>1, <2>2, StillCovered DEF Inv
  <2>4. QED
    BY <1>4, <1>5, <1>6, <1>7, <1>8, <2>3 DEF Inv
<1>12. CASE entry # None
  <2>1. Orphans' \subseteq Orphans \cup {entry.ctl}
    BY <1>10, <1>12 DEF Orphans
  <2>2. OwedPage = 1
    BY <1>1, <1>12 DEF OwedPage, Open
  <2>3. OwedPage' + OwedTask' + Blamed + 1 <= OwedPage + OwedTask + Blamed'
    BY <1>5, <1>9, <2>2, BlamedType DEF Inv
  <2>4. Covered'
    BY <1>4, <1>5, <2>1, <2>3, StillCovered DEF Inv
  <2>5. QED
    BY <1>4, <1>5, <1>6, <1>7, <1>8, <2>4 DEF Inv
<1>13. QED
  BY <1>11, <1>12
-----------------------------------------------------------------------------
(* _close_entry and BrowserController.close.                               *)

LEMMA PopEntryKeeps ==
  ASSUME Inv, PopEntry
  PROVE  Inv'
<1>1. CASE entry = None
  <2>1. ~Open /\ UNCHANGED <<browser, profile, lock, entry, call, mine, attempts, left>>
    BY <1>1 DEF PopEntry, Open, worldVars
  <2>2. at = "closing" /\ at' = "off" /\ thread' = None
    BY <1>1 DEF PopEntry
  <2>3. QED
    BY <2>1, <2>2, ThreadMoves
<1>2. CASE entry # None
  <2>1. /\ at = "closing" /\ at' = "stopping" /\ mine = None /\ mine' = entry.ctl
        /\ mine' \in Ids /\ mine' # None /\ entry' = None
        /\ UNCHANGED <<browser, profile, lock, thread, call, attempts, left>>
    BY <1>2, EntryType DEF PopEntry, Inv, Stages, worldVars
  <2>2. TypeOK'
    BY <2>1 DEF Inv, TypeOK
  <2>3. Budget' /\ (IsCalm' => IsCalm) /\ Blamed' = Blamed
    BY <2>1 DEF Inv, Budget, IsCalm, Blamed
  <2>4. Stages' /\ NeverRefused'
    BY <2>1 DEF Inv, Stages, NeverRefused, Open
  <2>5. Running' = Running /\ Owner = {entry.ctl} /\ Owner' = {entry.ctl}
    BY <1>2, <2>1 DEF Running, Owner
  <2>6. Tidy => Tidy'
    BY <2>1, <2>5 DEF Tidy
  <2>7. Orphans' \subseteq Orphans
    <3>1. None \notin Running
      BY BrowsersAssumption DEF Running
    <3>2. QED
      BY <1>2, <2>1, <2>5, <3>1 DEF Orphans
  <2>8. OwedPage' = 0 /\ OwedTask' = 0
    BY <2>1 DEF OwedPage, OwedTask
  <2>9. OwedPage' + OwedTask' + Blamed <= OwedPage + OwedTask + Blamed'
    BY <2>3, <2>8, BlamedType, OwedType DEF Inv
  <2>10. Covered'
    BY <2>2, <2>3, <2>7, <2>9, StillCovered DEF Inv
  <2>11. QED
    BY <2>2, <2>3, <2>4, <2>6, <2>10 DEF Inv
<1>3. QED
  BY <1>1, <1>2

LEMMA CloseBrowserKeeps ==
  ASSUME Inv, CloseBrowser
  PROVE  Inv'
<1>1. /\ at = "stopping" /\ at' = "off" /\ thread' = None /\ mine \in Ids /\ mine # None
      /\ mine' = None /\ entry = None
      /\ browser' = [browser EXCEPT ![mine] = "none"]
      /\ profile' = profile \ {mine}
      /\ lock' = IF lock = mine THEN None ELSE lock
      /\ UNCHANGED <<entry, call, attempts, left>>
  BY DEF CloseBrowser, End, Inv, TypeOK, Stages
<1>2. /\ browser' \in [Ids -> {"none", "page", "bare"}]
      /\ Running' = Running \ {mine}
  BY <1>1 DEF Inv, TypeOK, Running
<1>3. TypeOK'
  BY <1>1, <1>2 DEF Inv, TypeOK
<1>4. Budget' /\ (IsCalm' => IsCalm) /\ Blamed' = Blamed
  BY <1>1 DEF Inv, Budget, IsCalm, Blamed
<1>5. Stages' /\ NeverRefused'
  BY <1>1 DEF Stages, NeverRefused, Open
<1>6. ASSUME Tidy
      PROVE  Tidy'
  <2>1. Running = {mine} /\ profile = {mine} /\ lock \in {mine, None}
    BY <1>1, <1>6 DEF Tidy, Owner
  <2>2. Running' = {} /\ profile' = {} /\ lock' = None
    BY <1>1, <1>2, <2>1
  <2>3. Owner' = {}
    BY <1>1 DEF Owner
  <2>4. QED
    BY <1>1, <1>6, <2>2, <2>3 DEF Tidy
<1>7. Orphans' \subseteq Orphans
  BY <1>1, <1>2 DEF Orphans
<1>8. OwedPage' = OwedPage /\ OwedTask' = OwedTask
  BY <1>1 DEF OwedPage, OwedTask
<1>9. OwedPage' + OwedTask' + Blamed <= OwedPage + OwedTask + Blamed'
  BY <1>4, <1>8, BlamedType, OwedType DEF Inv
<1>10. Covered'
  BY <1>3, <1>4, <1>7, <1>9, StillCovered DEF Inv
<1>11. QED
  BY <1>3, <1>4, <1>5, <1>6, <1>10 DEF Inv
-----------------------------------------------------------------------------
(* The user, and the browsers themselves.                                  *)

\* A page that is closed, or a browser that dies, is counted, and takes at most one page
\* from the pool.
LEMMA BrowserSuffers ==
  ASSUME Inv, NEW b \in Ids, NEW new \in {"none", "bare"}, Spend("closes"),
         browser[b] # "none", browser' = [browser EXCEPT ![b] = new],
         profile' \subseteq profile, lock' \in {lock, None, "stale"},
         UNCHANGED <<entry, threadVars>>
  PROVE  Inv'
<1>1. UNCHANGED <<entry, thread, at, call, mine, attempts>>
  BY DEF threadVars
<1>2. /\ left' \in [Budgets -> Nat] /\ Budget' /\ Blamed' = Blamed + 1 /\ ~IsCalm'
  BY SpendFacts DEF Inv, Budgets
<1>3. /\ browser' \in [Ids -> {"none", "page", "bare"}]
      /\ \A a \in Ids : browser'[a] = "page" => browser[a] = "page"
      /\ Running' \subseteq Running
  BY DEF Inv, TypeOK, Running
<1>4. TypeOK'
  BY <1>1, <1>2, <1>3 DEF Inv, TypeOK, Budgets
<1>5. Open' => Open
  BY <1>1, <1>3, EntryType DEF Inv, Open
<1>6. Stages' /\ NeverRefused'
  BY <1>1, <1>5 DEF Inv, Stages, NeverRefused
<1>7. Orphans' \subseteq Orphans
  BY <1>1, <1>3 DEF Orphans
<1>8. OwedPage \in {0, 1} /\ OwedPage' \in {0, 1} /\ OwedTask' = OwedTask
  BY <1>1 DEF OwedPage, OwedTask
<1>9. OwedPage' + OwedTask' + Blamed <= OwedPage + OwedTask + Blamed'
  BY <1>2, <1>8, BlamedType, OwedType DEF Inv
<1>10. Covered'
  BY <1>2, <1>4, <1>7, <1>9, StillCovered DEF Inv
<1>11. QED
  BY <1>2, <1>4, <1>6, <1>10 DEF Inv

LEMMA PageClosesKeeps ==
  ASSUME Inv, NEW b \in Ids, PageCloses(b)
  PROVE  Inv'
  BY BrowserSuffers DEF PageCloses

LEMMA BrowserDiesKeeps ==
  ASSUME Inv, NEW b \in Ids, BrowserDies(b)
  PROVE  Inv'
  BY BrowserSuffers DEF BrowserDies, End, Crash
-----------------------------------------------------------------------------
(* The theorems.                                                           *)

LEMMA InitInv ==
  ASSUME Init
  PROVE  Inv
<1>1. Full \in [Budgets -> Nat] /\ left = Full
  BY BrowsersAssumption DEF Init, Full, Budgets
<1>2. TypeOK
  BY <1>1 DEF Init, TypeOK, Budgets, Calls
<1>3. /\ Budget /\ Blamed = 0
  BY <1>1, BrowsersAssumption DEF Full, Budget, Blamed
<1>4. Running = {} /\ Owner = {} /\ ~Open
  BY DEF Init, Running, Owner, Open
<1>5. Stages /\ NeverRefused
  BY <1>4 DEF Init, Stages, NeverRefused
<1>6. Tidy
  BY <1>4 DEF Init, Tidy
<1>7. Orphans = {} /\ OwedPage = 0 /\ OwedTask = 0
  BY <1>4 DEF Init, Orphans, OwedPage, OwedTask
<1>8. Covered
  BY <1>3, <1>7, FS_EmptySet DEF Covered
<1>9. QED
  BY <1>2, <1>3, <1>5, <1>6, <1>8 DEF Inv

LEMMA NextInv ==
  ASSUME Inv, [Next]_vars
  PROVE  Inv'
<1>1. CASE Next
  <2>1. CASE StartThread
    BY <2>1, StartThreadKeeps
  <2>2. CASE LeaveLoop
    BY <2>2, LeaveLoopKeeps
  <2>3. ASSUME NEW c \in Calls, Reuse(c) \/ Refuse(c) \/ Launch(c)
        PROVE  Inv'
    BY <2>3, ReuseKeeps, RefuseKeeps, LaunchKeeps
  <2>4. CASE Starting
    BY <2>4, OnProfileKeeps, ProfileLockedKeeps, WithoutProfileKeeps, LaunchFailsKeeps,
       LoadPageKeeps, LoadFailsKeeps DEF Starting
  <2>5. CASE Closing
    BY <2>5, PopEntryKeeps, CloseBrowserKeeps DEF Closing
  <2>6. ASSUME NEW b \in Ids, PageCloses(b) \/ BrowserDies(b)
        PROVE  Inv'
    BY <2>6, PageClosesKeeps, BrowserDiesKeeps
  <2>7. QED
    BY <1>1, <2>1, <2>2, <2>3, <2>4, <2>5, <2>6 DEF Next
<1>2. CASE UNCHANGED vars
  <2>1. UNCHANGED <<browser, profile, lock, entry, thread, at, call, mine, attempts, left>>
    BY <1>2 DEF vars, worldVars, threadVars
  <2>2. TypeOK' /\ Budget' /\ (IsCalm' => IsCalm) /\ Blamed' = Blamed
    BY <2>1 DEF Inv, TypeOK, Budget, IsCalm, Blamed
  <2>3. Stages' /\ NeverRefused'
    BY <2>1 DEF Inv, Stages, NeverRefused, Open
  <2>4. Running' = Running /\ Owner' = Owner /\ Orphans' = Orphans
    BY <2>1 DEF Running, Owner, Orphans
  <2>5. (Tidy => Tidy') /\ OwedPage' = OwedPage /\ OwedTask' = OwedTask
    BY <2>1, <2>4 DEF Tidy, OwedPage, OwedTask
  <2>6. QED
    BY <2>2, <2>3, <2>4, <2>5 DEF Inv, Covered
<1>3. QED
  BY <1>1, <1>2

LEMMA AlwaysInv == Spec => []Inv
<1>1. Init => Inv
  BY InitInv
<1>2. Inv /\ [Next]_vars => Inv'
  BY NextInv
<1>3. QED
  BY <1>1, <1>2, PTL DEF Spec

\* Every variable keeps its type.
THEOREM TypeCorrect == Spec => []TypeOK
<1>1. Inv => TypeOK
  BY DEF Inv
<1>2. QED
  BY <1>1, AlwaysInv, PTL

\* An open page outlives its thread in no case, so the check of the thread's ident in
\* the pool never refuses the next one.
THEOREM NextThreadWelcome == Spec => []NeverRefused
<1>1. Inv => NeverRefused
  BY DEF Inv
<1>2. QED
  BY <1>1, AlwaysInv, PTL

\* While no call has raised, no page was closed and no task found its page closed, at
\* most one browser runs, and on the profile.
THEOREM CalmIsTidy == Spec => []CalmKeepsProfile
<1>1. ASSUME Inv
      PROVE  CalmKeepsProfile
  <2>1. SUFFICES ASSUME Blamed = 0
                 PROVE  Cardinality(Running) <= 1 /\ Running = profile /\ attempts = 0
    BY DEF CalmKeepsProfile
  <2>2. Tidy
    BY <1>1, <2>1, BlamedType DEF Inv
  <2>3. Cardinality(Owner) <= 1
    <3>1. Owner = {} \/ \E b : Owner = {b}
      BY DEF Owner
    <3>2. CASE Owner = {}
      BY <3>2, FS_EmptySet
    <3>3. ASSUME NEW b, Owner = {b}
          PROVE  Cardinality(Owner) <= 1
      <4>1. Cardinality({b}) = 1
        BY FS_Singleton
      <4>2. QED
        BY <3>3, <4>1
    <3>4. QED
      BY <3>1, <3>2, <3>3
  <2>4. QED
    BY <2>2, <2>3 DEF Tidy
<1>2. QED
  BY <1>1, AlwaysInv, PTL

\* There are never more browsers that nobody will close than calls that raised, pages
\* that were closed and tasks that found their page closed.
THEOREM OrphansCounted == Spec => []OrphansAccounted
<1>1. ASSUME Inv
      PROVE  OrphansAccounted
  <2>1. /\ Blamed \in Nat /\ Cardinality(Orphans) \in Nat
        /\ OwedPage \in Nat /\ OwedTask \in Nat
    BY <1>1, BlamedType, OrphansFinite, OwedType DEF Inv
  <2>2. Cardinality(Orphans) + OwedPage + OwedTask <= Blamed
    BY <1>1 DEF Inv, Covered
  <2>3. Cardinality(Orphans) <= Blamed
    BY <2>1, <2>2
  <2>4. QED
    BY <2>3 DEF OrphansAccounted
<1>2. QED
  BY <1>1, AlwaysInv, PTL
=============================================================================
