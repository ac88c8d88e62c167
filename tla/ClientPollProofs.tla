-------------------------- MODULE ClientPollProofs --------------------------
(***************************************************************************)
(* What a polling client may rely on, for any number of tasks and however  *)
(* many session rows and pool entries come and go.  A poll reads the row   *)
(* first and everything else later, so the invariant says what the         *)
(* handler's locals and the client's last answer still tell of a row that  *)
(* has moved on since.                                                     *)
(***************************************************************************)
EXTENDS ClientPoll, TLAPS

Reading(t) == at[t] \in {"reply", "sessions", "entries"}

\* The status of a row that was s when it was read, until the table is purged.
Later(s) == IF s = "PENDING" THEN Open \cup Final
            ELSE IF s = "DISPATCHED" THEN {"DISPATCHED", "COMPLETED", "FAILED"}
            ELSE {s}

RowSound(t) ==
    /\ at[t] # "new" => status[t] # "absent"
    /\ status[t] = "COMPLETED" => replies[t] = 1
    /\ status[t] \in {"absent", "PENDING", "FAILED", "CRITICAL"} => replies[t] = 0

ReadSound(t) ==
    /\ Reading(t) => row[t] \in Open \cup Final /\ status[t] \in Later(row[t])
    /\ at[t] \in {"sessions", "entries"} => row[t] \in Open /\ api[t] = "task"

MadeUp(t) == told[t].status = "CRITICAL" /\ api[t] = "task" /\ row[t] \in Open

ToldSound(t) ==
    /\ told[t].status = "COMPLETED" => told[t].reply
    /\ told[t].status = "FAILED" => ~told[t].reply
    /\ told[t].status = "DISPATCHED" => status[t] \in Later("DISPATCHED") \cup {"purged"}
    /\ told[t].status = "DISPATCHED" /\ Reading(t) => row[t] \in Later("DISPATCHED")
    /\ told[t].status \in Final =>
          /\ at[t] \in {"told", "final"}
          /\ status[t] \in {told[t].status, "purged"} \/ MadeUp(t)
    /\ at[t] = "final" => told[t].status \in Final

Sound(t) == RowSound(t) /\ ReadSound(t) /\ ToldSound(t)

Inv == TypeOK /\ \A t \in Tasks : Sound(t)

\* What one task's conjuncts speak about.
View(t) == <<status[t], replies[t], at[t], api[t], row[t], told[t]>>

LEMMA Frame ==
  ASSUME NEW t, Sound(t), View(t)' = View(t)
  PROVE  Sound(t)'
  BY DEF View, Sound, RowSound, ReadSound, ToldSound, Reading, MadeUp
-----------------------------------------------------------------------------
(* The rows move on: what was read of them stays true of their past.       *)

LEMMA RowMoves ==
  ASSUME Inv, NEW t \in Tasks, Dispatch(t)
  PROVE  Inv'
<1> USE DEF Pool!Move, Pool!Reject, Pool!Claim, Pool!Answer, Pool!Complete, Pool!Fail
<1>1. /\ UNCHANGED <<json, envVars, at, api, row, raw, listed, told, late>>
      /\ UNCHANGED owner
  BY DEF Dispatch
<1>2. \/ /\ status' = [status EXCEPT ![t] = status'[t]]
         /\ replies' = replies /\ status'[t] # status[t]
         /\ \/ status[t] = "PENDING" /\ status'[t] \in {"DISPATCHED", "CRITICAL"}
            \/ status[t] = "DISPATCHED" /\ status'[t] = "COMPLETED" /\ replies[t] = 1
            \/ status[t] = "DISPATCHED" /\ status'[t] = "FAILED" /\ replies[t] = 0
      \/ /\ status[t] = "DISPATCHED" /\ status' = status
         /\ replies[t] = 0 /\ replies' = [replies EXCEPT ![t] = 1]
  BY DEF Dispatch, Inv, TypeOK
<1>3. TypeOK'
  BY <1>1, <1>2 DEF Inv, TypeOK, Pool!Statuses, envVars
<1>4. Sound(t)'
  <2>1. RowSound(t)'
    BY <1>2 DEF Inv, TypeOK, Sound, RowSound
  <2>2. ReadSound(t)'
    BY <1>1, <1>2 DEF Inv, TypeOK, Sound, ReadSound, Reading, Later, Open, Final
  <2>3. ToldSound(t)'
    BY <1>1, <1>2 DEF Inv, TypeOK, Sound, ToldSound, Reading, Later, MadeUp, Final
  <2>4. QED
    BY <2>1, <2>2, <2>3 DEF Sound
<1>5. \A u \in Tasks \ {t} : Sound(u)'
  BY <1>1, <1>2, Frame DEF Inv, TypeOK, View
<1>6. QED
  BY <1>3, <1>4, <1>5 DEF Inv

LEMMA RestartKeeps ==
  ASSUME Inv, Restart
  PROVE  Inv'
<1>1. /\ UNCHANGED <<owner, replies, json, sess, api, row, raw, listed, told, late>>
      /\ entries' = {} /\ left \in Nat /\ left > 0 /\ left' = left - 1
      /\ status' = [t \in Tasks |->
                      IF status[t] = "absent" THEN "absent" ELSE "purged"]
      /\ at' = [t \in Tasks |-> IF InRequest(t) THEN "raised" ELSE at[t]]
  BY ClientAssumption DEF Restart, Spend, Pool!Purge, Inv, TypeOK
<1>2. TypeOK'
  BY <1>1, ClientAssumption DEF Inv, TypeOK, Pool!Statuses
<1>3. ASSUME NEW t \in Tasks PROVE Sound(t)'
  <2>1. Sound(t)
    BY DEF Inv
  <2>2. RowSound(t)' /\ ReadSound(t)'
    BY <1>1, <2>1 DEF Sound, RowSound, ReadSound, Reading, InRequest
  <2>3. ToldSound(t)'
    BY <1>1, <2>1 DEF Sound, ToldSound, Reading, InRequest, MadeUp, Later, Final
  <2>4. QED
    BY <2>2, <2>3 DEF Sound
<1>4. QED
  BY <1>2, <1>3 DEF Inv
-----------------------------------------------------------------------------
(* A client and its request.                                               *)

Places == {"new", "posting", "asking", "get", "reply", "sessions", "entries",
           "told", "final", "timeout", "raised"}

LEMMA PostKeeps ==
  ASSUME Inv, NEW t \in Tasks, Post(t)
  PROVE  Inv'
<1>1. /\ UNCHANGED <<replies, json, envVars, api, row, raw, listed, told, late>>
      /\ status[t] = "absent" /\ status' = [status EXCEPT ![t] = "PENDING"]
      /\ \E o \in Idents \cup {None} : owner' = [owner EXCEPT ![t] = o]
      /\ at[t] = "new" /\ at' = [at EXCEPT ![t] = "posting"]
  BY DEF Post, Go, Pool!Submit, Pool!Move
<1>2. TypeOK'
  BY <1>1 DEF Inv, TypeOK, envVars, Pool!Statuses
<1>3. Sound(t)'
  BY <1>1 DEF Inv, TypeOK, Sound, RowSound, ReadSound, ToldSound, Reading, Later, Final
<1>4. \A u \in Tasks \ {t} : Sound(u)'
  BY <1>1, Frame DEF Inv, TypeOK, View
<1>5. QED
  BY <1>2, <1>3, <1>4 DEF Inv

\* The client moves to a place where no reads are under way.
LEMMA MoveKeeps ==
  ASSUME Inv, NEW t \in Tasks, NEW place \in {"asking", "get", "raised", "final", "timeout"},
         at[t] # "new", Go(t, place), told[t].status \in Final <=> place = "final",
         UNCHANGED <<poolVars, json, envVars, api, row, raw, listed, told, late>>
  PROVE  Inv'
<1>1. at' = [at EXCEPT ![t] = place]
  BY DEF Go
<1>2. TypeOK'
  BY <1>1 DEF Inv, TypeOK, poolVars, envVars
<1>3. Sound(t)'
  BY <1>1 DEF Inv, TypeOK, Sound, RowSound, ReadSound, ToldSound, Reading, MadeUp, poolVars
<1>4. \A u \in Tasks \ {t} : Sound(u)'
  BY <1>1, Frame DEF Inv, TypeOK, View, poolVars
<1>5. QED
  BY <1>2, <1>3, <1>4 DEF Inv

LEMMA ReadRowKeeps ==
  ASSUME Inv, NEW t \in Tasks, ReadRow(t)
  PROVE  Inv'
<1>1. /\ UNCHANGED <<poolVars, json, envVars, api, raw, listed, told, late>>
      /\ at[t] = "get" /\ at' = [at EXCEPT ![t] = "reply"]
      /\ status[t] # "purged" /\ row' = [row EXCEPT ![t] = status[t]]
  BY DEF ReadRow, Go
<1>2. status[t] \in Open \cup Final
  BY <1>1 DEF Inv, TypeOK, Sound, RowSound, Pool!Statuses, Open, Final
<1>3. TypeOK'
  BY <1>1, <1>2 DEF Inv, TypeOK, poolVars, envVars
<1>4. Sound(t)'
  <2>1. RowSound(t)' /\ ReadSound(t)'
    BY <1>1, <1>2 DEF Inv, TypeOK, Sound, RowSound, ReadSound, Reading, Later, Open, Final,
                      poolVars
  <2>2. ToldSound(t)'
    BY <1>1, <1>2 DEF Inv, TypeOK, Sound, ToldSound, Reading, Later, Open, Final, poolVars
  <2>3. QED
    BY <2>1, <2>2 DEF Sound
<1>5. \A u \in Tasks \ {t} : Sound(u)'
  BY <1>1, Frame DEF Inv, TypeOK, View, poolVars
<1>6. QED
  BY <1>3, <1>4, <1>5 DEF Inv

\* The handler goes on to its next read: the row is still open to it.
LEMMA GoOnKeeps ==
  ASSUME Inv, NEW t \in Tasks, NEW place \in {"sessions", "entries"},
         Reading(t), row[t] \in Open, api[t] = "task",
         at' = [at EXCEPT ![t] = place],
         UNCHANGED <<poolVars, json, envVars, api, row, told, late>>,
         raw' \in [Tasks -> BOOLEAN], listed' \in [Tasks -> SUBSET Providers]
  PROVE  Inv'
<1>1. TypeOK'
  BY DEF Inv, TypeOK, poolVars, envVars
<1>2. Sound(t)'
  BY DEF Inv, TypeOK, Sound, RowSound, ReadSound, ToldSound, Reading, MadeUp, poolVars
<1>3. \A u \in Tasks \ {t} : Sound(u)'
  BY Frame DEF Inv, TypeOK, View, poolVars
<1>4. QED
  BY <1>1, <1>2, <1>3 DEF Inv

\* The handler answers with the status it has read, or makes a CRITICAL up.
LEMMA AnswerKeeps ==
  ASSUME Inv, NEW t \in Tasks, NEW s, NEW found \in BOOLEAN,
         Reading(t), Answer(t, s, found),
         \/ s = row[t] /\ row[t] \in Open
         \/ s = row[t] /\ found = (replies[t] = 1)
         \/ s = "CRITICAL" /\ row[t] \in Open /\ api[t] = "task",
         UNCHANGED <<poolVars, json, envVars, api, row, late>>,
         raw' \in [Tasks -> BOOLEAN], listed' \in [Tasks -> SUBSET Providers]
  PROVE  Inv' /\ Rank(told'[t].status) >= Rank(told[t].status)
<1> DEFINE new == [status |-> s, reply |-> found, json |-> found /\ t \in json]
<1>1. told' = [told EXCEPT ![t] = new] /\ at' = [at EXCEPT ![t] = "told"]
  BY DEF Answer, Go
<1>2. Sound(t) /\ row[t] \in Open \cup Final /\ status[t] \in Later(row[t])
  BY DEF Inv, Sound, ReadSound
<1>3. s \in Open \cup Final
  BY <1>2 DEF Final
<1>4. new \in [status : Open \cup Final \cup {"unknown"}, reply : BOOLEAN, json : BOOLEAN]
  BY <1>3
<1>5. told'[t] = new /\ at'[t] = "told"
  BY <1>1 DEF Inv, TypeOK
<1>6. TypeOK'
  BY <1>1, <1>4 DEF Inv, TypeOK, poolVars, envVars
<1>7. RowSound(t)' /\ ReadSound(t)'
  BY <1>2, <1>5 DEF Sound, RowSound, ReadSound, Reading, poolVars
<1>8. ToldSound(t)'
  BY <1>2, <1>3, <1>5 DEF Sound, RowSound, ReadSound, ToldSound, Reading, MadeUp, Later,
                          Open, Final, poolVars
<1>9. \A u \in Tasks \ {t} : Sound(u)'
  BY <1>1, Frame DEF Inv, TypeOK, View, poolVars
<1>10. Rank(told'[t].status) >= Rank(told[t].status)
  <2>1. told[t].status \in Open \cup {"unknown"}
    BY DEF Reading, Inv, TypeOK, Sound, ToldSound
  <2>2. told[t].status = "DISPATCHED" => s # "PENDING"
    BY <1>2 DEF Sound, ToldSound, Later, Open
  <2>3. QED
    BY <1>3, <1>5, <2>1, <2>2 DEF Rank, Open, Final
<1>11. QED
  BY <1>6, <1>7, <1>8, <1>9, <1>10 DEF Inv, Sound

\* A step leaves the rank of every last answer, or raises it.
Onward == \A t \in Tasks : Rank(told'[t].status) >= Rank(told[t].status)

LEMMA RankType == \A s : Rank(s) \in Nat
  BY DEF Rank

LEMMA OnwardUnchanged == told' = told => Onward
  BY RankType DEF Onward

LEMMA ClientKeeps ==
  ASSUME Inv, NEW t \in Tasks, Client(t) \/ PostFails(t) \/ Posted(t) \/ NotFound(t)
  PROVE  Inv' /\ Onward
<1>1. told' = told
  BY DEF Client, Post, Ask, Decide, PostFails, Posted, NotFound, Raise
<1>2. CASE Post(t)
  BY <1>1, <1>2, PostKeeps, OnwardUnchanged
<1>3. CASE Ask(t) \/ PostFails(t) \/ Posted(t) \/ NotFound(t)
  <2>1. told[t].status \notin Final
    BY <1>3 DEF Inv, Sound, ToldSound, Ask, PostFails, Posted, NotFound
  <2>2. \E place \in {"asking", "get", "raised"} :
           /\ at[t] # "new" /\ Go(t, place)
           /\ UNCHANGED <<poolVars, json, envVars, api, row, raw, listed, told, late>>
    BY <1>3 DEF Ask, PostFails, Posted, NotFound, Raise
  <2>3. QED
    BY <1>1, <2>1, <2>2, MoveKeeps, OnwardUnchanged
<1>4. CASE Decide(t)
  <2>1. \E place \in {"asking", "final", "timeout"} :
           /\ at[t] # "new" /\ Go(t, place)
           /\ told[t].status \in Final <=> place = "final"
           /\ UNCHANGED <<poolVars, json, envVars, api, row, raw, listed, told, late>>
    BY <1>4 DEF Decide
  <2>2. QED
    BY <1>1, <2>1, MoveKeeps, OnwardUnchanged
<1>5. QED
  BY <1>2, <1>3, <1>4 DEF Client

\* An answer to one client is all that happens to the last answers.
LEMMA OneAnswer ==
  ASSUME Inv, NEW t \in Tasks, NEW s, NEW found, Answer(t, s, found),
         Rank(told'[t].status) >= Rank(told[t].status)
  PROVE  Onward
  BY RankType DEF Answer, Onward, Inv, TypeOK

LEMMA ReadKeeps ==
  ASSUME Inv, NEW t \in Tasks,
         ReadReply(t) \/ ReadSessions(t) \/ ReadEntry(t)
  PROVE  Inv' /\ Onward
<1>1. /\ Reading(t) /\ ReadSound(t)
      /\ UNCHANGED <<poolVars, json, envVars, api, row, late>>
      /\ raw[t] \in BOOLEAN /\ raw \in [Tasks -> BOOLEAN]
      /\ listed \in [Tasks -> SUBSET Providers]
  BY DEF Inv, TypeOK, Sound, Reading, ReadReply, ReadSessions, ReadEntry
<1>2. CASE ReadReply(t)
  <2>1. raw' = [raw EXCEPT ![t] = replies[t] = 1] /\ listed' = listed
    BY <1>2 DEF ReadReply
  <2>2. raw' \in [Tasks -> BOOLEAN] /\ raw'[t] = (replies[t] = 1) /\ raw'[t] \in BOOLEAN
    BY <1>1, <2>1
  <2>3. CASE row[t] \in Open /\ api[t] = "task"
    <3>1. at' = [at EXCEPT ![t] = "sessions"] /\ told' = told
      BY <1>2, <2>3 DEF ReadReply, Go
    <3>2. QED
      BY <1>1, <2>1, <2>2, <2>3, <3>1, GoOnKeeps, OnwardUnchanged
  <2>4. CASE ~(row[t] \in Open /\ api[t] = "task")
    <3>1. Answer(t, row[t], raw'[t])
      BY <1>2, <2>4 DEF ReadReply
    <3>2. QED
      BY <1>1, <2>1, <2>2, <3>1, AnswerKeeps, OneAnswer
  <2>5. QED
    BY <2>3, <2>4
<1>3. CASE ReadSessions(t)
  <2>1. row[t] \in Open /\ api[t] = "task"
    BY <1>1, <1>3 DEF ReadSound, ReadSessions
  <2>2. raw' = raw /\ listed' \in [Tasks -> SUBSET Providers]
    BY <1>1, <1>3 DEF ReadSessions, Inv, TypeOK
  <2>3. \/ Answer(t, "CRITICAL", raw[t])
        \/ at' = [at EXCEPT ![t] = "entries"] /\ told' = told
    BY <1>3 DEF ReadSessions, Go
  <2>4. QED
    BY <1>1, <2>1, <2>2, <2>3, AnswerKeeps, GoOnKeeps, OneAnswer, OnwardUnchanged
<1>4. CASE ReadEntry(t)
  <2>1. row[t] \in Open /\ api[t] = "task" /\ at[t] = "entries"
    BY <1>1, <1>4 DEF ReadSound, ReadEntry
  <2>2. raw' = raw /\ listed' \in [Tasks -> SUBSET Providers]
    BY <1>1, <1>4 DEF ReadEntry
  <2>3. \/ \E s \in {row[t], "CRITICAL"} : Answer(t, s, raw[t])
        \/ at' = at /\ told' = told
    BY <1>4 DEF ReadEntry
  <2>4. at' = at => at' = [at EXCEPT ![t] = "entries"]
    BY <2>1 DEF Inv, TypeOK
  <2>5. QED
    BY <1>1, <2>1, <2>2, <2>3, <2>4, AnswerKeeps, GoOnKeeps, OneAnswer, OnwardUnchanged
<1>5. QED
  BY <1>2, <1>3, <1>4

LEMMA AroundKeeps ==
  ASSUME Inv, (\E t \in Tasks : TimePasses(t)) \/ Change
  PROVE  Inv' /\ Onward
<1>1. UNCHANGED <<poolVars, json, at, api, row, raw, listed, told>>
  BY DEF TimePasses, Change, Spend, Pool!SessionChanges, Pool!EntryChanges, Pool!rows,
         poolVars, envVars
<1>2. late' \subseteq Tasks /\ sess' \subseteq Providers /\ entries' \subseteq Providers
  BY DEF TimePasses, Change, Spend, Pool!SessionChanges, Pool!EntryChanges, Pool!rows,
         poolVars, envVars, Inv, TypeOK
<1>3. left' \in 0..MaxChanges
  BY ClientAssumption DEF TimePasses, Change, Spend, Pool!SessionChanges, Pool!EntryChanges, Pool!rows,
         poolVars, envVars, Inv, TypeOK
<1>4. TypeOK'
  BY <1>1, <1>2, <1>3 DEF Inv, TypeOK, poolVars
<1>5. \A t \in Tasks : Sound(t)'
  BY <1>1, Frame DEF Inv, View, poolVars
<1>6. QED
  BY <1>1, <1>4, <1>5, OnwardUnchanged DEF Inv
-----------------------------------------------------------------------------
LEMMA InitInv == Init => Inv
<1>1. SUFFICES ASSUME Init PROVE Inv
  OBVIOUS
<1>2. TypeOK
  BY <1>1, ClientAssumption DEF Init, Pool!Init, TypeOK, Pool!Statuses, Unknown
<1>3. ASSUME NEW t \in Tasks PROVE Sound(t)
  BY <1>1, <1>3 DEF Init, Pool!Init, Unknown, Sound, RowSound, ReadSound, ToldSound,
                    Reading, Final
<1>4. QED
  BY <1>2, <1>3 DEF Inv

LEMMA StepInv == Inv /\ [Next]_vars => Inv' /\ Onward
<1>1. SUFFICES ASSUME Inv, [Next]_vars PROVE Inv' /\ Onward
  OBVIOUS
<1>2. CASE UNCHANGED vars
  <2>1. TypeOK' /\ told' = told
    BY <1>1, <1>2 DEF Inv, TypeOK, vars, poolVars, envVars
  <2>2. \A t \in Tasks : Sound(t)'
    BY <1>1, <1>2, Frame DEF Inv, View, vars, poolVars, envVars
  <2>3. QED
    BY <2>1, <2>2, OnwardUnchanged DEF Inv
<1>3. CASE \E t \in Tasks : Client(t) \/ Request(t)
  BY <1>1, <1>3, ClientKeeps, ReadRowKeeps, OnwardUnchanged, ReadKeeps DEF Request, ReadRow
<1>4. CASE \E t \in Tasks : Dispatch(t)
  BY <1>1, <1>4, RowMoves, OnwardUnchanged DEF Dispatch
<1>5. CASE Restart
  BY <1>1, <1>5, RestartKeeps, OnwardUnchanged DEF Restart
<1>6. QED
  BY <1>1, <1>2, <1>3, <1>4, <1>5, AroundKeeps DEF Next

\* Every variable keeps its type, the locals of the handlers too.
THEOREM TypeCorrect == Spec => []TypeOK
<1>1. Inv => TypeOK
  BY DEF Inv
<1>2. QED
  BY InitInv, StepInv, <1>1, PTL DEF Spec

\* A COMPLETED answer carries a reply and a FAILED one does not, although the row and
\* its reply are read in two transactions (_build_task_payload).
THEOREM AnswersAreWhole == Spec => []AnswerIsWhole
<1>1. Inv => AnswerIsWhole
  BY DEF Inv, Sound, ToldSound, AnswerIsWhole
<1>2. QED
  BY InitInv, StepInv, <1>1, PTL DEF Spec

\* A client stops with the status its row keeps until the table is purged; only the
\* CRITICAL that get_task makes up itself may be contradicted by the row.
THEOREM VerdictsHold == Spec => []VerdictHolds
<1>1. Inv => VerdictHolds
  BY DEF Inv, Sound, ToldSound, MadeUp, VerdictHolds
<1>2. QED
  BY InitInv, StepInv, <1>1, PTL DEF Spec

\* No poll answers with an earlier status than the one before, whatever the workers,
\* the sessions and the server do between its reads.
THEOREM PollsGoOn == Spec => NeverBackwards
<1>1. Inv /\ [Next]_vars => [Onward]_vars
  BY StepInv
<1>2. Inv /\ [Next]_vars => [\A t \in Tasks : Rank(told'[t].status) >= Rank(told[t].status)]_vars
  BY <1>1 DEF Onward
<1>3. QED
  BY InitInv, StepInv, <1>2, PTL DEF Spec, NeverBackwards
=============================================================================
