-------------------------- MODULE CommandQueueProofs --------------------------
(***************************************************************************)
(* Whatever the order in which the workers take the shared queue apart and *)
(* put it back, a command ends up with the thread it is addressed to, and  *)
(* nothing is lost, executed twice or answered without an execution.  The  *)
(* first invariant adds to the types that whatever is on its way has been  *)
(* sent (put_command gives a target to a command that nobody holds), the   *)
(* second says where each command lies.  A worker that shares the queue    *)
(* with nobody never blocks in get().  Where each command lies is also the *)
(* mapping to CommandBox, and the order of the lone worker's executions is *)
(* read off the box.                                                       *)
(***************************************************************************)
EXTENDS MCCommandQueue, SequenceTheorems, FiniteSetTheorems, TLAPS

\* The commands that have been sent.
Out == {c \in Commands : Sent(c)}

ChannelOK == /\ cmd \in [Commands -> Command \cup {None}]
             /\ queue \in Seq(Out)
             /\ temp \in [Workers -> Seq(Out)]
             /\ found \in [Workers -> Out \cup {None}]
             /\ pc \in [Workers -> Places]

RestOK == /\ results \in Seq(Commands) /\ held \in Seq(Commands)
          /\ old \subseteq Commands /\ dropped \subseteq Commands
          /\ waiting \in Commands \cup {None}
          /\ answer \in [Commands -> {"none", "result", "timeout"}]
          /\ seen \in [Workers -> SUBSET Commands]
          /\ runs \in [Commands -> Nat]

\* The place that temp and found fit to.
Stage == \A w \in Workers : /\ pc[w] = "handle" => found[w] # None
                            /\ pc[w] \in {"poll", "handle", "dead"} => temp[w] = <<>>

Targets == \A w \in Workers : found[w] # None => cmd[found[w]].target = w

Inv == ChannelOK /\ RestOK /\ Stage /\ Targets

LEMMA OutIsCommands == Out \subseteq Commands /\ None \notin Out
  BY QueueAssumption DEF Out

LEMMA CommandsAreRecords ==
  ASSUME NEW k \in Kinds, NEW w \in Workers
  PROVE  /\ [kind |-> k, target |-> w] \in Command
         /\ [kind |-> k, target |-> w] # None
<1>1. [kind |-> k, target |-> w] \in Command
  BY DEF Command
<1>2. QED
  BY <1>1, QueueAssumption

\* put_command changes nothing for the commands that are on their way.
LEMMA PutKeeps ==
  ASSUME Inv, NEW c \in Commands, Put(c)
  PROVE  Inv'
<1>1. PICK k \in Kinds, w \in Workers :
         /\ cmd' = [cmd EXCEPT ![c] = [kind |-> k, target |-> w]]
         /\ waiting' = IF k \in Awaited THEN c ELSE None
  BY DEF Put
<1>2. /\ queue' = Append(queue, c)
      /\ UNCHANGED <<results, old, held, answer, pc, seen, temp, found, runs, dropped>>
      /\ c \notin Out
  BY DEF Put, workerVars, Out
<1>3. cmd' \in [Commands -> Command \cup {None}]
  BY <1>1, CommandsAreRecords DEF Inv, ChannelOK
<1>4. cmd'[c] # None /\ \A d \in Commands \ {c} : cmd'[d] = cmd[d]
  BY <1>1, CommandsAreRecords DEF Inv, ChannelOK
<1>5. Out \subseteq Out' /\ c \in Out'
  BY <1>4 DEF Out, Sent
<1>6. queue' \in Seq(Out')
  <2>1. queue \in Seq(Out')
    BY <1>5, SeqMonotonic DEF Inv, ChannelOK
  <2>2. QED
    BY <1>2, <1>5, <2>1, AppendProperties
<1>7. temp' \in [Workers -> Seq(Out')]
  <2>1. \A w1 \in Workers : temp[w1] \in Seq(Out')
    BY <1>5, SeqMonotonic DEF Inv, ChannelOK
  <2>2. QED
    BY <1>2, <2>1 DEF Inv, ChannelOK
<1>8. found' \in [Workers -> Out' \cup {None}]
  BY <1>2, <1>5 DEF Inv, ChannelOK
<1>9. ChannelOK'
  BY <1>2, <1>3, <1>6, <1>7, <1>8 DEF Inv, ChannelOK
<1>10. RestOK'
  BY <1>1, <1>2 DEF Inv, RestOK
<1>11. Stage'
  BY <1>2 DEF Inv, Stage
<1>12. Targets'
  <2>1. SUFFICES ASSUME NEW v \in Workers, found[v] # None
                 PROVE  cmd'[found[v]].target = v
    BY <1>2 DEF Targets
  <2>2. found[v] \in Commands \ {c}
    BY <1>2, <2>1, OutIsCommands DEF Inv, ChannelOK
  <2>3. QED
    BY <1>4, <2>1, <2>2 DEF Inv, Targets
<1>13. QED
  BY <1>9, <1>10, <1>11, <1>12 DEF Inv

\* The handlers that wait and the clock touch no command on its way.
LEMMA WaitKeeps ==
  ASSUME Inv, TakeResult \/ GiveUp \/ \E c \in Commands : Age(c)
  PROVE  Inv'
<1>1. UNCHANGED <<queue, cmd, pc, seen, temp, found, runs, dropped>>
  BY DEF TakeResult, GiveUp, Age, workerVars
<1>2. ChannelOK' /\ Stage' /\ Targets'
  BY <1>1 DEF Inv, ChannelOK, Stage, Targets, Out, Sent
<1>3. CASE TakeResult
  <2>1. /\ Head(results) \in Commands /\ Tail(results) \in Seq(Commands)
        /\ held \in Seq(Commands)
    BY <1>3, HeadTailProperties DEF Inv, RestOK, TakeResult
  <2>2. /\ Tail(results) \o held \in Seq(Commands)
        /\ Append(held, Head(results)) \in Seq(Commands)
    BY <2>1, ConcatProperties, AppendProperties
  <2>3. held' \in Seq(Commands) /\ results' \in Seq(Commands)
    <3>1. CASE Head(results) = waiting
      BY <1>3, <2>2, <3>1, EmptySeq DEF TakeResult
    <3>2. CASE Head(results) # waiting
      BY <1>3, <2>1, <2>2, <3>2 DEF TakeResult
    <3>3. QED
      BY <3>1, <3>2
  <2>4. waiting' \in Commands \cup {None} /\ old' \subseteq Commands
    BY <1>3 DEF Inv, RestOK, TakeResult
  <2>5. answer' \in [Commands -> {"none", "result", "timeout"}]
    BY <1>3 DEF Inv, RestOK, TakeResult
  <2>6. QED
    BY <1>1, <1>2, <2>3, <2>4, <2>5 DEF Inv, RestOK
<1>4. CASE GiveUp
  <2>1. results' \in Seq(Commands) /\ held' \in Seq(Commands)
    BY <1>4, ConcatProperties, EmptySeq DEF Inv, RestOK, GiveUp
  <2>2. QED
    BY <1>1, <1>2, <1>4, <2>1 DEF Inv, RestOK, GiveUp
<1>5. CASE \E c \in Commands : Age(c)
  BY <1>1, <1>2, <1>5 DEF Inv, RestOK, Age, apiVars
<1>6. QED
  BY <1>3, <1>4, <1>5
-----------------------------------------------------------------------------
(* The workers.                                                            *)

\* A step that moves one worker to a place where nothing is asked of it.
LEMMA GoKeeps ==
  ASSUME Inv, NEW w \in Workers, NEW place \in {"check", "get", "putback"},
         pc' = [pc EXCEPT ![w] = place],
         UNCHANGED <<queue, results, cmd, old, waiting, held, answer, temp, found, runs,
                     dropped>>,
         seen' \in [Workers -> SUBSET Commands]
  PROVE  Inv'
<1>1. ChannelOK'
  BY DEF Inv, ChannelOK, Places, Out, Sent
<1>2. RestOK'
  BY DEF Inv, RestOK
<1>3. Stage' /\ Targets'
  BY DEF Inv, ChannelOK, Stage, Targets
<1>4. QED
  BY <1>1, <1>2, <1>3 DEF Inv

LEMMA GetKeeps ==
  ASSUME Inv, NEW w \in Workers, Get(w)
  PROVE  Inv'
<1> DEFINE c == Head(queue)
<1>1. c \in Out /\ queue' \in Seq(Out)
  BY HeadTailProperties DEF Inv, ChannelOK, Get
<1>2. c \in Commands /\ c # None
  BY <1>1, OutIsCommands
<1>3. /\ pc' = [pc EXCEPT ![w] = "check"]
      /\ UNCHANGED <<results, cmd, old, waiting, held, answer, seen, runs>>
      /\ Out' = Out
  BY DEF Get, Go, apiVars, Out, Sent
<1>4. \/ dropped' = dropped \cup {c} /\ UNCHANGED <<temp, found>>
      \/ /\ cmd[c].target = w
         /\ found' = [found EXCEPT ![w] = c] /\ UNCHANGED <<temp, dropped>>
      \/ temp' = [temp EXCEPT ![w] = Append(temp[w], c)] /\ UNCHANGED <<found, dropped>>
  BY DEF Get, Mine
<1>5. temp' \in [Workers -> Seq(Out)]
  <2>1. Append(temp[w], c) \in Seq(Out)
    BY <1>1, AppendProperties DEF Inv, ChannelOK
  <2>2. QED
    BY <1>4, <2>1 DEF Inv, ChannelOK
<1>6. found' \in [Workers -> Out \cup {None}] /\ dropped' \subseteq Commands
  BY <1>1, <1>2, <1>4 DEF Inv, ChannelOK, RestOK
<1>7. ChannelOK' /\ RestOK'
  BY <1>1, <1>3, <1>5, <1>6 DEF Inv, ChannelOK, RestOK, Places
<1>8. Stage'
  <2>1. pc[w] = "get"
    BY DEF Get
  <2>2. \A v \in Workers \ {w} : pc'[v] = pc[v] /\ temp'[v] = temp[v] /\ found'[v] = found[v]
    BY <1>3, <1>4 DEF Inv, ChannelOK
  <2>3. pc'[w] = "check"
    BY <1>3 DEF Inv, ChannelOK
  <2>4. QED
    BY <2>2, <2>3 DEF Inv, Stage
<1>9. Targets'
  <2>1. \A v \in Workers : \/ found'[v] = found[v]
                           \/ v = w /\ found'[v] = c /\ cmd[c].target = w
    BY <1>4 DEF Inv, ChannelOK
  <2>2. QED
    BY <1>3, <2>1 DEF Inv, Targets
<1>10. QED
  BY <1>7, <1>8, <1>9 DEF Inv

LEMMA PutBackKeeps ==
  ASSUME Inv, NEW w \in Workers, PutBack(w)
  PROVE  Inv'
<1>1. /\ temp[w] \in Seq(Out) /\ temp[w] # <<>>
      /\ queue \in Seq(Out)
  BY DEF Inv, ChannelOK, PutBack
<1>2. Head(temp[w]) \in Out /\ Tail(temp[w]) \in Seq(Out)
  BY <1>1, HeadTailProperties
<1>3. queue' \in Seq(Out)
  BY <1>1, <1>2, AppendProperties DEF PutBack
<1>4. temp' = [temp EXCEPT ![w] = Tail(temp[w])]
  BY DEF PutBack
<1>5. /\ pc[w] = "putback" /\ Out' = Out
      /\ UNCHANGED <<results, cmd, old, waiting, held, answer, pc, seen, found, runs,
                     dropped>>
  BY DEF PutBack, apiVars, Out, Sent
<1>6. ChannelOK' /\ RestOK'
  BY <1>2, <1>3, <1>4, <1>5 DEF Inv, ChannelOK, RestOK
<1>7. Stage' /\ Targets'
  BY <1>4, <1>5 DEF Inv, ChannelOK, Stage, Targets
<1>8. QED
  BY <1>6, <1>7 DEF Inv

LEMMA EndDrainKeeps ==
  ASSUME Inv, NEW w \in Workers, EndDrain(w)
  PROVE  Inv'
<1>1. /\ pc' = [pc EXCEPT ![w] = IF found[w] = None THEN "poll" ELSE "handle"]
      /\ temp[w] = <<>>
      /\ UNCHANGED <<queue, results, cmd, old, waiting, held, answer, seen, temp, found,
                     runs, dropped>>
  BY DEF EndDrain, Go, apiVars
<1>2. ChannelOK'
  BY <1>1 DEF Inv, ChannelOK, Places, Out, Sent
<1>3. RestOK'
  BY <1>1 DEF Inv, RestOK
<1>4. Stage' /\ Targets'
  BY <1>1 DEF Inv, ChannelOK, Stage, Targets
<1>5. QED
  BY <1>2, <1>3, <1>4 DEF Inv

LEMMA HandleKeeps ==
  ASSUME Inv, NEW w \in Workers, Handle(w)
  PROVE  Inv'
<1> DEFINE c == found[w]
<1>1. pc[w] = "handle" /\ c # None /\ temp[w] = <<>>
  BY DEF Inv, Stage, Handle
<1>2. c \in Commands
  BY <1>1, OutIsCommands DEF Inv, ChannelOK
<1>3. /\ UNCHANGED <<queue, cmd, old, waiting, held, answer, seen, temp, dropped>>
      /\ found' = [found EXCEPT ![w] = None]
      /\ Out' = Out
  BY DEF Handle, apiVars, Out, Sent
<1>4. \E place \in {"dead", "poll"} : pc' = [pc EXCEPT ![w] = place]
  BY DEF Handle, Go
<1>5. results' = Append(results, c) \/ results' = results
  BY DEF Handle
<1>6. results' \in Seq(Commands)
  <2>1. results \in Seq(Commands)
    BY DEF Inv, RestOK
  <2>2. Append(results, c) \in Seq(Commands)
    BY <1>2, <2>1, AppendProperties
  <2>3. QED
    BY <1>5, <2>1, <2>2
<1>7. runs' \in [Commands -> Nat]
  <2>1. runs' = [runs EXCEPT ![c] = runs[c] + 1]
    BY DEF Handle
  <2>2. runs[c] + 1 \in Nat
    BY <1>2 DEF Inv, RestOK
  <2>3. QED
    BY <2>1, <2>2 DEF Inv, RestOK
<1>8. ChannelOK'
  BY <1>3, <1>4 DEF Inv, ChannelOK, Places
<1>9. RestOK'
  BY <1>3, <1>6, <1>7 DEF Inv, RestOK
<1>10. Stage' /\ Targets'
  BY <1>1, <1>3, <1>4 DEF Inv, ChannelOK, Stage, Targets
<1>11. QED
  BY <1>8, <1>9, <1>10 DEF Inv

LEMMA DrainKeeps ==
  ASSUME Inv, NEW w \in Workers, Drain(w)
  PROVE  Inv'
<1>1. CASE BeginDrain(w)
  <2>1. seen' \in [Workers -> SUBSET Commands]
    BY <1>1 DEF BeginDrain, Inv, RestOK
  <2>2. QED
    BY <1>1, <2>1, GoKeeps DEF BeginDrain, Go, apiVars
<1>2. CASE Check(w)
  <2>1. \E place \in {"check", "get", "putback"} : pc' = [pc EXCEPT ![w] = place]
    BY <1>2 DEF Check, Go
  <2>2. seen' \in [Workers -> SUBSET Commands]
    BY <1>2 DEF Check, Inv, RestOK
  <2>3. QED
    BY <1>2, <2>1, <2>2, GoKeeps DEF Check, apiVars
<1>3. QED
  BY <1>1, <1>2, GetKeeps, PutBackKeeps, EndDrainKeeps, HandleKeeps DEF Drain
-----------------------------------------------------------------------------
LEMMA InitInv == Init => Inv
<1>1. SUFFICES ASSUME Init PROVE Inv
  OBVIOUS
<1>2. <<>> \in Seq(Out) /\ <<>> \in Seq(Commands)
  BY EmptySeq
<1>3. ChannelOK
  BY <1>1, <1>2 DEF Init, ChannelOK, Places
<1>4. RestOK
  BY <1>1, <1>2 DEF Init, RestOK
<1>5. Stage /\ Targets
  BY <1>1 DEF Init, Stage, Targets
<1>6. QED
  BY <1>3, <1>4, <1>5 DEF Inv

LEMMA StepInv == Inv /\ [Next]_vars => Inv'
<1>1. SUFFICES ASSUME Inv, [Next]_vars PROVE Inv'
  OBVIOUS
<1>2. CASE UNCHANGED vars
  BY <1>1, <1>2 DEF Inv, ChannelOK, RestOK, Stage, Targets, Out, Sent, vars, apiVars,
                    workerVars
<1>3. QED
  BY <1>1, <1>2, PutKeeps, WaitKeeps, DrainKeeps DEF Next

\* The queues, the commands and the workers' locals keep their types.
THEOREM TypeCorrect == Spec => []TypeOK
<1>1. Inv => TypeOK
  <2>1. SUFFICES ASSUME Inv PROVE TypeOK
    OBVIOUS
  <2>2. queue \in Seq(Commands) /\ temp \in [Workers -> Seq(Commands)]
    BY <2>1, OutIsCommands, SeqMonotonic DEF Inv, ChannelOK
  <2>3. found \in [Workers -> Commands \cup {None}]
    BY <2>1, OutIsCommands DEF Inv, ChannelOK
  <2>4. QED
    BY <2>1, <2>2, <2>3 DEF Inv, ChannelOK, RestOK, TypeOK
<1>2. QED
  BY InitInv, StepInv, <1>1, PTL DEF Spec

\* However many workers drain the queue at once, a command is only ever taken out for
\* good by the thread it is addressed to, and a thread that executes a command, polls or
\* has stopped holds none of the others' (get_command_for_thread).
THEOREM TargetTakes == Spec => []OnlyTargetTakes
<1>1. Inv => OnlyTargetTakes
  BY DEF Inv, Stage, Targets, OnlyTargetTakes
<1>2. QED
  BY InitInv, StepInv, <1>1, PTL DEF Spec
-----------------------------------------------------------------------------
(* Counting in sequences.                                                  *)

\* The places of c in s.
Spots(c, s) == {i \in DOMAIN s : s[i] = c}

\* The same number of places, further on.
LEMMA Shifted ==
  ASSUME NEW I \in SUBSET Nat, IsFiniteSet(I), NEW k \in Nat,
         NEW J, J = {i + k : i \in I}
  PROVE  IsFiniteSet(J) /\ Cardinality(J) = Cardinality(I)
<1> DEFINE f == [i \in I |-> i + k]
<1>1. f \in Bijection(I, J)
  <2>1. f \in [I -> J]
    OBVIOUS
  <2>2. \A a, b \in I : f[a] = f[b] => a = b
    <3>1. SUFFICES ASSUME NEW a \in I, NEW b \in I, a + k = b + k
                   PROVE  a = b
      OBVIOUS
    <3>2. a \in Nat /\ b \in Nat
      OBVIOUS
    <3>3. QED
      BY <3>1, <3>2
  <2>3. \A t \in J : \E a \in I : f[a] = t
    OBVIOUS
  <2>4. QED
    BY <2>1, <2>2, <2>3 DEF Bijection, Injection, Surjection, IsInjective
<1>2. ExistsBijection(I, J)
  BY <1>1 DEF ExistsBijection
<1>3. QED
  BY <1>2, FS_Bijection

LEMMA TimesFinite ==
  ASSUME NEW S, NEW s \in Seq(S), NEW c
  PROVE  /\ Spots(c, s) \in SUBSET (1..Len(s)) /\ IsFiniteSet(Spots(c, s))
         /\ Times(c, s) = Cardinality(Spots(c, s)) /\ Times(c, s) \in Nat
<1>1. Len(s) \in Nat /\ DOMAIN s = 1..Len(s)
  BY LenProperties
<1>2. Spots(c, s) \in SUBSET (1..Len(s))
  BY <1>1 DEF Spots
<1>3. IsFiniteSet(1..Len(s))
  BY <1>1, FS_Interval
<1>4. QED
  BY <1>2, <1>3, FS_Subset, FS_CardinalityType DEF Spots, Times

LEMMA TimesEmpty ==
  ASSUME NEW c
  PROVE  Times(c, <<>>) = 0
<1>1. {i \in DOMAIN <<>> : <<>>[i] = c} = {}
  OBVIOUS
<1>2. QED
  BY <1>1, FS_EmptySet DEF Times

LEMMA TimesConcat ==
  ASSUME NEW S, NEW s \in Seq(S), NEW t \in Seq(S), NEW c
  PROVE  Times(c, s \o t) = Times(c, s) + Times(c, t)
<1> DEFINE k == Len(s)
           J == {i + k : i \in Spots(c, t)}
<1>1. /\ s \o t \in Seq(S) /\ Len(s) \in Nat /\ Len(t) \in Nat
      /\ DOMAIN s = 1..Len(s) /\ DOMAIN t = 1..Len(t)
      /\ DOMAIN (s \o t) = 1..(Len(s) + Len(t))
      /\ \A i \in 1 .. Len(s) + Len(t) :
            (s \o t)[i] = IF i <= Len(s) THEN s[i] ELSE t[i - Len(s)]
  BY ConcatProperties, LenProperties
<1>2. IsFiniteSet(J) /\ Cardinality(J) = Times(c, t)
  <2>1. Spots(c, t) \in SUBSET Nat
    BY <1>1 DEF Spots
  <2>2. QED
    <3>1. /\ IsFiniteSet(Spots(c, t)) /\ Cardinality(Spots(c, t)) = Times(c, t)
          /\ J = {i + k : i \in Spots(c, t)}
      BY TimesFinite
    <3>2. k \in Nat
      BY <1>1
    <3> HIDE DEF J, k
    <3>3. Cardinality(J) = Cardinality(Spots(c, t)) /\ IsFiniteSet(J)
      BY <2>1, <3>1, <3>2, Shifted, Zenon
    <3>4. QED
      BY <3>1, <3>3
<1>3. Spots(c, s \o t) = Spots(c, s) \cup J
  <2>1. ASSUME NEW i \in Spots(c, s \o t)
        PROVE  i \in Spots(c, s) \cup J
    <3>1. CASE i <= Len(s)
      BY <1>1, <2>1, <3>1 DEF Spots
    <3>2. CASE i > Len(s)
      <4>1. i - Len(s) \in Spots(c, t) /\ i = (i - Len(s)) + k
        BY <1>1, <2>1, <3>2 DEF Spots
      <4>2. QED
        BY <4>1
    <3>3. i \in Int
      BY <1>1 DEF Spots
    <3>4. QED
      BY <1>1, <3>1, <3>2, <3>3
  <2>2. ASSUME NEW i \in Spots(c, s)
        PROVE  i \in Spots(c, s \o t)
    BY <1>1, <2>2 DEF Spots
  <2>3. ASSUME NEW i \in Spots(c, t)
        PROVE  i + k \in Spots(c, s \o t)
    BY <1>1, <2>3 DEF Spots
  <2>4. QED
    BY <2>1, <2>2, <2>3
<1>4. Spots(c, s) \cap J = {}
  BY <1>1 DEF Spots
<1>5. Cardinality(Spots(c, s) \cup J) = Cardinality(Spots(c, s)) + Cardinality(J)
  <2>1. IsFiniteSet(Spots(c, s)) /\ Cardinality(Spots(c, s)) \in Nat
    BY TimesFinite
  <2>2. Cardinality(Spots(c, s) \cap J) = 0
    BY <1>4, FS_EmptySet
  <2>3. Cardinality(J) \in Nat
    BY <1>2, FS_CardinalityType
  <2>4. QED
    <3>1. Cardinality(Spots(c, s) \cup J)
             = Cardinality(Spots(c, s)) + Cardinality(J) - Cardinality(Spots(c, s) \cap J)
      BY <1>2, <2>1, FS_Union
    <3> HIDE DEF J
    <3>2. QED
      BY <2>1, <2>2, <2>3, <3>1
<1>6. QED
  BY <1>1, <1>2, <1>3, <1>5, TimesFinite

LEMMA TimesOne ==
  ASSUME NEW x, NEW c
  PROVE  Times(c, <<x>>) = IF x = c THEN 1 ELSE 0
<1>1. {i \in DOMAIN <<x>> : <<x>>[i] = c} = IF x = c THEN {1} ELSE {}
  OBVIOUS
<1>2. QED
  BY <1>1, FS_EmptySet, FS_Singleton DEF Times

LEMMA TimesAppend ==
  ASSUME NEW S, NEW s \in Seq(S), NEW x \in S, NEW c
  PROVE  Times(c, Append(s, x)) = Times(c, s) + (IF x = c THEN 1 ELSE 0)
<1>1. <<x>> \in Seq(S)
  OBVIOUS
<1>2. Append(s, x) = s \o <<x>>
  BY AppendIsConcat
<1>3. Times(c, s \o <<x>>) = Times(c, s) + Times(c, <<x>>)
  BY <1>1, TimesConcat
<1>4. QED
  BY <1>2, <1>3, TimesOne

LEMMA TimesTail ==
  ASSUME NEW S, NEW s \in Seq(S), s # <<>>, NEW c
  PROVE  Times(c, s) = (IF Head(s) = c THEN 1 ELSE 0) + Times(c, Tail(s))
<1>1. Head(s) \in S /\ Tail(s) \in Seq(S)
  BY HeadTailProperties
<1>2. <<Head(s)>> \in Seq(S) /\ <<Head(s)>> \o Tail(s) = s
  BY <1>1
<1>3. Times(c, <<Head(s)>> \o Tail(s)) = Times(c, <<Head(s)>>) + Times(c, Tail(s))
  BY <1>1, <1>2, TimesConcat
<1>4. QED
  BY <1>2, <1>3, TimesOne
-----------------------------------------------------------------------------
(* Nothing is lost and nothing multiplied.                                 *)

\* Where the copies of a command are.
Lies(c, inQueue, holders, finders, times, isDropped) ==
    /\ Times(c, queue) = inQueue /\ Held(c) = holders /\ Finders(c) = finders
    /\ runs[c] = times /\ (c \in dropped <=> isDropped)

\* A command that was sent lies in one place, one that was not in none.
Sole(c) ==
    IF Sent(c)
    THEN \/ Lies(c, 1, {}, {}, 0, FALSE)
         \/ \E w \in Workers : Lies(c, 0, {w}, {}, 0, FALSE) /\ Times(c, temp[w]) = 1
         \/ \E w \in Workers : Lies(c, 0, {}, {w}, 0, FALSE)
         \/ Lies(c, 0, {}, {}, 1, FALSE)
         \/ Lies(c, 0, {}, {}, 0, TRUE)
    ELSE Lies(c, 0, {}, {}, 0, FALSE)

\* A result stands for an execution, and who was told it has taken it.
Honest(c) ==
    /\ Times(c, results) + Times(c, held) <= runs[c]
    /\ answer[c] = "result" => runs[c] = 1 /\ Times(c, results) + Times(c, held) = 0

Kept == \A c \in Commands : Sole(c) /\ Honest(c)

\* What is typed can be counted.
LEMMA Countable ==
  ASSUME Inv, NEW c \in Commands
  PROVE  /\ Times(c, queue) \in Nat /\ Times(c, results) \in Nat /\ Times(c, held) \in Nat
         /\ \A w \in Workers : Times(c, temp[w]) \in Nat
         /\ runs[c] \in Nat
<1>1. queue \in Seq(Out) /\ \A w \in Workers : temp[w] \in Seq(Out)
  BY DEF Inv, ChannelOK
<1>2. results \in Seq(Commands) /\ held \in Seq(Commands)
  BY DEF Inv, RestOK
<1>3. QED
  BY <1>1, <1>2, TimesFinite DEF Inv, RestOK

\* A step does not touch the command c.
Stays(c) == /\ Sent(c)' <=> Sent(c)
            /\ Times(c, queue)' = Times(c, queue)
            /\ \A w \in Workers : Times(c, temp'[w]) = Times(c, temp[w])
            /\ \A w \in Workers : found'[w] = c <=> found[w] = c
            /\ runs'[c] = runs[c]
            /\ c \in dropped' <=> c \in dropped

\* Then it stays where it is.
LEMMA Untouched ==
  ASSUME NEW c \in Commands, Sole(c), Stays(c)
  PROVE  Sole(c)'
<1>1. Held(c)' = Held(c) /\ Finders(c)' = Finders(c)
  BY DEF Stays, Held, Finders
<1>2. QED
  BY <1>1 DEF Stays, Sole, Lies

LEMMA UntouchedByAll ==
  ASSUME UNCHANGED <<queue, cmd, temp, found, runs, dropped>>
  PROVE  \A c \in Commands : Stays(c)
  BY DEF Stays, Sent

LEMMA OneExecution ==
  ASSUME NEW c \in Commands, Sole(c)
  PROVE  runs[c] \in {0, 1}
  BY DEF Sole, Lies

\* Steps that take no part in the results.
LEMMA SameResults ==
  ASSUME Kept, UNCHANGED <<results, held, answer, runs>>
  PROVE  \A c \in Commands : Honest(c)'
  BY DEF Kept, Honest

LEMMA PutOthers ==
  ASSUME Inv, NEW c \in Commands, Put(c), NEW d \in Commands, d # c
  PROVE  Stays(d)
<1>1. PICK k \in Kinds, w \in Workers :
         cmd' = [cmd EXCEPT ![c] = [kind |-> k, target |-> w]]
  BY DEF Put
<1>2. /\ queue' = Append(queue, c) /\ queue \in Seq(Commands)
      /\ UNCHANGED <<temp, found, runs, dropped>>
  BY OutIsCommands, SeqMonotonic DEF Put, workerVars, Inv, ChannelOK
<1>3. Sent(d)' <=> Sent(d)
  BY <1>1, CommandsAreRecords DEF Inv, ChannelOK, Sent
<1>4. Times(d, queue') = Times(d, queue)
  <2>1. Times(d, Append(queue, c)) = Times(d, queue) + (IF c = d THEN 1 ELSE 0)
    BY <1>2, TimesAppend
  <2>2. QED
    BY <1>2, <2>1, Countable
<1>5. QED
  BY <1>2, <1>3, <1>4 DEF Stays

LEMMA PutCounts ==
  ASSUME Inv, Kept, NEW c \in Commands, Put(c)
  PROVE  Kept'
<1>1. PICK k \in Kinds, w \in Workers :
         cmd' = [cmd EXCEPT ![c] = [kind |-> k, target |-> w]]
  BY DEF Put
<1>2. /\ queue' = Append(queue, c) /\ ~Sent(c) /\ queue \in Seq(Commands)
      /\ UNCHANGED <<results, held, answer, temp, found, runs, dropped>>
  BY OutIsCommands, SeqMonotonic DEF Put, workerVars, Inv, ChannelOK
<1>3. Sent(c)' /\ \A d \in Commands \ {c} : Sent(d)' <=> Sent(d)
  BY <1>1, CommandsAreRecords DEF Inv, ChannelOK, Sent
<1>4. \A d \in Commands : Times(d, queue') = Times(d, queue) + (IF c = d THEN 1 ELSE 0)
  BY <1>2, TimesAppend
<1>5. \A d \in Commands : Honest(d)'
  BY <1>2, SameResults
<1>6. ASSUME NEW d \in Commands
      PROVE  Sole(d)'
  <2>1. CASE d = c
    <3>1. Lies(c, 0, {}, {}, 0, FALSE)
      BY <1>2 DEF Kept, Sole
    <3>2. Times(c, queue') = 1 /\ Held(c)' = {} /\ Finders(c)' = {}
      BY <1>2, <1>4, <3>1 DEF Lies, Held, Finders
    <3>3. Lies(c, 1, {}, {}, 0, FALSE)'
      BY <1>2, <3>1, <3>2 DEF Lies
    <3>4. QED
      BY <1>3, <2>1, <3>3 DEF Sole
  <2>2. CASE d # c
    BY <2>2, PutOthers, Untouched DEF Kept
  <2>3. QED
    BY <2>1, <2>2
<1>7. QED
  BY <1>5, <1>6 DEF Kept

\* The waiting handler moves results, and takes the one it waits for.
LEMMA TakeResultCounts ==
  ASSUME Inv, Kept, TakeResult
  PROVE  Kept'
<1>1. /\ results \in Seq(Commands) /\ held \in Seq(Commands) /\ results # <<>>
      /\ Head(results) \in Commands /\ Tail(results) \in Seq(Commands)
      /\ UNCHANGED <<queue, cmd, temp, found, runs, dropped>>
  BY HeadTailProperties DEF Inv, RestOK, TakeResult, workerVars
<1>2. \A c \in Commands : Sole(c)'
  BY <1>1, UntouchedByAll, Untouched DEF Kept
<1>3. ASSUME NEW c \in Commands
      PROVE  Honest(c)'
  <2>1. /\ Times(c, results) = (IF Head(results) = c THEN 1 ELSE 0) + Times(c, Tail(results))
        /\ Times(c, Tail(results)) \in Nat /\ Times(c, held) \in Nat
    BY <1>1, TimesTail, TimesFinite
  <2>2. runs[c] \in {0, 1} /\ Honest(c)
    BY OneExecution DEF Kept
  <2>3. CASE Head(results) = waiting
    <3>1. /\ answer' = [answer EXCEPT ![waiting] = "result"]
          /\ results' = Tail(results) \o held /\ held' = <<>>
      BY <2>3 DEF TakeResult
    <3>2. answer'[c] = IF c = waiting THEN "result" ELSE answer[c]
      BY <1>1, <2>3, <3>1 DEF Inv, RestOK
    <3>3. Times(c, results') = Times(c, Tail(results)) + Times(c, held)
      BY <1>1, <3>1, TimesConcat
    <3>4. Times(c, held') = 0
      BY <3>1, TimesEmpty
    <3>5. QED
      BY <1>1, <2>1, <2>2, <2>3, <3>2, <3>3, <3>4 DEF Honest
  <2>4. CASE Head(results) # waiting
    <3>1. /\ answer' = answer
          /\ held' = Append(held, Head(results)) /\ results' = Tail(results)
      BY <2>4 DEF TakeResult
    <3>2. Times(c, held') = Times(c, held) + (IF Head(results) = c THEN 1 ELSE 0)
      BY <1>1, <3>1, TimesAppend
    <3>3. Times(c, results') + Times(c, held') = Times(c, results) + Times(c, held)
      BY <2>1, <3>1, <3>2
    <3>4. QED
      BY <1>1, <2>2, <3>1, <3>3 DEF Honest
  <2>5. QED
    BY <2>3, <2>4
<1>4. QED
  BY <1>2, <1>3 DEF Kept

LEMMA GiveUpCounts ==
  ASSUME Inv, Kept, GiveUp
  PROVE  Kept'
<1>1. /\ results \in Seq(Commands) /\ held \in Seq(Commands)
      /\ results' = results \o held /\ held' = <<>>
      /\ answer' = [answer EXCEPT ![waiting] = "timeout"]
      /\ UNCHANGED <<queue, cmd, temp, found, runs, dropped>>
  BY DEF Inv, RestOK, GiveUp, workerVars
<1>2. \A c \in Commands : Sole(c)'
  BY <1>1, UntouchedByAll, Untouched DEF Kept
<1>3. ASSUME NEW c \in Commands
      PROVE  Honest(c)'
  <2>1. Times(c, results') = Times(c, results) + Times(c, held) /\ Times(c, held') = 0
    BY <1>1, TimesConcat, TimesEmpty
  <2>2. Times(c, results) \in Nat /\ Times(c, held) \in Nat
    BY Countable
  <2>3. answer'[c] = "result" => answer[c] = "result"
    BY <1>1 DEF Inv, RestOK
  <2>4. QED
    BY <1>1, <2>1, <2>2, <2>3 DEF Kept, Honest
<1>4. QED
  BY <1>2, <1>3 DEF Kept
-----------------------------------------------------------------------------
(* The workers.                                                            *)

LEMMA GetOthers ==
  ASSUME Inv, NEW w \in Workers, Get(w), NEW d \in Commands, d # Head(queue)
  PROVE  Stays(d)
<1>1. PICK c \in Commands : c = Head(queue) /\ c \in Out /\ c # d
  BY HeadTailProperties, OutIsCommands DEF Inv, ChannelOK, Get
<1>2. /\ queue \in Seq(Out) /\ queue # <<>> /\ queue' = Tail(queue)
      /\ temp \in [Workers -> Seq(Out)] /\ found \in [Workers -> Out \cup {None}]
      /\ UNCHANGED <<cmd, runs>>
  BY DEF Inv, ChannelOK, Get
<1>3. \/ dropped' = dropped \cup {c} /\ UNCHANGED <<temp, found>>
      \/ /\ found[w] = None
         /\ found' = [found EXCEPT ![w] = c] /\ UNCHANGED <<temp, dropped>>
      \/ temp' = [temp EXCEPT ![w] = Append(temp[w], c)] /\ UNCHANGED <<found, dropped>>
  BY <1>1 DEF Get, Mine
<1>4. Times(d, queue') = Times(d, queue)
  <2>1. Tail(queue) \in Seq(Out)
    BY <1>2, HeadTailProperties
  <2>2. Times(d, queue) = 0 + Times(d, queue') /\ Times(d, queue') \in Nat
    BY <1>1, <1>2, <2>1, TimesTail, TimesFinite
  <2>3. QED
    BY <2>2
<1>5. \A v \in Workers : Times(d, temp'[v]) = Times(d, temp[v])
  <2>1. Times(d, Append(temp[w], c)) = Times(d, temp[w]) + 0
    BY <1>1, <1>2, TimesAppend
  <2>2. Times(d, temp[w]) \in Nat
    BY Countable
  <2>3. Times(d, Append(temp[w], c)) = Times(d, temp[w])
    BY <2>1, <2>2
  <2>4. temp' = temp \/ temp' = [temp EXCEPT ![w] = Append(temp[w], c)]
    BY <1>3
  <2>5. QED
    BY <1>2, <2>3, <2>4
<1>6. \A v \in Workers : found'[v] = d <=> found[v] = d
  <2>1. d # None
    BY QueueAssumption
  <2>2. QED
    BY <1>1, <1>2, <1>3, <2>1
<1>7. d \in dropped' <=> d \in dropped
  BY <1>1, <1>3
<1>8. QED
  BY <1>2, <1>4, <1>5, <1>6, <1>7 DEF Stays, Sent

LEMMA GetCounts ==
  ASSUME Inv, Kept, NEW w \in Workers, Get(w)
  PROVE  Kept'
<1>0. PICK c \in Commands : c = Head(queue) /\ c \in Out
  BY HeadTailProperties, OutIsCommands DEF Inv, ChannelOK, Get
<1>1. /\ queue \in Seq(Out) /\ queue # <<>> /\ c \in Commands /\ c \in Out
      /\ queue' = Tail(queue)
      /\ UNCHANGED <<results, cmd, held, answer, runs>>
  BY <1>0 DEF Inv, ChannelOK, Get, apiVars
<1>2. \/ dropped' = dropped \cup {c} /\ UNCHANGED <<temp, found>>
      \/ /\ found[w] = None
         /\ found' = [found EXCEPT ![w] = c] /\ UNCHANGED <<temp, dropped>>
      \/ temp' = [temp EXCEPT ![w] = Append(temp[w], c)] /\ UNCHANGED <<found, dropped>>
  BY <1>0 DEF Get, Mine
<1>3. /\ temp \in [Workers -> Seq(Out)] /\ c # None
      /\ found \in [Workers -> Out \cup {None}]
  BY <1>1, OutIsCommands DEF Inv, ChannelOK
<1>4. \A d \in Commands : /\ Times(d, queue) = (IF c = d THEN 1 ELSE 0) + Times(d, queue')
                          /\ Times(d, queue') \in Nat
  <2>1. Tail(queue) \in Seq(Out)
    BY <1>1, HeadTailProperties
  <2>2. QED
    BY <1>0, <1>1, <2>1, TimesTail, TimesFinite
<1>5. \A d \in Commands : Honest(d)'
  BY <1>1, SameResults
<1>6. ASSUME NEW d \in Commands, d # c
      PROVE  Sole(d)'
  BY <1>0, <1>6, GetOthers, Untouched DEF Kept
<1>7. Sole(c)'
  <2>1. Sent(c) /\ Sent(c)'
    BY <1>1 DEF Out, Sent
  <2>2. Lies(c, 1, {}, {}, 0, FALSE) /\ Times(c, queue') = 0
    <3>1. Times(c, queue) = 1 + Times(c, queue') /\ Times(c, queue') \in Nat
      BY <1>1, <1>4
    <3>2. Times(c, queue) # 0
      BY <3>1
    <3>3. Lies(c, 1, {}, {}, 0, FALSE)
      BY <1>1, <2>1, <3>2 DEF Kept, Sole, Lies
    <3>4. QED
      BY <3>1, <3>3 DEF Lies
  <2>3. CASE dropped' = dropped \cup {c} /\ UNCHANGED <<temp, found>>
    <3>1. Lies(c, 0, {}, {}, 0, TRUE)'
      BY <1>1, <2>2, <2>3 DEF Lies, Held, Finders
    <3>2. QED
      BY <2>1, <3>1 DEF Sole
  <2>4. CASE found' = [found EXCEPT ![w] = c] /\ UNCHANGED <<temp, dropped>>
    <3>1. Finders(c) = {} /\ Finders(c)' = {w}
      BY <1>3, <2>2, <2>4 DEF Lies, Finders
    <3>2. Lies(c, 0, {}, {w}, 0, FALSE)'
      BY <1>1, <2>2, <2>4, <3>1 DEF Lies, Held
    <3>3. QED
      BY <2>1, <3>2 DEF Sole
  <2>5. CASE temp' = [temp EXCEPT ![w] = Append(temp[w], c)] /\ UNCHANGED <<found, dropped>>
    <3>1. \A v \in Workers : Times(c, temp[v]) = 0
      BY <1>1, <2>2, Countable DEF Lies, Held
    <3>2. Times(c, Append(temp[w], c)) = Times(c, temp[w]) + 1
      BY <1>1, <1>3, TimesAppend
    <3>3. \A v \in Workers : Times(c, temp'[v]) = IF v = w THEN 1 ELSE 0
      BY <1>3, <2>5, <3>1, <3>2
    <3>4. Held(c)' = {w}
      BY <3>3 DEF Held
    <3>5. Lies(c, 0, {w}, {}, 0, FALSE)'
      BY <1>1, <2>2, <2>5, <3>4 DEF Lies, Finders
    <3>6. QED
      BY <2>1, <3>3, <3>5 DEF Sole
  <2>6. QED
    BY <1>2, <2>3, <2>4, <2>5
<1>8. QED
  BY <1>5, <1>6, <1>7 DEF Kept

LEMMA PutBackOthers ==
  ASSUME Inv, NEW w \in Workers, PutBack(w), NEW d \in Commands, d # Head(temp[w])
  PROVE  Stays(d)
<1>1. PICK c \in Commands : c = Head(temp[w]) /\ c \in Out /\ c # d
  BY HeadTailProperties, OutIsCommands DEF Inv, ChannelOK, PutBack
<1>2. /\ temp \in [Workers -> Seq(Out)] /\ temp[w] # <<>> /\ temp[w] \in Seq(Out)
      /\ Tail(temp[w]) \in Seq(Out) /\ queue \in Seq(Out)
      /\ queue' = Append(queue, c) /\ temp' = [temp EXCEPT ![w] = Tail(temp[w])]
      /\ UNCHANGED <<cmd, found, runs, dropped>>
  BY <1>1, HeadTailProperties DEF Inv, ChannelOK, PutBack
<1>3. Times(d, queue) \in Nat /\ Times(d, temp[w]) \in Nat
  BY Countable
<1>4. Times(d, queue') = Times(d, queue)
  <2>1. Times(d, Append(queue, c)) = Times(d, queue) + 0
    BY <1>1, <1>2, TimesAppend
  <2>2. QED
    BY <1>2, <1>3, <2>1
<1>5. Times(d, Tail(temp[w])) = Times(d, temp[w])
  <2>1. Times(d, temp[w]) = 0 + Times(d, Tail(temp[w])) /\ Times(d, Tail(temp[w])) \in Nat
    BY <1>1, <1>2, TimesTail, TimesFinite
  <2>2. QED
    BY <2>1
<1>6. \A v \in Workers : Times(d, temp'[v]) = Times(d, temp[v])
  BY <1>2, <1>5
<1>7. QED
  BY <1>2, <1>4, <1>6 DEF Stays, Sent

LEMMA PutBackCounts ==
  ASSUME Inv, Kept, NEW w \in Workers, PutBack(w)
  PROVE  Kept'
<1>0. PICK c \in Commands : c = Head(temp[w]) /\ c \in Out
  BY HeadTailProperties, OutIsCommands DEF Inv, ChannelOK, PutBack
<1>1. /\ temp \in [Workers -> Seq(Out)] /\ temp[w] # <<>> /\ temp[w] \in Seq(Out)
      /\ queue \in Seq(Out)
  BY DEF Inv, ChannelOK, PutBack
<1>2. /\ c \in Commands /\ c \in Out /\ queue' = Append(queue, c)
      /\ temp' = [temp EXCEPT ![w] = Tail(temp[w])]
      /\ UNCHANGED <<results, cmd, held, answer, found, runs, dropped>>
  BY <1>0 DEF PutBack, apiVars
<1>3. \A d \in Commands :
         /\ Times(d, temp[w]) = (IF c = d THEN 1 ELSE 0) + Times(d, Tail(temp[w]))
         /\ Times(d, Tail(temp[w])) \in Nat
         /\ Times(d, queue') = Times(d, queue) + (IF c = d THEN 1 ELSE 0)
  <2>1. Tail(temp[w]) \in Seq(Out)
    BY <1>1, HeadTailProperties
  <2>2. \A d \in Commands :
           /\ Times(d, temp[w]) = (IF c = d THEN 1 ELSE 0) + Times(d, Tail(temp[w]))
           /\ Times(d, Tail(temp[w])) \in Nat
    BY <1>0, <1>1, <2>1, TimesTail, TimesFinite
  <2>3. \A d \in Commands :
           Times(d, Append(queue, c)) = Times(d, queue) + (IF c = d THEN 1 ELSE 0)
    BY <1>0, <1>1, TimesAppend
  <2>4. QED
    BY <1>2, <2>2, <2>3
<1>4. \A d \in Commands : Honest(d)'
  BY <1>2, SameResults
<1>5. ASSUME NEW d \in Commands, d # c
      PROVE  Sole(d)'
  BY <1>0, <1>5, PutBackOthers, Untouched DEF Kept
<1>6. Sole(c)'
  <2>1. Sent(c) /\ Sent(c)'
    BY <1>2 DEF Out, Sent
  <2>2. Times(c, temp[w]) = 1 + Times(c, Tail(temp[w])) /\ Times(c, Tail(temp[w])) \in Nat
    BY <1>2, <1>3
  <2>3. w \in Held(c)
    BY <2>2 DEF Held
  <2>4. Lies(c, 0, {w}, {}, 0, FALSE) /\ Times(c, temp[w]) = 1
    BY <1>2, <2>1, <2>3 DEF Kept, Sole, Lies
  <2>5. \A v \in Workers \ {w} : Times(c, temp[v]) = 0
    BY <1>2, <2>4, Countable DEF Lies, Held
  <2>6. \A v \in Workers : Times(c, temp'[v]) = 0
    BY <1>1, <1>2, <2>2, <2>4, <2>5
  <2>7. Times(c, queue') = 1 /\ Held(c)' = {}
    BY <1>2, <1>3, <2>4, <2>6 DEF Lies, Held
  <2>8. Lies(c, 1, {}, {}, 0, FALSE)'
    BY <1>2, <2>4, <2>7 DEF Lies, Finders
  <2>9. QED
    BY <2>1, <2>8 DEF Sole
<1>7. QED
  BY <1>4, <1>5, <1>6 DEF Kept

LEMMA HandleOthers ==
  ASSUME Inv, NEW w \in Workers, Handle(w), NEW d \in Commands, d # found[w]
  PROVE  Stays(d)
<1>1. /\ UNCHANGED <<queue, cmd, temp, dropped>>
      /\ found' = [found EXCEPT ![w] = None]
      /\ runs' = [runs EXCEPT ![found[w]] = runs[found[w]] + 1]
  BY DEF Handle
<1>2. runs \in [Commands -> Nat] /\ found \in [Workers -> Out \cup {None}] /\ d # None
  BY QueueAssumption DEF Inv, ChannelOK, RestOK
<1>3. runs'[d] = runs[d] /\ \A v \in Workers : found'[v] = d <=> found[v] = d
  BY <1>1, <1>2
<1>4. QED
  BY <1>1, <1>3 DEF Stays, Sent

LEMMA HandleCounts ==
  ASSUME Inv, Kept, NEW w \in Workers, Handle(w)
  PROVE  Kept'
<1>1. PICK c \in Commands : c = found[w] /\ c \in Out /\ c # None
  BY OutIsCommands DEF Inv, ChannelOK, Stage, Handle
<1>2. /\ UNCHANGED <<queue, cmd, held, answer, temp, dropped>>
      /\ found' = [found EXCEPT ![w] = None]
      /\ results' = Append(results, c) \/ results' = results
      /\ runs' = [runs EXCEPT ![c] = runs[c] + 1]
  BY <1>1 DEF Handle, apiVars
<1>3. /\ results \in Seq(Commands) /\ runs \in [Commands -> Nat]
      /\ found \in [Workers -> Out \cup {None}]
  BY DEF Inv, ChannelOK, RestOK
<1>4. \A v \in Workers : found'[v] = IF v = w THEN None ELSE found[v]
  BY <1>2, <1>3
<1>5. \A d \in Commands : Times(d, results) \in Nat
  BY Countable
<1>6. /\ \A d \in Commands : d # c => Times(d, results') = Times(d, results)
      /\ Times(c, results') \in {Times(c, results), Times(c, results) + 1}
  <2>1. \A d \in Commands :
           Times(d, Append(results, c)) = Times(d, results) + (IF c = d THEN 1 ELSE 0)
    BY <1>1, <1>3, TimesAppend
  <2>2. CASE results' = results
    BY <2>2
  <2>3. CASE results' = Append(results, c)
    <3>1. \A d \in Commands : d # c => Times(d, results) + 0 = Times(d, results)
      BY <1>5
    <3>2. QED
      BY <2>1, <2>3, <3>1
  <2>4. QED
    BY <1>2, <2>2, <2>3
<1>7. Lies(c, 0, {}, {w}, 0, FALSE) /\ Sent(c) /\ Sent(c)'
  <2>1. Sent(c) /\ Sent(c)' /\ w \in Finders(c)
    BY <1>1, <1>2 DEF Out, Sent, Finders
  <2>2. QED
    BY <1>1, <2>1 DEF Kept, Sole, Lies
<1>8. ASSUME NEW d \in Commands, d # c
      PROVE  Sole(d)' /\ Honest(d)'
  <2>1. Sole(d)'
    BY <1>1, <1>8, HandleOthers, Untouched DEF Kept
  <2>2. runs'[d] = runs[d]
    BY <1>2, <1>3, <1>8
  <2>3. Honest(d)'
    BY <1>2, <1>6, <1>8, <2>2 DEF Kept, Honest
  <2>4. QED
    BY <2>1, <2>3
<1>9. Sole(c)'
  <2>1. Finders(c)' = {}
    BY <1>1, <1>4, <1>7 DEF Lies, Finders
  <2>2. runs'[c] = 1
    BY <1>1, <1>2, <1>3, <1>7 DEF Lies
  <2>3. Lies(c, 0, {}, {}, 1, FALSE)'
    BY <1>2, <1>7, <2>1, <2>2 DEF Lies, Held
  <2>4. QED
    BY <1>7, <2>3 DEF Sole
<1>10. Honest(c)'
  <2>1. runs[c] = 0 /\ runs'[c] = 1
    BY <1>1, <1>2, <1>3, <1>7 DEF Lies
  <2>2. Times(c, results) = 0 /\ Times(c, held) = 0 /\ answer[c] # "result"
    BY <1>1, <2>1, Countable DEF Kept, Honest
  <2>3. Times(c, results') \in {0, 1}
    BY <1>6, <2>2
  <2>4. QED
    BY <1>2, <2>1, <2>2, <2>3 DEF Honest
<1>11. QED
  BY <1>8, <1>9, <1>10 DEF Kept

LEMMA StepKept ==
  ASSUME Inv, Kept, [Next]_vars
  PROVE  Kept'
<1>1. ASSUME UNCHANGED <<queue, results, cmd, held, answer, temp, found, runs, dropped>>
      PROVE  Kept'
  <2>1. \A c \in Commands : Honest(c)'
    BY <1>1, SameResults
  <2>2. \A c \in Commands : Sole(c)'
    BY <1>1, UntouchedByAll, Untouched DEF Kept
  <2>3. QED
    BY <2>1, <2>2 DEF Kept
<1>2. CASE \E c \in Commands : Age(c)
  BY <1>1, <1>2 DEF Age, apiVars, workerVars
<1>3. CASE UNCHANGED vars
  BY <1>1, <1>3 DEF vars, apiVars, workerVars
<1>4. ASSUME NEW w \in Workers, Drain(w)
      PROVE  Kept'
  <2>1. CASE BeginDrain(w) \/ Check(w) \/ EndDrain(w)
    BY <1>1, <2>1 DEF BeginDrain, Check, EndDrain, apiVars
  <2>2. QED
    BY <1>4, <2>1, GetCounts, PutBackCounts, HandleCounts DEF Drain
<1>5. QED
  BY <1>2, <1>3, <1>4, PutCounts, TakeResultCounts, GiveUpCounts DEF Next

LEMMA InitKept ==
  ASSUME Init
  PROVE  Kept
<1>1. SUFFICES ASSUME NEW c \in Commands
               PROVE  Sole(c) /\ Honest(c)
  BY DEF Kept
<1>2. ~Sent(c) /\ c # None
  BY QueueAssumption DEF Init, Sent
<1>3. Times(c, <<>>) = 0
  BY TimesEmpty
<1>4. Held(c) = {} /\ Finders(c) = {}
  BY <1>2, <1>3 DEF Init, Held, Finders
<1>5. Lies(c, 0, {}, {}, 0, FALSE)
  BY <1>3, <1>4 DEF Init, Lies
<1>6. Honest(c)
  BY <1>3 DEF Init, Honest
<1>7. QED
  BY <1>2, <1>5, <1>6 DEF Sole

LEMMA AlwaysKept == Spec => [](Inv /\ Kept)
<1>1. Init => Inv /\ Kept
  BY InitInv, InitKept
<1>2. Inv /\ Kept /\ [Next]_vars => (Inv /\ Kept)'
  BY StepInv, StepKept
<1>3. QED
  BY <1>1, <1>2, PTL DEF Spec

\* A command that was sent is in exactly one place, queued, in one worker's hands,
\* executed once or discarded, however the workers' drains of the one queue overlap.
THEOREM NothingLost == Spec => []CommandConserved
<1>1. ASSUME Inv, Kept
      PROVE  CommandConserved
  <2>1. SUFFICES ASSUME NEW c \in Commands
                 PROVE  /\ Copies(c) = IF Sent(c) THEN 1 ELSE 0
                        /\ \A w \in Workers : Times(c, temp[w]) <= 1
    BY DEF CommandConserved
  <2>2. Cardinality({}) = 0 /\ \A w \in Workers : Cardinality({w}) = 1
    BY FS_EmptySet, FS_Singleton
  <2>3. Sole(c)
    BY <1>1 DEF Kept
  <2>4. Copies(c) = IF Sent(c) THEN 1 ELSE 0
    <3>1. CASE Lies(c, 0, {}, {}, 0, FALSE)
      <4>1. Copies(c) = 0 /\ ~Sent(c)
        BY <2>2, <2>3, <3>1 DEF Sole, Lies, Copies
      <4>2. QED
        BY <4>1
    <3>2. CASE Lies(c, 1, {}, {}, 0, FALSE)
      <4>1. Copies(c) = 1 /\ Sent(c)
        BY <2>2, <2>3, <3>2 DEF Sole, Lies, Copies
      <4>2. QED
        BY <4>1
    <3>3. ASSUME NEW w \in Workers,
                 Lies(c, 0, {w}, {}, 0, FALSE) \/ Lies(c, 0, {}, {w}, 0, FALSE)
          PROVE  Copies(c) = IF Sent(c) THEN 1 ELSE 0
      <4>1. Sent(c)
        <5>1. Held(c) # {} \/ Finders(c) # {}
          BY <3>3 DEF Lies
        <5>2. QED
          BY <2>3, <5>1 DEF Sole, Lies
      <4>2. CASE Lies(c, 0, {w}, {}, 0, FALSE)
        <5>1. Cardinality(Held(c)) + Cardinality(Finders(c)) = 1
          BY <2>2, <4>2 DEF Lies
        <5>2. Times(c, queue) = 0 /\ runs[c] = 0 /\ c \notin dropped
          BY <4>2 DEF Lies
        <5>3. Cardinality(Held(c)) \in Nat /\ Cardinality(Finders(c)) \in Nat
          BY <2>2, <4>2 DEF Lies
        <5>4. QED
          BY <4>1, <5>1, <5>2, <5>3 DEF Copies
      <4>3. CASE Lies(c, 0, {}, {w}, 0, FALSE)
        <5>1. Cardinality(Held(c)) + Cardinality(Finders(c)) = 1
          BY <2>2, <4>3 DEF Lies
        <5>2. Times(c, queue) = 0 /\ runs[c] = 0 /\ c \notin dropped
          BY <4>3 DEF Lies
        <5>3. Cardinality(Held(c)) \in Nat /\ Cardinality(Finders(c)) \in Nat
          BY <2>2, <4>3 DEF Lies
        <5>4. QED
          BY <4>1, <5>1, <5>2, <5>3 DEF Copies
      <4>4. QED
        BY <3>3, <4>2, <4>3
    <3>4. CASE Lies(c, 0, {}, {}, 1, FALSE) \/ Lies(c, 0, {}, {}, 0, TRUE)
      <4>1. Copies(c) = 1 /\ Sent(c)
        BY <2>2, <2>3, <3>4 DEF Sole, Lies, Copies
      <4>2. QED
        BY <4>1
    <3>5. QED
      BY <2>3, <3>1, <3>2, <3>3, <3>4 DEF Sole
  <2>5. ASSUME NEW w \in Workers
        PROVE  Times(c, temp[w]) <= 1
    <3>1. Times(c, temp[w]) \in Nat
      BY <1>1, Countable
    <3>2. w \notin Held(c) => Times(c, temp[w]) = 0
      BY <3>1 DEF Held
    <3>3. w \in Held(c) => Times(c, temp[w]) = 1
      BY <1>1 DEF Kept, Sole, Lies
    <3>4. QED
      BY <3>2, <3>3
  <2>6. QED
    BY <2>4, <2>5
<1>2. QED
  BY <1>1, AlwaysKept, PTL

\* A result exists at most once and only for a command that ran, and a handler of the API
\* that is told a result is told that of its own command (get_command_result).
THEOREM ResultsHold == Spec => []ResultsAreReal
<1>1. ASSUME Inv, Kept
      PROVE  ResultsAreReal
  <2>1. ASSUME NEW c \in Commands
        PROVE  Times(c, results \o held) = Times(c, results) + Times(c, held)
    BY <1>1, TimesConcat DEF Inv, RestOK
  <2>2. QED
    BY <1>1, <2>1 DEF Kept, Honest, ResultsAreReal
<1>2. QED
  BY <1>1, AlwaysKept, PTL
-----------------------------------------------------------------------------
(* A worker that is alone.                                                 *)

\* All the others have stopped, and what it has seen in the queue is still there.
Lonely(w) == /\ \A v \in Workers \ {w} : pc[v] = "dead"
             /\ pc[w] = "get" => queue # <<>>

LEMMA LonelyKeeps ==
  ASSUME Inv, NEW w \in Workers, Lonely(w), [Next]_vars
  PROVE  Lonely(w)'
<1>1. pc \in [Workers -> Places] /\ queue \in Seq(Out)
  BY DEF Inv, ChannelOK
<1>2. CASE UNCHANGED <<queue, pc>>
  BY <1>2 DEF Lonely
<1>3. ASSUME NEW c \in Commands, Put(c)
      PROVE  Lonely(w)'
  <2>1. queue' = Append(queue, c) /\ pc' = pc
    BY <1>3 DEF Put, workerVars
  <2>2. queue' # <<>>
    BY <1>1, <2>1, AppendProperties
  <2>3. QED
    BY <2>1, <2>2 DEF Lonely
<1>4. ASSUME NEW v \in Workers, Drain(v)
      PROVE  Lonely(w)'
  <2>1. pc[v] # "dead" /\ \E place : pc' = [pc EXCEPT ![v] = place] \/ pc' = pc
    BY <1>4 DEF Drain, BeginDrain, Check, Get, PutBack, EndDrain, Handle, Go
  <2>2. v = w
    BY <2>1 DEF Lonely
  <2>3. \A u \in Workers \ {w} : pc'[u] = "dead"
    BY <1>1, <2>1, <2>2 DEF Lonely
  <2>4. pc'[w] = "get" => queue' # <<>>
    <3>1. CASE Check(w)
      BY <1>1, <3>1 DEF Check, Go
    <3>2. CASE BeginDrain(w) \/ Get(w) \/ PutBack(w) \/ EndDrain(w) \/ Handle(w)
      BY <1>1, <3>2 DEF BeginDrain, Get, PutBack, EndDrain, Handle, Go
    <3>3. QED
      BY <1>4, <2>2, <3>1, <3>2 DEF Drain
  <2>5. QED
    BY <2>3, <2>4 DEF Lonely
<1>5. QED
  BY <1>2, <1>3, <1>4 DEF Next, Age, TakeResult, GiveUp, vars, workerVars

\* A worker that is the only one on the queue never blocks in the get() that follows
\* the empty() test: nobody takes the command it has seen.
THEOREM AloneNeverBlocks ==
  ASSUME NEW w \in Workers
  PROVE  Spec /\ (\A v \in Workers \ {w} : pc[v] = "dead") => []NeverBlockedInGet
<1>1. Init /\ (\A v \in Workers \ {w} : pc[v] = "dead") => Lonely(w)
  BY DEF Init, Lonely
<1>2. Inv /\ Lonely(w) /\ [Next]_vars => Lonely(w)'
  BY LonelyKeeps
<1>3. Lonely(w) => NeverBlockedInGet
  BY DEF Lonely, NeverBlockedInGet
<1>4. QED
  BY InitInv, StepInv, <1>1, <1>2, <1>3, PTL DEF Spec

\* The same in the terms of the instances that TLC checks.
THEOREM AloneInInstances == MCSpec => []AloneNeverBlocked
<1> DEFINE Known == Alone => \A w \in Workers : alive = {w} => Lonely(w)
<1>1. MCInit => Init /\ Known
  <2>1. SUFFICES ASSUME MCInit, NEW w \in Workers, alive = {w}
                 PROVE  Lonely(w)
    BY DEF MCInit
  <2>2. \A v \in Workers \ {w} : pc[v] = "dead"
    BY <2>1 DEF MCInit
  <2>3. pc[w] # "get"
    BY <2>1 DEF MCInit, Init
  <2>4. QED
    BY <2>2, <2>3 DEF Lonely
<1>2. [MCNext]_mcVars => [Next]_vars /\ alive' = alive
  BY DEF MCNext, mcVars
<1>3. Inv /\ Known /\ [Next]_vars /\ alive' = alive => Known'
  <2>1. SUFFICES ASSUME Inv, Known, [Next]_vars, alive' = alive,
                        NEW w \in Workers, alive = {w}
                 PROVE  Lonely(w)'
    BY DEF Alone
  <2>2. Lonely(w)
    BY <2>1 DEF Alone
  <2>3. QED
    BY <2>1, <2>2, LonelyKeeps
<1>4. Known => AloneNeverBlocked
  BY DEF Alone, Lonely, AloneNeverBlocked, NeverBlockedInGet
<1>5. QED
  BY InitInv, StepInv, <1>1, <1>2, <1>3, <1>4, PTL DEF MCSpec
-----------------------------------------------------------------------------
(* The channel is a box.                                                   *)

\* Nothing counts as old that is not.
SeenIsOld == \A w \in Workers : seen[w] \subseteq old

LEMMA StepSeen ==
  ASSUME Inv, SeenIsOld, [Next]_vars
  PROVE  SeenIsOld'
<1>1. old \subseteq old' /\ (seen' = seen \/ \E w \in Workers : BeginDrain(w))
  BY DEF Next, Put, Age, TakeResult, GiveUp, Drain, BeginDrain, Check, Get, PutBack,
         EndDrain, Handle, vars, workerVars
<1>2. ASSUME NEW w \in Workers, BeginDrain(w)
      PROVE  SeenIsOld'
  BY <1>2 DEF BeginDrain, SeenIsOld, Inv, RestOK
<1>3. QED
  BY <1>1, <1>2 DEF SeenIsOld

LEMMA AlwaysSeen == Spec => [](Inv /\ Kept /\ SeenIsOld)
<1>1. Init => Inv /\ Kept /\ SeenIsOld
  BY InitInv, InitKept DEF Init, SeenIsOld
<1>2. Inv /\ Kept /\ SeenIsOld /\ [Next]_vars => (Inv /\ Kept /\ SeenIsOld)'
  BY StepInv, StepKept, StepSeen
<1>3. QED
  BY <1>1, <1>2, PTL DEF Spec

\* The place of a command in the box is read off the place where it lies.
PlaceFits(c) == /\ Sent(c) <=> Place(c) # "unsent"
                /\ Times(c, queue) = 1 => Place(c) = "box"
                /\ Held(c) # {} => Place(c) = "box"
                /\ Finders(c) # {} <=> Place(c) = "hand"
                /\ runs[c] = 1 <=> Place(c) = "done"
                /\ c \in dropped <=> Place(c) = "dropped"

LEMMA PlaceWhereItLies ==
  ASSUME NEW c \in Commands, Sole(c)
  PROVE  PlaceFits(c)
<1>1. CASE ~Sent(c)
  BY <1>1 DEF Sole, Lies, Place, PlaceFits
<1>2. ASSUME Lies(c, 1, {}, {}, 0, FALSE), Sent(c)
      PROVE  PlaceFits(c)
  <2>1. Place(c) = "box"
    BY <1>2 DEF Lies, Place
  <2>2. QED
    BY <1>2, <2>1 DEF Lies, PlaceFits
<1>3. ASSUME NEW w \in Workers, Lies(c, 0, {w}, {}, 0, FALSE), Sent(c)
      PROVE  PlaceFits(c)
  <2>1. Place(c) = "box"
    BY <1>3 DEF Lies, Place
  <2>2. QED
    BY <1>3, <2>1 DEF Lies, PlaceFits
<1>4. ASSUME NEW w \in Workers, Lies(c, 0, {}, {w}, 0, FALSE), Sent(c)
      PROVE  PlaceFits(c)
  <2>1. Place(c) = "hand"
    BY <1>4 DEF Lies, Place
  <2>2. QED
    BY <1>4, <2>1 DEF Lies, PlaceFits
<1>5. ASSUME Lies(c, 0, {}, {}, 1, FALSE), Sent(c)
      PROVE  PlaceFits(c)
  <2>1. Place(c) = "done"
    BY <1>5 DEF Lies, Place
  <2>2. QED
    BY <1>5, <2>1 DEF Lies, PlaceFits
<1>6. ASSUME Lies(c, 0, {}, {}, 0, TRUE), Sent(c)
      PROVE  PlaceFits(c)
  <2>1. Place(c) = "dropped"
    BY <1>6 DEF Lies, Place
  <2>2. QED
    BY <1>6, <2>1 DEF Lies, PlaceFits
<1>7. QED
  BY <1>1, <1>2, <1>3, <1>4, <1>5, <1>6 DEF Sole

\* The same in the next state.
Fitting == \A c \in Commands : Sole(c) => PlaceFits(c)

LEMMA AlwaysFitting == Fitting
  BY PlaceWhereItLies DEF Fitting

LEMMA NextFitting == Fitting'
  BY AlwaysFitting, PTL

LEMMA PlaceStays ==
  ASSUME NEW c \in Commands, Stays(c)
  PROVE  Place(c)' = Place(c)
<1>1. Held(c)' = Held(c) /\ Finders(c)' = Finders(c)
  BY DEF Stays, Held, Finders
<1>2. QED
  BY <1>1 DEF Stays, Place

\* One command goes from one place to another.
LEMMA LifeMoves ==
  ASSUME NEW c \in Commands, NEW from, NEW to, Place(c) = from, Place(c)' = to,
         \A d \in Commands \ {c} : Stays(d)
  PROVE  Box!Move(c, from, to)
<1>1. \A d \in Commands \ {c} : Place(d)' = Place(d)
  BY PlaceStays
<1>2. Life[c] = from /\ Life' = [Life EXCEPT ![c] = to]
  BY <1>1 DEF Life
<1>3. QED
  BY <1>2 DEF Box!Move

LEMMA LifeStays ==
  ASSUME \A d \in Commands : Place(d)' = Place(d)
  PROVE  Life' = Life
  BY DEF Life

\* The results that nobody has read are those in the queue and those kept aside.
LEMMA UnreadStays ==
  ASSUME UNCHANGED <<results, held>>
  PROVE  Unread' = Unread
  BY DEF Unread

LEMMA StoppedStays ==
  ASSUME UNCHANGED pc
  PROVE  Stopped' = Stopped
  BY DEF Stopped

\* put_command puts a command into the box.
LEMMA PutIsSend ==
  ASSUME Inv, Kept, NEW c \in Commands, Put(c)
  PROVE  Box!Send(c)
<1>1. Box!Move(c, "unsent", "box")
  <2>1. Place(c) = "unsent"
    BY PlaceWhereItLies DEF Kept, PlaceFits, Put
  <2>2. Kept' /\ Sent(c)'
    <3>1. PICK k \in Kinds, w \in Workers :
             cmd' = [cmd EXCEPT ![c] = [kind |-> k, target |-> w]]
      BY DEF Put
    <3>2. QED
      BY <3>1, PutCounts, CommandsAreRecords DEF Inv, ChannelOK, Sent
  <2>3. Times(c, queue') > 0 /\ Finders(c)' = {} /\ runs'[c] = 0 /\ c \notin dropped'
    <3>1. Times(c, Append(queue, c)) = Times(c, queue) + 1
      BY OutIsCommands, SeqMonotonic, TimesAppend DEF Inv, ChannelOK
    <3>2. Lies(c, 0, {}, {}, 0, FALSE)
      BY DEF Kept, Sole, Put
    <3>3. QED
      BY <3>1, <3>2 DEF Lies, Finders, Put, workerVars
  <2>4. Place(c)' = "box"
    BY <2>3 DEF Place
  <2>5. QED
    BY <2>1, <2>4, PutOthers, LifeMoves
<1>2. Unread' = Unread /\ Stopped' = Stopped
  BY UnreadStays, StoppedStays DEF Put, workerVars
<1>3. PICK k \in Kinds, w \in Workers :
         /\ pc[w] # "dead"
         /\ cmd' = [cmd EXCEPT ![c] = [kind |-> k, target |-> w]]
         /\ waiting' = IF k \in Awaited THEN c ELSE None
  BY DEF Put
<1>4. w \in Workers \ Stopped /\ k \in Box!Kinds /\ Box!Awaited = Awaited
  BY <1>3 DEF Stopped, Kinds, Box!Kinds, Awaited, Box!Awaited
<1>5. waiting = None /\ UNCHANGED <<old, answer>>
  BY DEF Put
<1>6. QED
  BY <1>1, <1>2, <1>3, <1>4, <1>5 DEF Box!Send

LEMMA AgeIsAge ==
  ASSUME Inv, Kept, NEW c \in Commands, Age(c)
  PROVE  Box!Age(c)
<1>1. Place(c) # "unsent"
  BY PlaceWhereItLies DEF Kept, PlaceFits, Age
<1>2. Life' = Life
  <2>1. \A d \in Commands : Stays(d)
    BY UntouchedByAll DEF Age, workerVars
  <2>2. QED
    BY <2>1, PlaceStays, LifeStays
<1>3. Unread' = Unread /\ Stopped' = Stopped
  BY UnreadStays, StoppedStays DEF Age, apiVars, workerVars
<1>4. QED
  BY <1>1, <1>2, <1>3 DEF Age, Box!Age, apiVars, Life

\* get() takes out a command for good, throws it away, or only puts it aside.
LEMMA GetIsTake ==
  ASSUME Inv, Kept, SeenIsOld, NEW w \in Workers, Get(w)
  PROVE  [Box!Next]_Box!vars
<1>1. PICK c \in Commands : c = Head(queue) /\ c \in Out /\ c # None
  BY HeadTailProperties, OutIsCommands DEF Inv, ChannelOK, Get
<1>2. /\ Unread' = Unread /\ pc[w] = "get"
      /\ UNCHANGED <<cmd, old, results, held, waiting, answer>>
  BY UnreadStays DEF Get, apiVars
<1>3. Stopped' = Stopped
  BY <1>2 DEF Get, Go, Stopped, Inv, ChannelOK
<1>4. \A d \in Commands \ {c} : Stays(d)
  BY <1>1, GetOthers
<1>5. Lies(c, 1, {}, {}, 0, FALSE) /\ Place(c) = "box" /\ Sole(c)'
  <2>1. Times(c, queue) > 0
    <3>1. queue \in Seq(Out) /\ queue # <<>> /\ Tail(queue) \in Seq(Out)
      BY HeadTailProperties DEF Inv, ChannelOK, Get
    <3>2. Times(c, queue) = 1 + Times(c, Tail(queue)) /\ Times(c, Tail(queue)) \in Nat
      BY <1>1, <3>1, TimesTail, TimesFinite
    <3>3. QED
      BY <3>2
  <2>2. Sole(c) /\ Sent(c)
    BY <1>1 DEF Kept, Out
  <2>3. Lies(c, 1, {}, {}, 0, FALSE)
    BY <2>1, <2>2 DEF Sole, Lies
  <2>4. QED
    BY <2>2, <2>3, GetCounts, PlaceWhereItLies DEF Kept, PlaceFits, Lies
<1>6. CASE c \in seen[w] /\ dropped' = dropped \cup {c}
  <2>1. Place(c)' = "dropped"
    BY <1>5, <1>6, NextFitting DEF Fitting, PlaceFits
  <2>2. Box!Move(c, "box", "dropped")
    BY <1>4, <1>5, <2>1, LifeMoves
  <2>3. c \in old /\ Stopped # Workers
    BY <1>2, <1>6 DEF SeenIsOld, Stopped
  <2>4. Box!Drop(c)
    BY <1>2, <1>3, <2>2, <2>3 DEF Box!Drop
  <2>5. QED
    BY <2>4 DEF Box!Next
<1>7. CASE Mine(c, w) /\ found' = [found EXCEPT ![w] = c] /\ UNCHANGED <<temp, dropped>>
  <2>1. w \in Finders(c)'
    BY <1>7 DEF Finders, Inv, ChannelOK
  <2>2. Place(c)' = "hand"
    BY <1>5, <2>1, NextFitting DEF Fitting, PlaceFits
  <2>3. Box!Move(c, "box", "hand")
    BY <1>4, <1>5, <2>2, LifeMoves
  <2>4. ASSUME NEW d \in Commands, Life[d] = "hand"
        PROVE  cmd[d].target # cmd[c].target
    <3>1. PICK v \in Workers : found[v] = d
      BY <2>4, PlaceWhereItLies DEF Life, Kept, PlaceFits, Finders
    <3>2. v # w /\ cmd[d].target = v
      BY <1>7, <3>1, QueueAssumption DEF Mine, Inv, Targets
    <3>3. QED
      BY <1>7, <3>2 DEF Mine
  <2>5. cmd[c].target \notin Stopped
    BY <1>2, <1>7 DEF Mine, Stopped
  <2>6. Box!Take(c)
    BY <1>2, <1>3, <2>3, <2>4, <2>5 DEF Box!Take
  <2>7. QED
    BY <2>6 DEF Box!Next
<1>8. CASE temp' = [temp EXCEPT ![w] = Append(temp[w], c)] /\ UNCHANGED <<found, dropped>>
  <2>1. w \in Held(c)'
    <3>1. temp[w] \in Seq(Out) /\ temp'[w] = Append(temp[w], c)
      BY <1>8 DEF Inv, ChannelOK
    <3>2. Times(c, temp'[w]) = Times(c, temp[w]) + 1 /\ Times(c, temp[w]) \in Nat
      BY <1>1, <3>1, TimesAppend, Countable
    <3>3. QED
      BY <3>2 DEF Held
  <2>2. Place(c)' = "box"
    BY <1>5, <2>1, NextFitting DEF Fitting, PlaceFits
  <2>3. \A d \in Commands : Place(d)' = Place(d)
    BY <1>4, <1>5, <2>2, PlaceStays
  <2>4. QED
    BY <1>2, <1>3, <2>3, LifeStays DEF Box!vars
<1>9. QED
  BY <1>1, <1>6, <1>7, <1>8 DEF Get

\* A command that is put back never left the box.
LEMMA PutBackIsHidden ==
  ASSUME Inv, Kept, NEW w \in Workers, PutBack(w)
  PROVE  UNCHANGED Box!vars
<1>1. PICK c \in Commands : c = Head(temp[w]) /\ c \in Out
  BY HeadTailProperties, OutIsCommands DEF Inv, ChannelOK, PutBack
<1>2. /\ Unread' = Unread /\ Stopped' = Stopped
      /\ UNCHANGED <<cmd, old, waiting, answer>>
  BY UnreadStays, StoppedStays DEF PutBack, apiVars
<1>3. w \in Held(c)
  <2>1. temp[w] \in Seq(Out) /\ temp[w] # <<>> /\ Tail(temp[w]) \in Seq(Out)
    BY HeadTailProperties DEF Inv, ChannelOK, PutBack
  <2>2. Times(c, temp[w]) = 1 + Times(c, Tail(temp[w])) /\ Times(c, Tail(temp[w])) \in Nat
    BY <1>1, <2>1, TimesTail, TimesFinite
  <2>3. QED
    BY <2>2 DEF Held
<1>4. Place(c) = "box"
  BY <1>3, PlaceWhereItLies DEF Kept, PlaceFits
<1>5. Place(c)' = "box"
  <2>1. Sole(c) /\ Sent(c)
    BY <1>1 DEF Kept, Out
  <2>2. Times(c, queue) = 0 /\ queue \in Seq(Out)
    BY <1>3, <2>1 DEF Sole, Lies, Inv, ChannelOK
  <2>3. Times(c, Append(queue, c)) = Times(c, queue) + 1
    BY <1>1, <2>2, TimesAppend
  <2>4. Times(c, queue') = 1
    BY <1>1, <2>2, <2>3 DEF PutBack
  <2>5. Sole(c)'
    BY PutBackCounts DEF Kept
  <2>6. QED
    BY <2>4, <2>5, NextFitting DEF Fitting, PlaceFits
<1>6. \A d \in Commands : Place(d)' = Place(d)
  BY <1>1, <1>4, <1>5, PutBackOthers, PlaceStays
<1>7. QED
  BY <1>2, <1>6, LifeStays DEF Box!vars

\* What the handler of a command does shows at once.
LEMMA HandleIsExecute ==
  ASSUME Inv, Kept, NEW w \in Workers, Handle(w)
  PROVE  \E c \in Commands : Box!Execute(c)
<1>1. PICK c \in Commands : c = found[w] /\ c \in Out /\ c # None
  BY OutIsCommands DEF Inv, ChannelOK, Stage, Handle
<1>2. cmd[c].target = w /\ pc[w] = "handle"
  BY <1>1 DEF Inv, Targets, Handle
<1>3. Lies(c, 0, {}, {w}, 0, FALSE) /\ Place(c) = "hand"
  <2>1. Sent(c) /\ w \in Finders(c) /\ Sole(c)
    BY <1>1 DEF Out, Finders, Kept
  <2>2. Lies(c, 0, {}, {w}, 0, FALSE)
    BY <2>1 DEF Sole, Lies
  <2>3. QED
    BY <2>1, <2>2, PlaceWhereItLies DEF PlaceFits
<1>4. Place(c)' = "done"
  <2>1. runs' = [runs EXCEPT ![c] = runs[c] + 1]
    BY <1>1 DEF Handle
  <2>2. runs'[c] = 1
    BY <1>1, <1>3, <2>1 DEF Lies, Inv, RestOK
  <2>3. Sole(c)'
    BY HandleCounts DEF Kept
  <2>4. QED
    BY <2>2, <2>3, NextFitting DEF Fitting, PlaceFits
<1>5. Box!Move(c, "hand", "done")
  BY <1>1, <1>3, <1>4, HandleOthers, LifeMoves
<1>6. Stopped' = IF cmd[c].kind = "stop_thread" THEN Stopped \cup {cmd[c].target}
                 ELSE Stopped
  <2>1. pc' = [pc EXCEPT ![w] = IF cmd[c].kind = "stop_thread" THEN "dead" ELSE "poll"]
    BY <1>1 DEF Handle, Go
  <2>2. pc \in [Workers -> Places] /\ w \notin Stopped
    BY <1>2 DEF Inv, ChannelOK, Stopped
  <2>3. CASE cmd[c].kind = "stop_thread"
    BY <1>2, <2>1, <2>2, <2>3 DEF Stopped
  <2>4. CASE cmd[c].kind # "stop_thread"
    BY <1>2, <2>1, <2>2, <2>4 DEF Stopped
  <2>5. QED
    BY <2>3, <2>4
<1>7. results \in Seq(Commands) /\ held' = held
  BY DEF Inv, RestOK, Handle, apiVars
<1>8. results' = Append(results, c) => Unread' = Unread \cup {c}
  <2>1. SUFFICES ASSUME results' = Append(results, c), NEW d \in Commands
                 PROVE  Times(d, results') + Times(d, held') > 0
                            <=> Times(d, results) + Times(d, held) > 0 \/ d = c
    BY DEF Unread
  <2>2. Times(d, Append(results, c)) = Times(d, results) + (IF c = d THEN 1 ELSE 0)
    BY <1>1, <1>7, TimesAppend
  <2>3. Times(d, results) \in Nat /\ Times(d, held) \in Nat
    BY Countable
  <2>4. QED
    BY <1>7, <2>1, <2>2, <2>3
<1>9. \/ cmd[c].kind \in Box!Awaited /\ Unread' = Unread \cup {c}
      \/ cmd[c].kind # "mark_login_ok" /\ Unread' = Unread
  BY <1>1, <1>7, <1>8, UnreadStays DEF Handle, Awaited, Box!Awaited
<1>10. UNCHANGED <<cmd, old, waiting, answer>>
  BY DEF Handle, apiVars
<1>11. QED
  BY <1>5, <1>6, <1>9, <1>10 DEF Box!Execute

\* A result is used up only by the handler it is for; the others are set aside.
LEMMA TakeResultIsHear ==
  ASSUME Inv, Kept, TakeResult
  PROVE  [Box!Next]_Box!vars
<1>1. /\ results \in Seq(Commands) /\ held \in Seq(Commands) /\ results # <<>>
      /\ Head(results) \in Commands /\ Tail(results) \in Seq(Commands)
      /\ UNCHANGED <<queue, cmd, old, pc, temp, found, runs, dropped>>
  BY HeadTailProperties DEF Inv, RestOK, TakeResult, workerVars
<1>2. Life' = Life /\ Stopped' = Stopped
  BY <1>1, UntouchedByAll, PlaceStays, LifeStays, StoppedStays
<1>3. \A c \in Commands :
         /\ Times(c, results) = (IF Head(results) = c THEN 1 ELSE 0) + Times(c, Tail(results))
         /\ Times(c, Tail(results)) \in Nat /\ Times(c, held) \in Nat
  BY <1>1, TimesTail, TimesFinite
<1>4. CASE Head(results) = waiting
  <2>1. /\ answer' = [answer EXCEPT ![waiting] = "result"] /\ waiting' = None
        /\ results' = Tail(results) \o held /\ held' = <<>>
    BY <1>4 DEF TakeResult
  <2>2. \A c \in Commands : /\ Times(c, results') = Times(c, Tail(results)) + Times(c, held)
                            /\ Times(c, held') = 0
    BY <1>1, <2>1, TimesConcat, TimesEmpty
  <2>3. waiting \in Commands /\ waiting \in Unread
    <3>1. Times(waiting, results) + Times(waiting, held) > 0
      BY <1>1, <1>3, <1>4
    <3>2. QED
      BY <1>1, <1>4, <3>1 DEF Unread
  <2>4. ASSUME NEW c \in Commands
        PROVE  Times(c, results') + Times(c, held') > 0
                  <=> Times(c, results) + Times(c, held) > 0 /\ c # waiting
    <3>1. Honest(c) /\ runs[c] \in {0, 1}
      BY OneExecution DEF Kept
    <3>2. QED
      BY <1>3, <1>4, <2>2, <3>1 DEF Honest
  <2>5. Unread' = Unread \ {waiting}
    BY <2>4 DEF Unread
  <2>6. Box!Hear
    BY <1>1, <1>2, <2>1, <2>3, <2>5 DEF Box!Hear, Box!Answered
  <2>7. QED
    BY <2>6 DEF Box!Next
<1>5. CASE Head(results) # waiting
  <2>1. /\ held' = Append(held, Head(results)) /\ results' = Tail(results)
        /\ UNCHANGED <<waiting, answer>>
    BY <1>5 DEF TakeResult
  <2>2. ASSUME NEW c \in Commands
        PROVE  Times(c, results') + Times(c, held') = Times(c, results) + Times(c, held)
    <3>1. Times(c, held') = Times(c, held) + (IF Head(results) = c THEN 1 ELSE 0)
      BY <1>1, <2>1, TimesAppend
    <3>2. QED
      BY <1>3, <2>1, <3>1
  <2>3. Unread' = Unread
    BY <2>2 DEF Unread
  <2>4. QED
    BY <1>1, <1>2, <2>1, <2>3 DEF Box!vars
<1>6. QED
  BY <1>4, <1>5

LEMMA GiveUpIsGiveUp ==
  ASSUME Inv, Kept, GiveUp
  PROVE  Box!GiveUp
<1>1. /\ results \in Seq(Commands) /\ held \in Seq(Commands)
      /\ results' = results \o held /\ held' = <<>>
      /\ UNCHANGED <<queue, cmd, old, pc, temp, found, runs, dropped>>
  BY DEF Inv, RestOK, GiveUp, workerVars
<1>2. Life' = Life /\ Stopped' = Stopped
  BY <1>1, UntouchedByAll, PlaceStays, LifeStays, StoppedStays
<1>3. ASSUME NEW c \in Commands
      PROVE  Times(c, results') + Times(c, held') = Times(c, results) + Times(c, held)
  <2>1. Times(c, results') = Times(c, results) + Times(c, held) /\ Times(c, held') = 0
    BY <1>1, TimesConcat, TimesEmpty
  <2>2. Times(c, results) \in Nat /\ Times(c, held) \in Nat
    BY Countable
  <2>3. QED
    BY <2>1, <2>2
<1>4. Unread' = Unread
  BY <1>3 DEF Unread
<1>5. QED
  BY <1>1, <1>2, <1>4 DEF GiveUp, Box!GiveUp, Box!Answered

LEMMA BoxStep ==
  ASSUME Inv, Kept, SeenIsOld, [Next]_vars
  PROVE  [Box!Next]_Box!vars
<1>1. ASSUME UNCHANGED <<queue, cmd, temp, found, runs, dropped>>,
             UNCHANGED <<results, held, old, waiting, answer>>,
             Stopped' = Stopped
      PROVE  UNCHANGED Box!vars
  BY <1>1, UntouchedByAll, PlaceStays, LifeStays, UnreadStays DEF Box!vars
<1>2. CASE UNCHANGED vars
  BY <1>1, <1>2, StoppedStays DEF vars, apiVars, workerVars
<1>3. ASSUME NEW w \in Workers, Drain(w)
      PROVE  [Box!Next]_Box!vars
  <2>1. CASE BeginDrain(w) \/ Check(w) \/ EndDrain(w)
    <3>1. \E place \in Places \ {"dead"} : pc[w] # "dead" /\ pc' = [pc EXCEPT ![w] = place]
      BY <2>1 DEF BeginDrain, Check, EndDrain, Go, Places
    <3>2. Stopped' = Stopped
      BY <3>1 DEF Stopped, Inv, ChannelOK
    <3>3. QED
      BY <1>1, <2>1, <3>2 DEF BeginDrain, Check, EndDrain, apiVars
  <2>2. QED
    BY <1>3, <2>1, GetIsTake, PutBackIsHidden, HandleIsExecute DEF Drain, Box!Next
<1>4. QED
  BY <1>2, <1>3, PutIsSend, AgeIsAge, TakeResultIsHear, GiveUpIsGiveUp DEF Next, Box!Next

LEMMA InitBox ==
  ASSUME Init
  PROVE  Box!Init
<1>1. ASSUME NEW c \in Commands
      PROVE  Place(c) = "unsent" /\ Times(c, results) + Times(c, held) = 0
  <2>1. Times(c, <<>>) = 0 /\ c # None
    BY TimesEmpty, QueueAssumption
  <2>2. QED
    BY <2>1 DEF Init, Place, Held, Finders
<1>2. Life = [c \in Commands |-> "unsent"] /\ Unread = {}
  BY <1>1 DEF Life, Unread
<1>3. Stopped \in SUBSET Workers
  BY DEF Stopped
<1>4. QED
  BY <1>2, <1>3 DEF Init, Box!Init

\* Whatever the workers do to the order of the shared queue, to the handlers and to each
\* other the channel is a box: a thread takes its own command, one at a time, only an
\* old one is thrown away, it runs once, and its result waits for the handler it is for.
THEOREM ChannelRefinesBox == Spec => ImplementsCommandBox
<1>1. Init => Box!Init
  BY InitBox
<1>2. Inv /\ Kept /\ SeenIsOld /\ [Next]_vars => [Box!Next]_Box!vars
  BY BoxStep
<1>3. QED
  BY <1>1, <1>2, AlwaysSeen, PTL DEF Spec, ImplementsCommandBox, Box!Spec
-----------------------------------------------------------------------------
(* The order of the commands of a worker that is alone.                    *)

\* Commands are numbers, sent in their order.
InTurn == \A c, d \in Commands : ~Sent(c) /\ Sent(d) => d < c

\* All that was sent is meant for w.
SentTo(w) == \A c \in Commands : Sent(c) => cmd[c].target = w

\* A command that was sent while none was pending is the next that w will find, and no later
\* one has been found.
Foremost(w) ==
    \A c \in Commands : Place(c) = "box" /\ c \notin behind =>
        /\ queue # <<>> /\ Head(queue) = c /\ temp[w] = <<>>
        /\ found[w] # None => pc[w] = "handle"
        /\ \A d \in Commands : c < d => Place(d) \notin {"hand", "done"}

Lined(w) == Lonely(w) /\ SentTo(w) /\ Foremost(w)

LEMMA InTurnKeeps ==
  ASSUME NEW N \in Nat, Commands = 1..N, Inv, InTurn, [MCNext]_mcVars
  PROVE  InTurn'
<1>1. ASSUME NEW e \in Commands, Put(e), Within'
      PROVE  InTurn'
  <2>1. Sent(e)' /\ \A d \in Commands \ {e} : Sent(d)' <=> Sent(d)
    <3>1. PICK k \in Kinds, w \in Workers :
             cmd' = [cmd EXCEPT ![e] = [kind |-> k, target |-> w]]
      BY <1>1 DEF Put
    <3>2. QED
      BY <3>1, CommandsAreRecords DEF Inv, ChannelOK, Sent
  <2>2. SUFFICES ASSUME NEW c \in Commands, NEW d \in Commands, ~Sent(c)', Sent(d)'
                 PROVE  d < c
    BY DEF InTurn
  <2>3. ~Sent(c) /\ c # e
    BY <2>1, <2>2
  <2>4. CASE d # e
    BY <2>1, <2>2, <2>3, <2>4 DEF InTurn
  <2>5. CASE d = e
    <3>1. CASE e = 1
      BY <2>3, <2>5, <3>1
    <3>2. CASE e # 1
      <4>1. e - 1 \in Commands \ {e} /\ Sent(e - 1)'
        BY <1>1, <2>1, <3>2 DEF Within
      <4>2. e - 1 < c
        BY <2>1, <2>3, <4>1 DEF InTurn
      <4>3. QED
        BY <2>3, <2>5, <4>2
    <3>3. QED
      BY <3>1, <3>2
  <2>6. QED
    BY <2>4, <2>5
<1>2. CASE UNCHANGED cmd
  BY <1>2 DEF InTurn, Sent
<1>3. QED
  BY <1>1, <1>2 DEF MCNext, Next, Age, TakeResult, GiveUp, Drain, BeginDrain, Check, Get,
                    PutBack, EndDrain, Handle, vars, mcVars

LEMMA SentToKeeps ==
  ASSUME Inv, NEW w \in Workers, Lonely(w), SentTo(w), [Next]_vars
  PROVE  SentTo(w)'
<1>1. ASSUME NEW c \in Commands, Put(c)
      PROVE  SentTo(w)'
  <2>1. PICK k \in Kinds, v \in Workers :
           pc[v] # "dead" /\ cmd' = [cmd EXCEPT ![c] = [kind |-> k, target |-> v]]
    BY <1>1 DEF Put
  <2>2. v = w
    BY <2>1 DEF Lonely
  <2>3. QED
    BY <2>1, <2>2 DEF SentTo, Sent, Inv, ChannelOK
<1>2. CASE UNCHANGED cmd
  BY <1>2 DEF SentTo, Sent
<1>3. QED
  BY <1>1, <1>2 DEF Next, Age, TakeResult, GiveUp, Drain, BeginDrain, Check, Get,
                    PutBack, EndDrain, Handle, vars

\* What is queued or put aside lies in the box.
LEMMA HeadsAreInBox ==
  ASSUME Inv, Kept
  PROVE  /\ queue # <<>> => Head(queue) \in Out /\ Place(Head(queue)) = "box"
         /\ \A w \in Workers : temp[w] # <<>> => /\ Head(temp[w]) \in Out
                                                 /\ Place(Head(temp[w])) = "box"
<1>1. ASSUME NEW s \in Seq(Out), s # <<>>
      PROVE  Head(s) \in Out /\ Times(Head(s), s) > 0
  <2>1. Head(s) \in Out /\ Tail(s) \in Seq(Out)
    BY <1>1, HeadTailProperties
  <2>2. Times(Head(s), s) = 1 + Times(Head(s), Tail(s)) /\ Times(Head(s), Tail(s)) \in Nat
    BY <1>1, <2>1, TimesTail, TimesFinite
  <2>3. QED
    BY <2>1, <2>2
<1>2. ASSUME queue # <<>>
      PROVE  Head(queue) \in Out /\ Place(Head(queue)) = "box"
  <2>1. Head(queue) \in Out /\ Times(Head(queue), queue) > 0
    BY <1>1, <1>2 DEF Inv, ChannelOK
  <2>2. Head(queue) \in Commands /\ Sole(Head(queue)) /\ Sent(Head(queue))
    BY <2>1 DEF Kept, Out
  <2>3. Times(Head(queue), queue) = 1
    BY <2>1, <2>2 DEF Sole, Lies
  <2>4. QED
    BY <1>1, <2>1, <2>2, <2>3, PlaceWhereItLies DEF PlaceFits
<1>3. ASSUME NEW w \in Workers, temp[w] # <<>>
      PROVE  Head(temp[w]) \in Out /\ Place(Head(temp[w])) = "box"
  <2>1. Head(temp[w]) \in Out /\ Times(Head(temp[w]), temp[w]) > 0
    BY <1>1, <1>3 DEF Inv, ChannelOK
  <2>2. w \in Held(Head(temp[w]))
    BY <2>1 DEF Held
  <2>3. QED
    BY <2>1, <2>2, PlaceWhereItLies DEF Kept, PlaceFits, Out
<1>4. QED
  BY <1>2, <1>3

\* A new command is foremost if nothing was pending, and disturbs no other.
LEMMA PutKeepsForemost ==
  ASSUME NEW N \in Nat, Commands = 1..N, Inv, Kept, InTurn,
         NEW w \in Workers, Foremost(w), NEW e \in Commands, Put(e), behind \subseteq behind',
         (\E b \in Commands : Pending(b)) => e \in behind'
  PROVE  Foremost(w)'
<1>1. queue' = Append(queue, e) /\ ~Sent(e) /\ UNCHANGED <<temp, found, pc>>
  BY DEF Put, workerVars
<1>2. Place(e)' = "box" /\ \A d \in Commands \ {e} : Place(d)' = Place(d)
  <2>1. \A d \in Commands : Life'[d] = Place(d)' /\ Life[d] = Place(d)
    BY DEF Life
  <2>2. Life' = [Life EXCEPT ![e] = "box"]
    BY PutIsSend DEF Box!Send, Box!Move
  <2>3. e \in DOMAIN Life
    BY DEF Life
  <2>4. QED
    BY <2>1, <2>2, <2>3, PutOthers, PlaceStays
<1>3. queue \in Seq(Out) /\ e \in Commands
  BY DEF Inv, ChannelOK
<1>4. SUFFICES ASSUME NEW c \in Commands, Place(c)' = "box", c \notin behind'
               PROVE  /\ queue' # <<>> /\ Head(queue') = c /\ temp'[w] = <<>>
                      /\ found'[w] # None => pc'[w] = "handle"
                      /\ \A d \in Commands : c < d => Place(d)' \notin {"hand", "done"}
  BY DEF Foremost
<1>5. CASE c # e
  <2>1. Place(c) = "box" /\ c \notin behind
    BY <1>2, <1>4, <1>5
  <2>2. /\ queue # <<>> /\ Head(queue) = c /\ temp[w] = <<>>
        /\ found[w] # None => pc[w] = "handle"
        /\ \A d \in Commands : c < d => Place(d) \notin {"hand", "done"}
    BY <2>1 DEF Foremost
  <2>3. Head(Append(queue, e)) = Head(queue) /\ Append(queue, e) # <<>>
    <3>1. queue \in Seq(Commands)
      BY <1>3, OutIsCommands, SeqMonotonic
    <3>2. QED
      BY <2>2, <3>1
  <2>4. QED
    BY <1>1, <1>2, <2>2, <2>3
<1>6. CASE c = e
  <2>1. \A b \in Commands : ~Pending(b)
    BY <1>4, <1>6
  <2>2. queue = <<>> /\ temp[w] = <<>>
    BY <2>1, HeadsAreInBox, OutIsCommands DEF Pending
  <2>3. found[w] # None => pc[w] = "handle"
    BY <2>1, OutIsCommands DEF Pending, Inv, ChannelOK
  <2>4. Head(queue') = e /\ queue' # <<>>
    BY <1>1, <2>2
  <2>5. ASSUME NEW d \in Commands, e < d
        PROVE  Place(d)' \notin {"hand", "done"}
    <3>1. ~Sent(d) /\ d # e
      BY <1>1, <2>5 DEF InTurn
    <3>2. QED
      BY <1>2, <3>1, PlaceWhereItLies DEF Kept, PlaceFits
  <2>6. QED
    BY <1>1, <1>6, <2>2, <2>3, <2>4, <2>5
<1>7. QED
  BY <1>5, <1>6

LEMMA SameForemost ==
  ASSUME NEW w \in Workers, Foremost(w), behind' = behind,
         UNCHANGED <<queue, cmd, temp, found, runs, dropped>>,
         pc'[w] # pc[w] => found[w] = None \/ pc[w] # "handle"
  PROVE  Foremost(w)'
<1>1. \A c \in Commands : Place(c)' = Place(c)
  BY UntouchedByAll, PlaceStays
<1>2. QED
  BY <1>1 DEF Foremost

\* While a command is foremost, a get() finds it and nothing is put back.
LEMMA DrainKeepsForemost ==
  ASSUME Inv, Kept, NEW w \in Workers, SentTo(w), Foremost(w), Drain(w), behind' = behind
  PROVE  Foremost(w)'
<1>1. CASE BeginDrain(w) \/ Check(w) \/ EndDrain(w)
  BY <1>1, SameForemost DEF BeginDrain, Check, EndDrain
<1>2. CASE Get(w)
  <2>1. SUFFICES ASSUME NEW c \in Commands, Place(c)' = "box", c \notin behind
                 PROVE  FALSE
    BY DEF Foremost
  <2>2. queue # <<>> /\ Head(queue) \in Out /\ Place(Head(queue)) = "box" /\ pc[w] = "get"
    BY <1>2, HeadsAreInBox DEF Get
  <2>3. Place(c) = "box"
    BY <1>2, <2>1, <2>2, GetOthers, PlaceStays
  <2>4. Head(queue) = c /\ found[w] = None
    BY <2>1, <2>2, <2>3 DEF Foremost
  <2>5. Mine(c, w)
    BY <2>2, <2>4 DEF Mine, SentTo, Out
  <2>6. c \in dropped' \/ w \in Finders(c)'
    BY <1>2, <2>4, <2>5 DEF Get, Finders, Inv, ChannelOK
  <2>7. Sole(c)'
    BY <1>2, GetCounts DEF Kept
  <2>8. QED
    BY <2>1, <2>6, <2>7, NextFitting DEF Fitting, PlaceFits
<1>3. CASE PutBack(w)
  <2>1. SUFFICES ASSUME NEW c \in Commands, Place(c)' = "box", c \notin behind
                 PROVE  FALSE
    BY DEF Foremost
  <2>2. temp[w] # <<>> /\ Place(Head(temp[w])) = "box"
    BY <1>3, HeadsAreInBox DEF PutBack
  <2>3. Place(c) = "box"
    BY <1>3, <2>1, <2>2, PutBackOthers, PlaceStays
  <2>4. QED
    BY <2>1, <2>2, <2>3 DEF Foremost
<1>4. CASE Handle(w)
  <2>1. PICK e \in Commands : e = found[w] /\ e # None
    BY <1>4, OutIsCommands DEF Inv, ChannelOK, Stage, Handle
  <2>2. /\ queue' = queue /\ temp' = temp
        /\ found' = [found EXCEPT ![w] = None] /\ runs' = [runs EXCEPT ![e] = @ + 1]
    BY <1>4, <2>1 DEF Handle
  <2>3. \A d \in Commands \ {e} : Place(d)' = Place(d)
    BY <1>4, <2>1, HandleOthers, PlaceStays
  <2>4. Place(e) = "hand" /\ Place(e)' = "done"
    <3>1. w \in Finders(e) /\ Sole(e) /\ Sole(e)'
      BY <1>4, <2>1, HandleCounts DEF Kept, Finders
    <3>2. Place(e) = "hand" /\ Lies(e, 0, {}, {w}, 0, FALSE)
      BY <3>1, PlaceWhereItLies DEF PlaceFits, Sole, Lies
    <3>3. runs'[e] = 1
      BY <2>2, <3>2 DEF Lies, Inv, RestOK
    <3>4. QED
      BY <3>1, <3>2, <3>3, NextFitting DEF Fitting, PlaceFits
  <2>5. found'[w] = None
    BY <2>2 DEF Inv, ChannelOK
  <2>6. SUFFICES ASSUME NEW c \in Commands, Place(c)' = "box", c \notin behind
                 PROVE  /\ queue # <<>> /\ Head(queue) = c /\ temp[w] = <<>>
                        /\ \A d \in Commands : c < d => Place(d)' \notin {"hand", "done"}
    BY <2>2, <2>5 DEF Foremost
  <2>7. Place(c) = "box"
    BY <2>3, <2>4, <2>6
  <2>8. QED
    BY <2>3, <2>4, <2>6, <2>7 DEF Foremost
<1>5. QED
  BY <1>1, <1>2, <1>3, <1>4 DEF Drain

LEMMA LinedKeeps ==
  ASSUME NEW N \in Nat, Commands = 1..N, Inv, Kept, InTurn,
         NEW w \in Workers, Lined(w), [MCNext]_mcVars
  PROVE  Lined(w)'
<1>1. [Next]_vars /\ Lonely(w) /\ SentTo(w) /\ Foremost(w)
  BY DEF MCNext, mcVars, Lined
<1>2. Lonely(w)' /\ SentTo(w)'
  BY <1>1, LonelyKeeps, SentToKeeps
<1>3. cmd' = cmd => behind' = behind
  BY DEF MCNext, mcVars, Sent
<1>4. ASSUME NEW e \in Commands, Put(e), MCNext
      PROVE  Foremost(w)'
  <2>1. ~Sent(e) /\ cmd'[e] # None
    <3>1. PICK k \in Kinds, v \in Workers :
             cmd' = [cmd EXCEPT ![e] = [kind |-> k, target |-> v]]
      BY <1>4 DEF Put
    <3>2. QED
      BY <1>4, <3>1, CommandsAreRecords DEF Put, Inv, ChannelOK
  <2>2. behind \subseteq behind' /\ ((\E b \in Commands : Pending(b)) => e \in behind')
    BY <1>4, <2>1 DEF MCNext
  <2>3. QED
    BY <1>1, <1>4, <2>2, PutKeepsForemost
<1>5. ASSUME NEW v \in Workers, Drain(v)
      PROVE  Foremost(w)'
  <2>1. pc[v] # "dead" /\ cmd' = cmd
    BY <1>5 DEF Drain, BeginDrain, Check, Get, PutBack, EndDrain, Handle
  <2>2. v = w
    BY <1>1, <2>1 DEF Lonely
  <2>3. QED
    BY <1>1, <1>3, <1>5, <2>1, <2>2, DrainKeepsForemost
<1>6. ASSUME (\E c \in Commands : Age(c)) \/ TakeResult \/ GiveUp \/ UNCHANGED mcVars
      PROVE  Foremost(w)'
  <2>1. UNCHANGED <<queue, cmd, temp, found, runs, dropped, pc>>
    BY <1>6 DEF Age, TakeResult, GiveUp, workerVars, mcVars, vars
  <2>2. QED
    BY <1>1, <1>3, <2>1, SameForemost
<1>7. QED
  BY <1>2, <1>4, <1>5, <1>6 DEF Lined, MCNext, Next

\* A worker that is alone executes a command that was sent to it while none was pending
\* before all later ones: the put-back of get_command_for_thread goes behind newer commands,
\* but puts back nothing unless a command has been found.
THEOREM LoneWorkerOrder ==
  ASSUME NEW N \in Nat, Commands = 1..N
  PROVE  MCSpec => []OvertakenOnlyBehind
<1> DEFINE Known == Alone => \A w \in Workers : alive = {w} => Lined(w)
           Base  == Inv /\ Kept /\ InTurn
<1>1. MCInit => Base /\ Known
  <2>1. SUFFICES ASSUME MCInit PROVE Base /\ Known
    OBVIOUS
  <2>2. Init /\ \A c \in Commands : ~Sent(c)
    BY <2>1 DEF MCInit, Init, Sent
  <2>3. Inv /\ Kept /\ InTurn
    BY <2>2, InitInv, InitKept DEF InTurn
  <2>4. ASSUME NEW w \in Workers, alive = {w}
        PROVE  Lined(w)
    <3>1. Lonely(w)
      <4>1. \A v \in Workers \ {w} : pc[v] = "dead"
        BY <2>1, <2>4 DEF MCInit
      <4>2. pc[w] # "get"
        BY <2>2, <2>4 DEF Init
      <4>3. QED
        BY <4>1, <4>2 DEF Lonely
    <3>2. SentTo(w)
      BY <2>2 DEF SentTo
    <3>3. \A c \in Commands : Place(c) = "unsent"
      BY <2>2, <2>3, PlaceWhereItLies DEF Kept, PlaceFits
    <3>4. Foremost(w)
      BY <3>3 DEF Foremost
    <3>5. QED
      BY <3>1, <3>2, <3>4 DEF Lined
  <2>5. QED
    BY <2>3, <2>4
<1>2. Base /\ Known /\ [MCNext]_mcVars => (Base /\ Known)'
  <2>1. SUFFICES ASSUME Base, Known, [MCNext]_mcVars PROVE Base' /\ Known'
    OBVIOUS
  <2>2. [Next]_vars /\ alive' = alive
    BY <2>1 DEF MCNext, mcVars
  <2>3. Base'
    BY <2>1, <2>2, StepInv, StepKept, InTurnKeeps
  <2>4. ASSUME NEW w \in Workers, alive' = {w}
        PROVE  Lined(w)'
    <3>1. Lined(w)
      BY <2>1, <2>2, <2>4 DEF Alone
    <3>2. QED
      BY <2>1, <3>1, LinedKeeps
  <2>5. QED
    BY <2>3, <2>4
<1>3. Base /\ Known => OvertakenOnlyBehind
  BY DEF Alone, Lined, Foremost, OvertakenOnlyBehind
<1> HIDE DEF Known, Base
<1>4. QED
  BY <1>1, <1>2, <1>3, PTL DEF MCSpec
=============================================================================
