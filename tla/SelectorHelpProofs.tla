-------------------------- MODULE SelectorHelpProofs --------------------------
(***************************************************************************)
(* What mark_login_ok cannot get, for any number of workers, requests and  *)
(* faults: the answer of a chat whose worker waits for this one, or is     *)
(* this one.                                                               *)
(***************************************************************************)
EXTENDS SelectorHelp, WellFoundedInduction, TLAPS

\* A command that a worker has in its hands is nowhere else, and its question is put
\* once, when the wait begins.
Handled ==
    \A w \in Workers : cur[w] # 0 =>
        /\ target[cur[w]] = w /\ cur[w] \notin queued \cup results
        /\ saved[cur[w]] = "nothing" /\ told[cur[w]] # "200"
        /\ helper[cur[w]] # None <=> pc[w] = "wait"

\* What is in the queue has not been looked at, and the next number is not used.
Fresh(c) == /\ helper[c] = None /\ saved[c] = "nothing"
            /\ c \notin results /\ told[c] # "200"
Untouched == /\ \A c \in queued : Fresh(c) /\ target[c] # None
             /\ \A c \in Calls : c > n => Fresh(c) /\ target[c] = None

\* A question is a task of its helper's, and only the helper works on it.
Given == /\ \A c \in Calls : /\ helper[c] # None <=> task[c] # "none"
                             /\ helper[c] # None => target[c] # None
                             /\ json[c] => task[c] = "COMPLETED"
         /\ \A w \in Workers : job[w] # 0 => /\ helper[job[w]] = w
                                             /\ task[job[w]] = "DISPATCHED"

\* The handler has left the command without the answer of a chat.
Over(c) == /\ target[c] # None /\ c \notin queued
           /\ cur[target[c]] # c /\ saved[c] # "answer"

\* A worker that asks itself stands in a circle of one.
SelfHelp ==
    \A c \in Calls : helper[c] # None /\ helper[c] = target[c]
                        => /\ told[c] # "200"
                           /\ Circle(c, c) \/ (Over(c) /\ api # c)

Inv == TypeOK /\ Handled /\ Untouched /\ Given /\ SelfHelp

\* Two handlers in a circle stay in it until one of them has left by its timeout.
Lasting == \A c, d \in Calls : Circle(c, d) \/ Over(c) \/ Over(d)
                                => (Circle(c, d) \/ Over(c) \/ Over(d))'
-----------------------------------------------------------------------------
LEMMA MinIn ==
  ASSUME NEW S \in SUBSET Nat, S # {}
  PROVE  Min(S) \in S
<1>1. PICK x \in S : \A y \in S : <<y, x>> \notin OpToRel(<, Nat)
  BY WFMin, NatLessThanWellFounded, Zenon
<1>2. \A y \in S : ~(y < x)
  BY <1>1 DEF OpToRel
<1>3. \A y \in S : x <= y
  BY <1>2
<1>4. QED
  BY <1>3 DEF Min

LEMMA CallsFacts ==
  ASSUME TypeOK
  PROVE  /\ n \in Nat /\ api \in Nat /\ 0 \notin Calls /\ Calls \subseteq Nat
         /\ \A c \in 1..n : c \in Calls
         /\ \A w \in Workers : w # None
         /\ \A w \in Workers : cur[w] # 0 => cur[w] \in Calls
         /\ \A w \in Workers : job[w] # 0 => job[w] \in Calls
  BY HelpAssumption DEF TypeOK, Calls

\* Steps that leave the calls and the questions alone, and start and end no wait.
LEMMA Aside ==
  ASSUME Inv, TypeOK', UNCHANGED <<cur, job, callVars, taskVars, saved>>,
         \A w \in Workers : pc'[w] = "wait" <=> pc[w] = "wait"
  PROVE  Inv' /\ Lasting
<1>1. UNCHANGED <<cur, job, n, target, queued, results, api, told, helper, task, json,
                  saved>>
  BY DEF callVars, taskVars
<1>2. Handled'
  BY <1>1 DEF Inv, Handled
<1>3. Untouched'
  BY <1>1 DEF Inv, Untouched, Fresh
<1>4. Given'
  BY <1>1 DEF Inv, Given
<1>5. \A c \in Calls : target[c] \in Workers \cup {None}
  BY DEF Inv, TypeOK
<1>6. \A c, d \in Calls : (Circle(c, d)' <=> Circle(c, d)) /\ (Over(c)' <=> Over(c))
  BY <1>1, <1>5 DEF Circle, Waits, Over
<1>7. SelfHelp'
  BY <1>1, <1>6 DEF Inv, SelfHelp
<1>8. Lasting
  BY <1>6 DEF Lasting
<1>9. QED
  BY <1>2, <1>3, <1>4, <1>7, <1>8 DEF Inv

\* A handler that ends: only one whose question is still pending may stand in a circle,
\* and it saves no answer then.
LEMMA Ends ==
  ASSUME Inv, TypeOK', NEW w \in Workers, NEW what, pc[w] \notin {"idle", "get"},
         Finish(w, what),
         UNCHANGED <<job, n, target, queued, api, told, taskVars>>,
         pc[w] = "wait" /\ task[cur[w]] = "PENDING" => what # "answer" /\ api # cur[w]
  PROVE  Inv' /\ Lasting
<1>1. /\ UNCHANGED <<job, n, target, queued, api, told, helper, task, json>>
      /\ cur[w] # 0 /\ cur[w] \in Calls
  BY CallsFacts DEF Inv, TypeOK, taskVars
<1>2. /\ results' = results \cup {cur[w]}
      /\ \A c \in Calls : saved'[c] = IF c = cur[w] THEN what ELSE saved[c]
      /\ \A v \in Workers : /\ cur'[v] = IF v = w THEN 0 ELSE cur[v]
                            /\ pc'[v] = IF v = w THEN "idle" ELSE pc[v]
  BY DEF Finish, Goto, Inv, TypeOK
<1>3. /\ target[cur[w]] = w /\ cur[w] \notin queued
      /\ \A v \in Workers : cur[v] = cur[w] => v = w
  BY <1>1 DEF Inv, Handled
<1>4. Handled'
  BY <1>1, <1>2, <1>3, CallsFacts DEF Inv, Handled
<1>5. Untouched'
  <2>1. cur[w] <= n
    BY <1>1, <1>3, CallsFacts DEF Inv, Untouched
  <2>2. \A c \in queued : c \in Calls /\ c # cur[w]
    BY <1>3, CallsFacts DEF Inv, TypeOK
  <2>3. QED
    BY <1>1, <1>2, <2>1, <2>2, CallsFacts DEF Inv, Untouched, Fresh
<1>6. Given'
  BY <1>1 DEF Inv, Given
<1>7. /\ \A c \in Calls : target[c] \in Workers \cup {None}
      /\ \A c \in Calls : c # 0
      /\ \A v \in Workers : v # None
  BY CallsFacts DEF Inv, TypeOK
<1>8. \A c \in Calls : Over(c) => Over(c)' /\ c # cur[w]
  BY <1>1, <1>2, <1>3, <1>7 DEF Over
<1>9. \A c \in Calls : cur[w] = c /\ pc[w] = "wait" /\ task[c] = "PENDING" => Over(c)'
  BY <1>1, <1>2, <1>3, <1>7 DEF Over
<1>10. \A c, d \in Calls : Circle(c, d) => (Circle(c, d) \/ Over(c) \/ Over(d))'
  <2>1. SUFFICES ASSUME NEW c \in Calls, NEW d \in Calls, Circle(c, d)
                 PROVE  (Circle(c, d) \/ Over(c) \/ Over(d))'
    OBVIOUS
  <2>2. CASE target[c] # w /\ target[d] # w
    BY <1>1, <1>2, <1>7, <2>1, <2>2 DEF Circle, Waits
  <2>3. CASE target[c] = w
    <3>1. cur[w] = c /\ pc[w] = "wait" /\ task[c] = "PENDING"
      BY <2>1, <2>3 DEF Circle, Waits
    <3>2. QED
      BY <1>9, <3>1
  <2>4. CASE target[d] = w
    <3>1. cur[w] = d /\ pc[w] = "wait" /\ task[d] = "PENDING"
      BY <2>1, <2>4 DEF Circle, Waits
    <3>2. QED
      BY <1>9, <3>1
  <2>5. QED
    BY <2>2, <2>3, <2>4
<1>11. SelfHelp'
  <2>1. SUFFICES ASSUME NEW c \in Calls, helper[c] # None, helper[c] = target[c]
                 PROVE  /\ told[c] # "200"
                        /\ Circle(c, c)' \/ (Over(c)' /\ api # c)
    BY <1>1 DEF SelfHelp
  <2>2. told[c] # "200" /\ (Circle(c, c) \/ (Over(c) /\ api # c))
    BY <2>1 DEF Inv, SelfHelp
  <2>3. CASE c = cur[w]
    <3>1. Circle(c, c)
      BY <1>8, <2>2, <2>3
    <3>2. pc[w] = "wait" /\ task[cur[w]] = "PENDING"
      BY <1>3, <2>3, <3>1 DEF Circle, Waits
    <3>3. QED
      BY <1>9, <2>2, <2>3, <3>2
  <2>4. CASE c # cur[w]
    <3>1. CASE Over(c) /\ api # c
      BY <1>8, <2>2, <3>1
    <3>2. CASE Circle(c, c)
      BY <1>1, <1>2, <1>3, <1>7, <2>2, <2>4, <3>2 DEF Circle, Waits
    <3>3. QED
      BY <2>2, <3>1, <3>2
  <2>5. QED
    BY <2>3, <2>4
<1>12. QED
  BY <1>4, <1>5, <1>6, <1>8, <1>10, <1>11 DEF Inv, Lasting
-----------------------------------------------------------------------------
(* The handler.                                                            *)

LEMMA GoesOn ==
  ASSUME TypeOK, NEW w \in Workers, pc[w] \notin {"idle", "get"},
         NEW step \in {"page", "hello", "scan", "wait", "save"}, Goto(w, step)
  PROVE  /\ pc' \in [Workers -> {"idle", "get", "page", "hello", "scan", "wait", "save"}]
         /\ \A v \in Workers : pc'[v] = IF v = w THEN step ELSE pc[v]
         /\ \A v \in Workers : (cur[v] = 0) = (pc'[v] \in {"idle", "get"})
  BY DEF TypeOK, Goto

LEMMA GetPageKeeps ==
  ASSUME Inv, NEW w \in Workers, GetPage(w)
  PROVE  Inv' /\ Lasting
<1>1. /\ pc[w] = "page" /\ Goto(w, "hello")
      /\ UNCHANGED <<on, page, cur, job, guess, callVars, taskVars, saved, faults>>
  BY DEF GetPage, At
<1>2. /\ pc' \in [Workers -> {"idle", "get", "page", "hello", "scan", "wait", "save"}]
      /\ \A v \in Workers : pc'[v] = IF v = w THEN "hello" ELSE pc[v]
      /\ \A v \in Workers : (cur[v] = 0) = (pc'[v] \in {"idle", "get"})
  BY <1>1, GoesOn DEF Inv
<1>3. TypeOK'
  BY <1>1, <1>2 DEF Inv, TypeOK, callVars, taskVars
<1>4. QED
  BY <1>1, <1>2, <1>3, Aside

LEMMA HelloKeeps ==
  ASSUME Inv, NEW w \in Workers, Hello(w)
  PROVE  Inv' /\ Lasting
<1>1. /\ pc[w] = "hello" /\ \E found \in BOOLEAN : guess' = [guess EXCEPT ![w] = found]
      /\ \E step \in {"scan", "save"} : Goto(w, step)
      /\ UNCHANGED <<on, page, cur, job, callVars, taskVars, saved, faults>>
  BY DEF Hello, At
<1>2. PICK step \in {"scan", "save"} : Goto(w, step)
  BY <1>1
<1>3. /\ pc' \in [Workers -> {"idle", "get", "page", "hello", "scan", "wait", "save"}]
      /\ \A v \in Workers : pc'[v] = IF v = w THEN step ELSE pc[v]
      /\ \A v \in Workers : (cur[v] = 0) = (pc'[v] \in {"idle", "get"})
  BY <1>1, <1>2, GoesOn DEF Inv
<1>4. guess' \in [Workers -> BOOLEAN]
  BY <1>1 DEF Inv, TypeOK
<1>5. TypeOK'
  BY <1>1, <1>3, <1>4 DEF Inv, TypeOK, callVars, taskVars
<1>6. QED
  BY <1>1, <1>3, <1>5, Aside

LEMMA NobodyToAskKeeps ==
  ASSUME Inv, NEW w \in Workers, NobodyToAsk(w)
  PROVE  Inv' /\ Lasting
<1>1. /\ pc[w] = "scan" /\ Goto(w, "save")
      /\ UNCHANGED <<on, page, cur, job, guess, callVars, taskVars, saved, faults>>
  BY DEF NobodyToAsk, At
<1>2. /\ pc' \in [Workers -> {"idle", "get", "page", "hello", "scan", "wait", "save"}]
      /\ \A v \in Workers : pc'[v] = IF v = w THEN "save" ELSE pc[v]
      /\ \A v \in Workers : (cur[v] = 0) = (pc'[v] \in {"idle", "get"})
  BY <1>1, GoesOn DEF Inv
<1>3. TypeOK'
  BY <1>1, <1>2 DEF Inv, TypeOK, callVars, taskVars
<1>4. QED
  BY <1>1, <1>2, <1>3, Aside

LEMMA FinishType ==
  ASSUME TypeOK, NEW w \in Workers, NEW what \in {"nothing", "guess", "answer"},
         pc[w] \notin {"idle", "get"}, Finish(w, what), cur[w] <= n,
         UNCHANGED <<on, page, job, guess, n, target, queued, api, told, taskVars>>,
         faults' \in 0..MaxFaults
  PROVE  TypeOK'
<1>1. cur[w] \in Calls /\ cur[w] \in 1..n
  BY CallsFacts DEF TypeOK, Calls
<1>2. /\ results' \subseteq 1..n
      /\ saved' \in [Calls -> {"nothing", "guess", "answer"}]
      /\ cur' \in [Workers -> 0..MaxCalls]
      /\ pc' \in [Workers -> {"idle", "get", "page", "hello", "scan", "wait", "save"}]
      /\ \A v \in Workers : (cur'[v] = 0) = (pc'[v] \in {"idle", "get"})
  <2>1. results' = results \cup {cur[w]} /\ saved' = [saved EXCEPT ![cur[w]] = what]
    BY DEF Finish
  <2>2. cur' = [cur EXCEPT ![w] = 0] /\ pc' = [pc EXCEPT ![w] = "idle"]
    BY DEF Finish, Goto
  <2>3. results' \subseteq 1..n /\ saved' \in [Calls -> {"nothing", "guess", "answer"}]
    BY <1>1, <2>1 DEF TypeOK
  <2>4. 0 \in 0..MaxCalls
    BY HelpAssumption
  <2>5. /\ cur' \in [Workers -> 0..MaxCalls]
        /\ pc' \in [Workers -> {"idle", "get", "page", "hello", "scan", "wait", "save"}]
        /\ \A v \in Workers : (cur'[v] = 0) = (pc'[v] \in {"idle", "get"})
    BY <2>2, <2>4 DEF TypeOK
  <2>6. QED
    BY <2>3, <2>5
<1>3. QED
  BY <1>2 DEF TypeOK, taskVars

\* Numbers that are handled are in use.
LEMMA HandledUsed ==
  ASSUME Inv, NEW w \in Workers, cur[w] # 0
  PROVE  cur[w] \in Calls /\ cur[w] <= n
<1>1. cur[w] \in Calls /\ target[cur[w]] = w /\ w # None
  BY CallsFacts DEF Inv, Handled
<1>2. QED
  BY <1>1, CallsFacts DEF Inv, Untouched

LEMMA FaultType ==
  ASSUME TypeOK, Fault
  PROVE  faults' \in 0..MaxFaults
  BY HelpAssumption DEF TypeOK, Fault

LEMMA RaisesKeeps ==
  ASSUME Inv, NEW w \in Workers, Raises(w)
  PROVE  Inv' /\ Lasting
<1>1. /\ pc[w] \in {"page", "scan"} /\ Finish(w, "nothing")
      /\ UNCHANGED <<on, page, job, guess, n, target, queued, api, told, taskVars>>
  BY DEF Raises, At
<1>2. faults' \in 0..MaxFaults
  BY FaultType DEF Raises, Inv, TypeOK
<1>3. cur[w] # 0
  BY <1>1 DEF Inv, TypeOK
<1>4. TypeOK'
  BY <1>1, <1>2, <1>3, FinishType, HandledUsed DEF Inv
<1>5. QED
  BY <1>1, <1>4, Ends

\* The three ways to leave the handler without an exception.
LEMMA LeavesKeeps ==
  ASSUME Inv, NEW w \in Workers, Poll(w) \/ Elapsed(w) \/ SaveGuess(w)
  PROVE  Inv' /\ Lasting
<1>1. PICK what \in {"nothing", "guess", "answer"} :
         /\ pc[w] \in {"wait", "save"} /\ Finish(w, what)
         /\ pc[w] = "wait" /\ task[cur[w]] = "PENDING"
               => what # "answer" /\ api # cur[w]
         /\ UNCHANGED <<on, page, job, guess, n, target, queued, api, told, taskVars,
                        faults>>
  <2>1. Own(w) \in {"nothing", "guess"}
    BY DEF Own
  <2>2. CASE Poll(w)
    BY <2>1, <2>2 DEF Poll, At, Keep
  <2>3. CASE Elapsed(w)
    BY <2>1, <2>3 DEF Elapsed, At, Keep
  <2>4. CASE SaveGuess(w)
    BY <2>1, <2>4 DEF SaveGuess, At, Keep
  <2>5. QED
    BY <2>2, <2>3, <2>4
<1>2. cur[w] # 0
  BY <1>1 DEF Inv, TypeOK
<1>3. TypeOK'
  <2>1. faults' \in 0..MaxFaults
    BY <1>1 DEF Inv, TypeOK
  <2>2. QED
    BY <1>1, <1>2, <2>1, FinishType, HandledUsed DEF Inv
<1>4. QED
  BY <1>1, <1>3, Ends

\* Steps after which whoever stood in a circle still does, and no question is new.
LEMMA Steady ==
  ASSUME Inv,
         \A c, d \in Calls : Circle(c, d) => Circle(c, d)',
         \A c \in Calls : Over(c) => Over(c)',
         \A c \in Calls : helper'[c] # None /\ helper'[c] = target'[c]
            => /\ helper[c] = helper'[c] /\ target[c] = target'[c]
               /\ told'[c] # "200" /\ (api' = c => api = c)
  PROVE  SelfHelp' /\ Lasting
<1>1. Lasting
  BY DEF Lasting
<1>2. SelfHelp'
  BY DEF Inv, SelfHelp
<1>3. QED
  BY <1>1, <1>2

\* A worker that blocks, or no longer does, is in no handler.
LEMMA BlockedKeeps ==
  ASSUME Inv, NEW w \in Workers, BlockInGet(w) \/ Unblock(w)
  PROVE  Inv' /\ Lasting
<1>1. /\ pc[w] \in {"idle", "get"} /\ \E step \in {"idle", "get"} : Goto(w, step)
      /\ UNCHANGED <<on, page, cur, job, guess, callVars, taskVars, saved, faults>>
  BY DEF BlockInGet, Unblock, Looks, At
<1>2. PICK step \in {"idle", "get"} : pc' = [pc EXCEPT ![w] = step]
  BY <1>1 DEF Goto
<1>3. \A v \in Workers : pc'[v] = IF v = w THEN step ELSE pc[v]
  BY <1>2 DEF Inv, TypeOK
<1>4. TypeOK'
  <2>1. /\ pc' \in [Workers -> {"idle", "get", "page", "hello", "scan", "wait", "save"}]
        /\ \A v \in Workers : (cur[v] = 0) = (pc'[v] \in {"idle", "get"})
    BY <1>1, <1>2, <1>3 DEF Inv, TypeOK
  <2>2. QED
    BY <1>1, <2>1 DEF Inv, TypeOK, callVars, taskVars
<1>5. QED
  BY <1>1, <1>3, <1>4, Aside

LEMMA TakeCommandKeeps ==
  ASSUME Inv, NEW w \in Workers, TakeCommand(w)
  PROVE  Inv' /\ Lasting
<1> DEFINE c == Min(Mine(w))
<1>1. /\ c \in queued /\ target[c] = w /\ c \in Calls /\ c # 0 /\ c \in Nat
      /\ \A d \in Calls : d # 0
  <2>1. Mine(w) \in SUBSET Nat /\ Mine(w) # {}
    BY CallsFacts DEF TakeCommand, Mine, Inv, TypeOK
  <2>2. c \in Mine(w)
    BY <2>1, MinIn
  <2>3. QED
    BY <2>2, CallsFacts DEF Mine, Inv, TypeOK
<1> HIDE DEF c
<1>2. /\ pc[w] = "idle" /\ job[w] = 0 /\ cur' = [cur EXCEPT ![w] = c]
      /\ queued' = queued \ {c} /\ pc' = [pc EXCEPT ![w] = "page"]
      /\ UNCHANGED <<on, page, job, guess, n, target, results, api, told, helper, task,
                     json, saved, faults>>
  BY DEF TakeCommand, Looks, At, Goto, taskVars, c
<1>3. \A v \in Workers : /\ cur'[v] = IF v = w THEN c ELSE cur[v]
                         /\ pc'[v] = IF v = w THEN "page" ELSE pc[v]
  BY <1>2 DEF Inv, TypeOK
<1>4. TypeOK'
  <2>1. c \in 0..MaxCalls
    BY <1>1 DEF Calls
  <2>2. /\ cur' \in [Workers -> 0..MaxCalls]
        /\ pc' \in [Workers -> {"idle", "get", "page", "hello", "scan", "wait", "save"}]
        /\ \A v \in Workers : (cur'[v] = 0) = (pc'[v] \in {"idle", "get"})
    BY <1>1, <1>2, <1>3, <2>1 DEF Inv, TypeOK
  <2>3. queued' \subseteq 1..n
    BY <1>2 DEF Inv, TypeOK
  <2>4. QED
    BY <1>2, <2>2, <2>3 DEF Inv, TypeOK
<1>5. Handled'
  <2>1. Fresh(c)
    BY <1>1 DEF Inv, Untouched
  <2>2. QED
    BY <1>1, <1>2, <1>3, <2>1 DEF Inv, Handled, Fresh
<1>6. Untouched' /\ Given'
  BY <1>2 DEF Inv, Untouched, Fresh, Given
<1>7. \A d \in Calls : target[d] \in Workers \cup {None}
  BY DEF Inv, TypeOK
<1>8. \A d \in Calls : Over(d) => Over(d)'
  BY <1>1, <1>2, <1>3, <1>7 DEF Over
<1>9. \A d, e \in Calls : Circle(d, e) => Circle(d, e)'
  BY <1>2, <1>3, <1>7 DEF Circle, Waits
<1>10. SelfHelp' /\ Lasting
  <2>1. \A d \in Calls : helper[d] # None /\ helper[d] = target[d] => told[d] # "200"
    BY DEF Inv, SelfHelp
  <2>2. QED
    BY <1>2, <1>8, <1>9, <2>1, Steady
<1>11. QED
  BY <1>4, <1>5, <1>6, <1>10 DEF Inv

LEMMA AskKeeps ==
  ASSUME Inv, NEW w \in Workers, Ask(w)
  PROVE  Inv' /\ Lasting
<1> DEFINE c == cur[w]
<1>1. PICK v \in Workers :
         /\ helper' = [helper EXCEPT ![c] = v] /\ task' = [task EXCEPT ![c] = "PENDING"]
         /\ pc[w] = "scan" /\ pc' = [pc EXCEPT ![w] = "wait"]
         /\ UNCHANGED <<on, page, cur, job, guess, n, target, queued, results, api, told,
                        json, saved, faults>>
  <2>1. Helpers(w) \subseteq Workers
    BY DEF Helpers, Others
  <2>2. QED
    BY <2>1 DEF Ask, At, Goto, callVars
<1>2. /\ c # 0 /\ c \in Calls /\ c <= n /\ target[c] = w /\ c \notin queued
      /\ helper[c] = None /\ saved[c] = "nothing" /\ told[c] # "200" /\ v # None
      /\ c \notin results /\ task[c] = "none" /\ ~json[c]
  <2>1. c # 0
    BY <1>1 DEF Inv, TypeOK
  <2>2. c \in Calls /\ c <= n
    BY <2>1, HandledUsed
  <2>3. /\ target[c] = w /\ c \notin queued /\ saved[c] = "nothing" /\ told[c] # "200"
        /\ c \notin results /\ helper[c] = None
    BY <1>1, <2>1 DEF Inv, Handled
  <2>4. task[c] = "none" /\ ~json[c]
    BY <2>2, <2>3 DEF Inv, Given, TypeOK
  <2>5. QED
    BY <2>1, <2>2, <2>3, <2>4, CallsFacts DEF Inv
<1>3. /\ \A u \in Workers : pc'[u] = IF u = w THEN "wait" ELSE pc[u]
      /\ \A d \in Calls : /\ helper'[d] = IF d = c THEN v ELSE helper[d]
                          /\ task'[d] = IF d = c THEN "PENDING" ELSE task[d]
  BY <1>1 DEF Inv, TypeOK
<1>4. TypeOK'
  <2>1. /\ pc' \in [Workers -> {"idle", "get", "page", "hello", "scan", "wait", "save"}]
        /\ \A u \in Workers : (cur'[u] = 0) = (pc'[u] \in {"idle", "get"})
    BY <1>1, <1>3 DEF Inv, TypeOK
  <2>2. /\ helper' \in [Calls -> Workers \cup {None}]
        /\ task' \in [Calls -> {"none", "PENDING", "DISPATCHED", "COMPLETED", "FAILED"}]
    BY <1>1, <1>2 DEF Inv, TypeOK
  <2>3. QED
    BY <1>1, <2>1, <2>2 DEF Inv, TypeOK
<1>5. Handled'
  <2>1. \A u \in Workers : cur[u] # 0 /\ u # w => cur[u] \in Calls /\ cur[u] # c
    BY <1>2, CallsFacts DEF Inv, Handled
  <2>2. QED
    BY <1>1, <1>2, <1>3, <2>1 DEF Inv, Handled
<1>6. Untouched'
  <2>1. \A d \in queued : d \in Calls
    BY CallsFacts DEF Inv, TypeOK
  <2>2. n \in Nat /\ c \in Nat
    BY <1>2, CallsFacts DEF Inv
  <2>3. QED
    BY <1>1, <1>2, <1>3, <2>1, <2>2 DEF Inv, Untouched, Fresh
<1>7. Given'
  <2>1. \A u \in Workers : job[u] # 0 => job[u] \in Calls /\ job[u] # c
    BY <1>2, CallsFacts DEF Inv, Given
  <2>2. \A d \in Calls : /\ helper'[d] # None <=> task'[d] # "none"
                         /\ helper'[d] # None => target'[d] # None
                         /\ json'[d] => task'[d] = "COMPLETED"
    <3>1. w # None
      BY CallsFacts DEF Inv
    <3>2. QED
      BY <1>1, <1>2, <1>3, <3>1 DEF Inv, Given
  <2>3. QED
    BY <1>1, <1>3, <2>1, <2>2 DEF Inv, Given
<1>8. \A d \in Calls : target[d] \in Workers \cup {None}
  BY DEF Inv, TypeOK
<1>9. \A d \in Calls : Over(d)' <=> Over(d)
  BY <1>1 DEF Over
<1>10. \A d, e \in Calls : Circle(d, e) => Circle(d, e)'
  <2>1. \A d \in Calls : Waits(d) => d # c /\ Waits(d)'
    BY <1>1, <1>2, <1>3, <1>8 DEF Waits
  <2>2. QED
    BY <1>1, <1>3, <2>1 DEF Circle
<1>11. SelfHelp'
  <2>1. SUFFICES ASSUME NEW d \in Calls, helper'[d] # None, helper'[d] = target[d]
                 PROVE  /\ told[d] # "200"
                        /\ Circle(d, d)' \/ (Over(d)' /\ api # d)
    BY <1>1 DEF SelfHelp
  <2>2. CASE d = c
    <3>1. v = w
      BY <1>2, <1>3, <2>1, <2>2
    <3>2. Waits(d)'
      BY <1>1, <1>2, <1>3, <2>2, CallsFacts DEF Waits, Inv
    <3>3. Circle(d, d)'
      BY <1>1, <1>2, <1>3, <2>2, <3>1, <3>2 DEF Circle
    <3>4. QED
      BY <1>2, <2>2, <3>3
  <2>3. CASE d # c
    BY <1>3, <1>9, <1>10, <2>1, <2>3 DEF Inv, SelfHelp
  <2>4. QED
    BY <2>2, <2>3
<1>12. Lasting
  BY <1>9, <1>10 DEF Lasting
<1>13. QED
  BY <1>4, <1>5, <1>6, <1>7, <1>11, <1>12 DEF Inv
-----------------------------------------------------------------------------
(* The endpoint.                                                           *)

LEMMA PostKeeps ==
  ASSUME Inv, NEW w \in Workers, Post(w)
  PROVE  Inv' /\ Lasting
<1> DEFINE c == n + 1
<1>1. /\ api = 0 /\ n' = c /\ api' = c /\ target' = [target EXCEPT ![c] = w]
      /\ queued' = queued \cup {c}
      /\ UNCHANGED <<on, page, pc, cur, job, guess, helper, task, json, results, told,
                     saved, faults>>
  BY DEF Post, threadVars, taskVars
<1>2. /\ n \in Nat /\ c \in Calls /\ c > n /\ c \in 1..n' /\ 1..n \subseteq 1..n'
      /\ n' \in 0..MaxCalls /\ api' \in 0..n'
  BY <1>1, HelpAssumption DEF Post, Inv, TypeOK, Calls
<1>3. /\ Fresh(c) /\ target[c] = None /\ c \notin queued /\ w # None
      /\ \A d \in queued : d \in Calls /\ d <= n
      /\ \A d \in Calls : target'[d] = IF d = c THEN w ELSE target[d]
      /\ \A u \in Workers : cur[u] # 0 => cur[u] \in Calls /\ cur[u] # c
  <2>1. Fresh(c) /\ target[c] = None
    BY <1>2 DEF Inv, Untouched
  <2>2. \A d \in queued : d \in Calls /\ d <= n /\ d # c
    BY <1>2, CallsFacts DEF Inv, TypeOK
  <2>3. \A u \in Workers : cur[u] # 0 => cur[u] \in Calls /\ cur[u] <= n
    BY HandledUsed
  <2>4. \A d \in Calls : target'[d] = IF d = c THEN w ELSE target[d]
    BY <1>1 DEF Inv, TypeOK
  <2>5. \A u \in Workers : cur[u] # 0 => cur[u] \in Calls /\ cur[u] # c
    BY <1>2, <2>1, CallsFacts DEF Inv, Handled
  <2>6. QED
    BY <2>1, <2>2, <2>4, <2>5, CallsFacts DEF Inv
<1>4. TypeOK'
  <2>1. target' \in [Calls -> Workers \cup {None}]
    BY <1>1, <1>2 DEF Inv, TypeOK
  <2>2. queued' \subseteq 1..n' /\ results' \subseteq 1..n'
    BY <1>1, <1>2 DEF Inv, TypeOK
  <2>3. QED
    BY <1>1, <1>2, <2>1, <2>2 DEF Inv, TypeOK
<1>5. Handled'
  BY <1>1, <1>3 DEF Inv, Handled
<1>6. Untouched'
  <2>1. \A d \in queued' : Fresh(d)' /\ target'[d] # None
    BY <1>1, <1>2, <1>3 DEF Inv, Untouched, Fresh
  <2>2. \A d \in Calls : d > n' => d > n /\ d # c
    BY <1>1, <1>2 DEF Calls
  <2>3. QED
    BY <1>1, <1>3, <2>1, <2>2 DEF Inv, Untouched, Fresh
<1>7. Given'
  BY <1>1, <1>3 DEF Inv, Given
<1>8. \A d \in Calls : Over(d) => Over(d)'
  BY <1>1, <1>3 DEF Over
<1>9. \A d, e \in Calls : Circle(d, e) => Circle(d, e)'
  <2>1. \A d \in Calls : Waits(d) => d # c /\ Waits(d)'
    BY <1>1, <1>3 DEF Waits
  <2>2. QED
    BY <1>1, <1>3, <2>1 DEF Circle
<1>10. SelfHelp' /\ Lasting
  <2>1. \A d \in Calls : helper'[d] # None => d # c
    BY <1>1, <1>3 DEF Fresh
  <2>2. \A d \in Calls : helper[d] # None /\ helper[d] = target[d] => told[d] # "200"
    BY DEF Inv, SelfHelp
  <2>3. QED
    BY <1>1, <1>3, <1>8, <1>9, <2>1, <2>2, Steady
<1>11. QED
  BY <1>4, <1>5, <1>6, <1>7, <1>10 DEF Inv

\* The request in the event loop ends, with the result or without.
LEMMA TellKeeps ==
  ASSUME Inv, api \in Calls, NEW code \in {"200", "500"}, Tell(code),
         code = "200" => api \in results, results' \subseteq results,
         UNCHANGED <<on, page, pc, cur, job, guess, n, target, queued, helper, task, json,
                     saved, faults>>
  PROVE  Inv' /\ Lasting
<1>1. /\ api' = 0 /\ told' = [told EXCEPT ![api] = code] /\ 0 \notin Calls
      /\ \A d \in Calls : told'[d] = IF d = api THEN code ELSE told[d]
  BY CallsFacts DEF Tell, Inv, TypeOK
<1>2. TypeOK'
  <2>1. told' \in [Calls -> {"nothing", "200", "500"}]
    BY <1>1 DEF Inv, TypeOK
  <2>2. results' \subseteq 1..n /\ 0 \in 0..n
    BY CallsFacts DEF Inv, TypeOK
  <2>3. QED
    BY <1>1, <2>1, <2>2 DEF Inv, TypeOK
<1>3. Handled'
  BY <1>1, CallsFacts DEF Inv, Handled
<1>4. api <= n
  BY DEF Inv, TypeOK
<1>5. Untouched'
  <2>1. \A d \in queued : d \in Calls
    BY CallsFacts DEF Inv, TypeOK
  <2>2. \A d \in Calls : Fresh(d) => Fresh(d)'
    BY <1>1 DEF Fresh
  <2>3. QED
    BY <2>1, <2>2 DEF Inv, Untouched
<1>6. Given'
  BY DEF Inv, Given
<1>7. \A d \in Calls : Over(d) => Over(d)'
  BY DEF Over
<1>8. \A d, e \in Calls : Circle(d, e) => Circle(d, e)'
  BY DEF Circle, Waits
<1>9. SelfHelp' /\ Lasting
  <2>1. ASSUME NEW d \in Calls, helper[d] # None, helper[d] = target[d]
        PROVE  told'[d] # "200"
    <3>1. told[d] # "200" /\ (Circle(d, d) \/ (Over(d) /\ api # d))
      BY <2>1 DEF Inv, SelfHelp
    <3>2. Circle(d, d) => d \notin results
      BY <2>1, CallsFacts DEF Circle, Waits, Inv, Handled, TypeOK
    <3>3. QED
      BY <1>1, <3>1, <3>2
  <2>2. QED
    BY <1>1, <1>7, <1>8, <2>1, Steady
<1>10. QED
  BY <1>2, <1>3, <1>5, <1>6, <1>9 DEF Inv

LEMMA AnswerKeeps ==
  ASSUME Inv, Answer
  PROVE  Inv' /\ Lasting
<1>1. api \in Calls
  BY CallsFacts DEF Answer, Inv, TypeOK
<1>2. QED
  BY <1>1, TellKeeps DEF Answer, threadVars, taskVars

LEMMA GiveUpKeeps ==
  ASSUME Inv, GiveUp
  PROVE  Inv' /\ Lasting
<1>1. api \in Calls
  BY CallsFacts DEF GiveUp, Inv, TypeOK, Calls
<1>2. QED
  BY <1>1, TellKeeps DEF GiveUp, threadVars, taskVars

LEMMA ExpireKeeps ==
  ASSUME Inv, NEW c \in Calls, Expire(c)
  PROVE  Inv' /\ Lasting
<1>1. /\ c \in queued /\ queued' = queued \ {c}
      /\ UNCHANGED <<on, page, pc, cur, job, guess, n, target, results, api, told, helper,
                     task, json, saved, faults>>
  BY DEF Expire, threadVars, taskVars
<1>2. TypeOK'
  BY <1>1 DEF Inv, TypeOK
<1>3. Handled' /\ Untouched' /\ Given'
  BY <1>1 DEF Inv, Handled, Untouched, Fresh, Given
<1>4. \A d \in Calls : Over(d) => Over(d)'
  BY <1>1 DEF Over
<1>5. \A d, e \in Calls : Circle(d, e) => Circle(d, e)'
  BY <1>1 DEF Circle, Waits
<1>6. SelfHelp' /\ Lasting
  <2>1. \A d \in Calls : helper[d] # None /\ helper[d] = target[d] => told[d] # "200"
    BY DEF Inv, SelfHelp
  <2>2. QED
    BY <1>1, <1>4, <1>5, <2>1, Steady
<1>7. QED
  BY <1>2, <1>3, <1>6 DEF Inv
-----------------------------------------------------------------------------
(* The helper's side.                                                      *)

\* The helper is idle, so no circle goes through it.
LEMMA ClaimKeeps ==
  ASSUME Inv, NEW w \in Workers, Claim(w)
  PROVE  Inv' /\ Lasting
<1> DEFINE c == Min(Questions(w))
<1>1. c \in Calls /\ helper[c] = w /\ task[c] = "PENDING"
  <2>1. Questions(w) \in SUBSET Nat /\ Questions(w) # {}
    BY CallsFacts DEF Claim, Questions, Inv
  <2>2. c \in Questions(w)
    BY <2>1, MinIn
  <2>3. QED
    BY <2>2 DEF Questions
<1> HIDE DEF c
<1>2. /\ pc[w] = "idle" /\ job[w] = 0 /\ job' = [job EXCEPT ![w] = c]
      /\ task' = [task EXCEPT ![c] = "DISPATCHED"]
      /\ UNCHANGED <<on, page, pc, cur, guess, n, target, queued, results, api, told,
                     helper, json, saved, faults>>
  BY DEF Claim, Looks, At, callVars, c
<1>3. /\ \A d \in Calls : task'[d] = IF d = c THEN "DISPATCHED" ELSE task[d]
      /\ \A v \in Workers : job'[v] = IF v = w THEN c ELSE job[v]
  BY <1>2 DEF Inv, TypeOK
<1>4. TypeOK'
  <2>1. c \in 0..MaxCalls
    BY <1>1 DEF Calls
  <2>2. /\ job' \in [Workers -> 0..MaxCalls]
        /\ task' \in [Calls -> {"none", "PENDING", "DISPATCHED", "COMPLETED", "FAILED"}]
    BY <1>2, <2>1 DEF Inv, TypeOK
  <2>3. QED
    BY <1>2, <2>2 DEF Inv, TypeOK
<1>5. Handled' /\ Untouched'
  BY <1>2 DEF Inv, Handled, Untouched, Fresh
<1>6. Given'
  <2>1. \A v \in Workers : v # w /\ job[v] # 0 => job[v] \in Calls /\ job[v] # c
    BY <1>1, CallsFacts DEF Inv, Given
  <2>2. QED
    BY <1>1, <1>2, <1>3, <2>1 DEF Inv, Given
<1>7. \A d \in Calls : Over(d) => Over(d)'
  BY <1>2 DEF Over
<1>8. \A d, e \in Calls : Circle(d, e) => Circle(d, e)'
  <2>1. \A d \in Calls : Waits(d) => pc[target[d]] = "wait" /\ Waits(d)'
    BY <1>2 DEF Waits
  <2>2. \A d, e \in Calls : Circle(d, e) => d # c /\ e # c
    BY <1>1, <1>2, <2>1 DEF Circle
  <2>3. QED
    BY <1>2, <1>3, <2>1, <2>2 DEF Circle
<1>9. SelfHelp' /\ Lasting
  <2>1. \A d \in Calls : helper[d] # None /\ helper[d] = target[d] => told[d] # "200"
    BY DEF Inv, SelfHelp
  <2>2. QED
    BY <1>2, <1>7, <1>8, <2>1, Steady
<1>10. QED
  BY <1>4, <1>5, <1>6, <1>9 DEF Inv

LEMMA ProcessKeeps ==
  ASSUME Inv, NEW w \in Workers, Process(w)
  PROVE  Inv' /\ Lasting
<1> DEFINE c == job[w]
<1>1. PICK ok \in BOOLEAN, good \in BOOLEAN :
         /\ good => ok
         /\ task' = [task EXCEPT ![c] = IF ok THEN "COMPLETED" ELSE "FAILED"]
         /\ json' = [json EXCEPT ![c] = good]
  BY DEF Process
<1>2. /\ c # 0 /\ job' = [job EXCEPT ![w] = 0]
      /\ UNCHANGED <<on, page, pc, cur, guess, n, target, queued, results, api, told,
                     helper, saved, faults>>
  BY DEF Process, callVars
<1>3. c \in Calls /\ helper[c] = w /\ task[c] = "DISPATCHED"
  BY <1>2, CallsFacts DEF Inv, Given
<1>4. /\ \A d \in Calls : /\ d # c => task'[d] = task[d] /\ json'[d] = json[d]
                          /\ d = c => /\ task'[d] \in {"COMPLETED", "FAILED"}
                                      /\ json'[d] => task'[d] = "COMPLETED"
      /\ \A v \in Workers : job'[v] = IF v = w THEN 0 ELSE job[v]
  BY <1>1, <1>2 DEF Inv, TypeOK
<1>5. TypeOK'
  <2>1. 0 \in 0..MaxCalls
    BY HelpAssumption
  <2>2. job' \in [Workers -> 0..MaxCalls]
    BY <1>2, <2>1 DEF Inv, TypeOK
  <2>3. /\ json' \in [Calls -> BOOLEAN]
        /\ task' \in [Calls -> {"none", "PENDING", "DISPATCHED", "COMPLETED", "FAILED"}]
    BY <1>1 DEF Inv, TypeOK
  <2>4. QED
    BY <1>2, <2>2, <2>3 DEF Inv, TypeOK
<1>6. Handled' /\ Untouched'
  BY <1>2 DEF Inv, Handled, Untouched, Fresh
<1>7. Given'
  <2>1. \A v \in Workers : v # w /\ job[v] # 0 => job[v] \in Calls /\ job[v] # c
    BY <1>3, CallsFacts DEF Inv, Given
  <2>2. QED
    BY <1>2, <1>3, <1>4, <2>1 DEF Inv, Given
<1>8. \A d \in Calls : Over(d) => Over(d)'
  BY <1>2 DEF Over
<1>9. \A d, e \in Calls : Circle(d, e) => Circle(d, e)'
  BY <1>2, <1>3, <1>4 DEF Circle, Waits
<1>10. SelfHelp' /\ Lasting
  <2>1. \A d \in Calls : helper[d] # None /\ helper[d] = target[d] => told[d] # "200"
    BY DEF Inv, SelfHelp
  <2>2. QED
    BY <1>2, <1>8, <1>9, <2>1, Steady
<1>11. QED
  BY <1>5, <1>6, <1>7, <1>10 DEF Inv
-----------------------------------------------------------------------------
(* What happens around them.                                               *)

LEMMA AroundKeeps ==
  ASSUME Inv, NEW w \in Workers, ClosePage(w) \/ Stop(w)
  PROVE  Inv' /\ Lasting
<1>1. /\ Fault /\ UNCHANGED <<pc, cur, job, guess, callVars, taskVars, saved>>
      /\ \/ on' = on /\ page' = [page EXCEPT ![w] = "closed"]
         \/ on' = [on EXCEPT ![w] = FALSE] /\ page' = [page EXCEPT ![w] = "none"]
  BY DEF ClosePage, Stop
<1>2. faults' \in 0..MaxFaults
  BY <1>1, FaultType DEF Inv
<1>3. TypeOK'
  BY <1>1, <1>2 DEF Inv, TypeOK, callVars, taskVars
<1>4. QED
  BY <1>1, <1>3, Aside
-----------------------------------------------------------------------------
(* The theorems.                                                           *)

LEMMA InitInv ==
  ASSUME Init
  PROVE  Inv
<1>1. TypeOK
  <2>1. 0 \in 0..MaxCalls /\ 0 \in 0..MaxFaults
    BY HelpAssumption
  <2>2. QED
    BY <2>1 DEF Init, TypeOK
<1>2. Handled /\ Untouched /\ Given /\ SelfHelp
  BY DEF Init, Handled, Untouched, Fresh, Given, SelfHelp
<1>3. QED
  BY <1>1, <1>2 DEF Inv

LEMMA NextInv ==
  ASSUME Inv, [Next]_vars
  PROVE  Inv' /\ Lasting
<1>1. CASE Next
  <2>1. ASSUME NEW w \in Workers, Handler(w)
        PROVE  Inv' /\ Lasting
    BY <2>1, GetPageKeeps, RaisesKeeps, HelloKeeps, AskKeeps, NobodyToAskKeeps,
       LeavesKeeps DEF Handler
  <2>2. QED
    BY <1>1, <2>1, PostKeeps, TakeCommandKeeps, ClaimKeeps, ProcessKeeps, BlockedKeeps,
       AroundKeeps, AnswerKeeps, GiveUpKeeps, ExpireKeeps DEF Next
<1>2. CASE UNCHANGED vars
  <2>1. /\ UNCHANGED <<cur, job, callVars, taskVars, saved>>
        /\ UNCHANGED <<on, page, pc, guess, faults>>
    BY <1>2 DEF vars, threadVars
  <2>2. TypeOK'
    BY <2>1 DEF Inv, TypeOK, callVars, taskVars
  <2>3. QED
    BY <2>1, <2>2, Aside
<1>3. QED
  BY <1>1, <1>2

LEMMA AlwaysInv == Spec => []Inv
<1>1. Init => Inv
  BY InitInv
<1>2. Inv /\ [Next]_vars => Inv'
  BY NextInv
<1>3. QED
  BY <1>1, <1>2, PTL DEF Spec

\* Every variable keeps its type.
THEOREM TypeCorrect == Spec => []TypeOK
<1>1. Inv => TypeOK
  BY DEF Inv
<1>2. QED
  BY <1>1, AlwaysInv, PTL

\* A worker that is given its own question, having found no other page, gets no answer:
\* its request never ends well and no selectors of a chat are saved.
THEOREM AskingOneselfFails == Spec => []SelfHelpFails
<1>1. ASSUME Inv
      PROVE  SelfHelpFails
  <2>1. \A c \in Calls : Circle(c, c) => saved[c] = "nothing"
    <3>1. \A c \in Calls : c # 0
      BY <1>1, CallsFacts DEF Inv
    <3>2. QED
      BY <1>1, <3>1 DEF Inv, Handled, Circle, Waits, TypeOK
  <2>2. QED
    BY <1>1, <2>1 DEF Inv, SelfHelp, SelfHelpFails, Over
<1>2. QED
  BY <1>1, AlwaysInv, PTL

\* Of two workers that wait for each other one leaves by its timeout and empty-handed,
\* and that is final: its selectors are never saved afterwards.
THEOREM WaitingForEachOther == Spec => CircleCostsOne
<1>1. SUFFICES ASSUME NEW c \in Calls, NEW d \in (c + 1)..MaxCalls
               PROVE  Spec => [](Circle(c, d)
                                  => []~(saved[c] = "answer" /\ saved[d] = "answer"))
  BY DEF CircleCostsOne
<1>2. d \in Calls
  BY DEF Calls
<1> DEFINE Stuck == Circle(c, d) \/ Over(c) \/ Over(d)
<1>3. Circle(c, d) => Stuck
  OBVIOUS
<1>4. Inv /\ [Next]_vars /\ Stuck => Stuck'
  BY <1>2, NextInv DEF Lasting
<1>5. Inv /\ Stuck => ~(saved[c] = "answer" /\ saved[d] = "answer")
  <2>1. ASSUME Inv, Circle(c, d)
        PROVE  saved[c] = "nothing"
    <3>1. c # 0
      BY <2>1, CallsFacts DEF Inv
    <3>2. target[c] \in Workers /\ cur[target[c]] = c
      BY <2>1 DEF Inv, TypeOK, Circle, Waits
    <3>3. QED
      BY <2>1, <3>1, <3>2 DEF Inv, Handled
  <2>2. QED
    BY <2>1 DEF Over
<1>6. QED
  BY <1>3, <1>4, <1>5, AlwaysInv, PTL DEF Spec
=============================================================================
