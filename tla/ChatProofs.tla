------------------------------ MODULE ChatProofs ------------------------------
(***************************************************************************)
(* What TLAPS proves of the adapter in a chat page: against the mock site, *)
(* which is one of the sites ChatPage allows, and of what a test against   *)
(* it can and cannot see, for any number of runs, reloads and failures;    *)
(* and, in the last part, against any site whatever.                       *)
(***************************************************************************)
EXTENDS MockSite, SequenceTheorems, FiniteSetTheorems, TLAPS

Stages == {"cookie", "verify", "login", "chat"}
Steps  == {"idle", "fill", "click", "clicked", "key", "pressed", "wait"}
Prompts == 1..MaxRuns

Texts == [of : Prompts, part : {1}] \cup {Chat!Hello, Chat!Nothing}

Types == /\ stage \in Stages /\ left \in 0..MaxTroubles
         /\ user \in Seq(Prompts) /\ timers \in Seq(Prompts)
         /\ answers \in Seq(0..MaxRuns)
         /\ n \in 0..MaxRuns /\ step \in Steps /\ box \in 0..MaxRuns
         /\ last \in Texts /\ calm \in BOOLEAN
         /\ reply \in [Prompts -> Texts \cup {Chat!Failed}]

\* Behind an overlay there is nothing yet; in the chat every prompt is answered, or its
\* timer is set, in the order in which they were sent.
Page == IF stage = "chat"
        THEN Greeted /\ user = Tail(answers) \o timers
        ELSE user = <<>> /\ timers = <<>> /\ answers = <<>> /\ box = 0

\* What stands in the box has not been sent, and the next prompt is new.
NotSent == /\ box <= n /\ (step = "fill" => box < n)
           /\ step # "idle" => n > 0
           /\ \A i \in DOMAIN user : /\ user[i] <= n /\ user[i] # box
                                     /\ step = "fill" => user[i] < n

\* Where a run stands while nothing has failed, and what it reads at the end.
AtTheEnd == user # <<>> /\ user[Len(user)] = n
OnCourse ==
    /\ step \in {"click", "clicked", "key", "pressed", "wait"} => stage = "chat"
    /\ step \in {"click", "key"} => box = n
    /\ step \in {"clicked", "pressed", "wait"} => box = 0 /\ AtTheEnd
    /\ step = "wait" => /\ timers = <<>>
                        /\ last \in {Chat!Nothing, [of |-> n, part |-> 1]}
    /\ Chat!AnswersOwnPrompt

Inv == Types /\ Page /\ NotSent /\ AskedOnce /\ (left = MaxTroubles => OnCourse)
-----------------------------------------------------------------------------
(* Sequences, element by element.                                          *)

LEMMA Appended ==
  ASSUME NEW S, NEW s \in Seq(S), NEW e \in S
  PROVE  /\ Append(s, e) \in Seq(S) /\ Append(s, e) # <<>>
         /\ Len(Append(s, e)) = Len(s) + 1
         /\ \A i \in 1..Len(s) : Append(s, e)[i] = s[i]
         /\ Append(s, e)[Len(s) + 1] = e
  OBVIOUS

LEMMA TailOfAppend ==
  ASSUME NEW S, NEW s \in Seq(S), s # <<>>, NEW e \in S
  PROVE  /\ Tail(Append(s, e)) = Append(Tail(s), e)
         /\ Head(Append(s, e)) = Head(s)
         /\ Tail(s) \in Seq(S)
  OBVIOUS

LEMMA Wider ==
  ASSUME MaxRuns \in Nat, NEW s \in Seq(Prompts)
  PROVE  s \in Seq(0..MaxRuns)
  BY DEF Prompts

LEMMA HeadAndTail ==
  ASSUME NEW S, NEW s \in Seq(S), s # <<>>
  PROVE  Head(s) \in S /\ Tail(s) \in Seq(S)
  OBVIOUS

\* The timer that runs takes its prompt over to the answers.
LEMMA Handed ==
  ASSUME NEW S, NEW s \in Seq(S), NEW t \in Seq(S), t # <<>>
  PROVE  /\ Append(s, Head(t)) \o Tail(t) = s \o t
         /\ Head(t) \in S /\ Tail(t) \in Seq(S)
  OBVIOUS

LEMMA LongerByOne ==
  ASSUME NEW S, NEW s \in Seq(S), NEW t \in Seq(S), NEW e \in S
  PROVE  s \o Append(t, e) = Append(s \o t, e)
  OBVIOUS

LEMMA InTheTail ==
  ASSUME NEW S, NEW s \in Seq(S), NEW t \in Seq(S), NEW i \in DOMAIN t
  PROVE  /\ Len(s) + i \in DOMAIN (s \o t)
         /\ (s \o t)[Len(s) + i] = t[i]
  OBVIOUS
-----------------------------------------------------------------------------
\* A prompt in the box has not been sent, so none of the timers is about it.
LEMMA NotTaken ==
  ASSUME Inv
  PROVE  ~Contains(timers, box)
<1>1. CASE stage = "chat"
  <2>1. answers # <<>> /\ user = Tail(answers) \o timers
    BY <1>1 DEF Inv, Page, Greeted
  <2>2. timers \in Seq(0..MaxRuns) /\ Tail(answers) \in Seq(0..MaxRuns)
    BY <2>1, MockAssumption DEF Inv, Types, Prompts
  <2>3. SUFFICES ASSUME NEW i \in DOMAIN timers, timers[i] = box PROVE FALSE
    BY <2>2 DEF Contains
  <2>4. Len(Tail(answers)) + i \in DOMAIN user /\ user[Len(Tail(answers)) + i] = box
    BY <2>1, <2>2, <2>3, InTheTail
  <2>5. QED
    BY <2>4 DEF Inv, NotSent
<1>2. CASE stage # "chat"
  BY <1>2 DEF Inv, Page, Contains
<1>3. QED
  BY <1>1, <1>2
-----------------------------------------------------------------------------
(* What the page does.                                                     *)

PageFits == /\ stage \in Stages /\ box \in 0..MaxRuns
            /\ user \in Seq(Prompts) /\ timers \in Seq(Prompts)
            /\ answers \in Seq(0..MaxRuns)
            /\ Page /\ AskedOnce

LEMMA LoadKeeps ==
  ASSUME Inv, NEW s \in Stages, Load(s)
  PROVE  PageFits' /\ user' = <<>> /\ box' = 0
<1>1. /\ stage' = s /\ user' = <<>> /\ timers' = <<>> /\ box' = 0
      /\ answers' = IF s = "chat" THEN <<0>> ELSE <<>>
  BY DEF Load
<1>2. <<0>> \in Seq(0..MaxRuns) /\ Head(<<0>>) = 0 /\ Tail(<<0>>) = <<>> /\ <<0>> # <<>>
  BY MockAssumption
<1>3. answers' \in Seq(0..MaxRuns)
  <2>1. <<>> \in Seq(0..MaxRuns)
    OBVIOUS
  <2>2. QED
    BY <1>1, <1>2, <2>1, Zenon
<1>4. Page'
  BY <1>1, <1>2 DEF Page, Greeted
<1>5. AskedOnce'
  BY <1>1 DEF AskedOnce
<1>6. QED
  BY <1>1, <1>3, <1>4, <1>5, MockAssumption DEF PageFits

LEMMA Sent ==
  ASSUME Inv, stage = "chat", box # 0, Send
  PROVE  /\ PageFits' /\ stage' = "chat" /\ answers' = answers /\ box' = 0
         /\ user' = Append(user, box) /\ user' # <<>> /\ user'[Len(user')] = box
         /\ step # "fill" => \A i \in DOMAIN user' : user'[i] \in 1..n
<1>1. /\ user' = Append(user, box) /\ timers' = Append(timers, box) /\ box' = 0
      /\ stage' = stage /\ answers' = answers
  BY DEF Send
<1>2. /\ box \in Prompts /\ box <= n /\ n \in Nat
      /\ user \in Seq(Prompts) /\ timers \in Seq(Prompts)
      /\ answers \in Seq(0..MaxRuns)
  BY MockAssumption DEF Inv, Types, NotSent, Prompts
<1>3. /\ Append(user, box) \in Seq(Prompts) /\ Append(user, box) # <<>>
      /\ Len(Append(user, box)) = Len(user) + 1
      /\ \A i \in 1..Len(user) : Append(user, box)[i] = user[i]
      /\ Append(user, box)[Len(user) + 1] = box
  BY <1>2, Appended
<1>4. Append(timers, box) \in Seq(Prompts)
  BY <1>2, Appended
<1>5. Greeted /\ answers # <<>> /\ user = Tail(answers) \o timers
  BY DEF Inv, Page, Greeted
<1>6. Append(user, box) = Tail(answers) \o Append(timers, box)
  <2>1. Tail(answers) \in Seq(0..MaxRuns)
    BY <1>2, <1>5, HeadAndTail
  <2>2. timers \in Seq(0..MaxRuns) /\ box \in 0..MaxRuns
    BY <1>2, MockAssumption, Wider DEF Prompts
  <2>3. Tail(answers) \o Append(timers, box) = Append(Tail(answers) \o timers, box)
    BY <2>1, <2>2, LongerByOne
  <2>4. QED
    BY <1>5, <2>3
<1>7. Page'
  BY <1>1, <1>5, <1>6 DEF Page, Greeted
<1>8. DOMAIN user = 1..Len(user) /\ DOMAIN user' = 1..(Len(user) + 1) /\ Len(user) \in Nat
  BY <1>1, <1>2, <1>3
<1>9. \A i \in DOMAIN user : user[i] # box /\ user[i] \in 1..n
  <2>1. SUFFICES ASSUME NEW i \in DOMAIN user PROVE user[i] # box /\ user[i] \in 1..n
    OBVIOUS
  <2>2. user[i] \in Prompts
    BY <1>2
  <2>3. user[i] # box /\ user[i] <= n
    BY DEF Inv, NotSent
  <2>4. QED
    BY <1>2, <2>2, <2>3, MockAssumption DEF Prompts
<1>10. AskedOnce'
  BY <1>1, <1>3, <1>8, <1>9 DEF Inv, AskedOnce
<1>11. \A i \in DOMAIN user' : user'[i] \in 1..n
  BY <1>1, <1>2, <1>3, <1>8, <1>9 DEF Prompts
<1>12. QED
  BY <1>1, <1>2, <1>3, <1>4, <1>7, <1>10, <1>11, MockAssumption DEF PageFits, Inv, Types

LEMMA Answered ==
  ASSUME Inv, TimerRuns
  PROVE  PageFits' /\ stage = "chat" /\ Greeted'
<1>1. /\ timers # <<>> /\ timers' = Tail(timers)
      /\ answers' = Append(answers, Head(timers))
      /\ UNCHANGED <<stage, user, box>>
  BY DEF TimerRuns
<1>2. /\ stage = "chat" /\ Greeted /\ answers # <<>> /\ Head(answers) = 0
      /\ user = Tail(answers) \o timers
  BY <1>1 DEF Inv, Page, Greeted
<1>3. timers \in Seq(Prompts) /\ timers \in Seq(0..MaxRuns) /\ answers \in Seq(0..MaxRuns)
  BY MockAssumption, Wider DEF Inv, Types
<1>4. Tail(timers) \in Seq(Prompts) /\ Head(timers) \in 0..MaxRuns
  BY <1>1, <1>3, HeadAndTail
<1>5. /\ Append(answers, Head(timers)) \in Seq(0..MaxRuns)
      /\ Append(answers, Head(timers)) # <<>>
  BY <1>3, <1>4, Appended
<1>6. /\ Tail(Append(answers, Head(timers))) = Append(Tail(answers), Head(timers))
      /\ Head(Append(answers, Head(timers))) = Head(answers)
      /\ Tail(answers) \in Seq(0..MaxRuns)
  BY <1>2, <1>3, <1>4, TailOfAppend
<1>7. Append(Tail(answers), Head(timers)) \o Tail(timers) = Tail(answers) \o timers
  BY <1>1, <1>3, <1>6, Handed
<1>8. Greeted' /\ Page'
  BY <1>1, <1>2, <1>5, <1>6, <1>7 DEF Page, Greeted
<1>9. AskedOnce'
  BY <1>1 DEF Inv, AskedOnce
<1>10. QED
  BY <1>1, <1>2, <1>3, <1>4, <1>5, <1>8, <1>9 DEF PageFits, Inv, Types

\* A page on which nothing happens but a person at an overlay.
LEMMA PageRests ==
  ASSUME Inv, UNCHANGED <<page, box>>
  PROVE  PageFits'
  BY DEF Inv, Types, PageFits, Page, AskedOnce, Greeted, page

LEMMA Overlays ==
  ASSUME Inv, AcceptCookie \/ VerifyHuman \/ Login
  PROVE  PageFits' /\ stage # "chat" /\ user = <<>> /\ user' = <<>> /\ box' = box
<1>1. /\ stage # "chat" /\ user = <<>> /\ timers = <<>> /\ answers = <<>> /\ box = 0
  BY DEF AcceptCookie, VerifyHuman, Login, Inv, Page
<1>2. /\ stage' \in Stages /\ user' = <<>> /\ timers' = <<>> /\ box' = 0
      /\ answers' = IF stage' = "chat" THEN <<0>> ELSE <<>>
  BY <1>1 DEF AcceptCookie, VerifyHuman, Login, Stages
<1>3. <<0>> \in Seq(0..MaxRuns) /\ Head(<<0>>) = 0 /\ Tail(<<0>>) = <<>> /\ <<0>> # <<>>
  BY MockAssumption
<1>4. answers' \in Seq(0..MaxRuns)
  <2>1. <<>> \in Seq(0..MaxRuns)
    OBVIOUS
  <2>2. QED
    BY <1>2, <1>3, <2>1, Zenon
<1>5. Page'
  BY <1>2, <1>3 DEF Page, Greeted
<1>6. AskedOnce'
  BY <1>2 DEF AskedOnce
<1>7. QED
  BY <1>1, <1>2, <1>4, <1>5, <1>6, MockAssumption DEF PageFits
-----------------------------------------------------------------------------
(* The invariant, step by step.                                            *)

AdapterFits == /\ n \in 0..MaxRuns /\ step \in Steps
               /\ last \in Texts /\ calm \in BOOLEAN
               /\ reply \in [Prompts -> Texts \cup {Chat!Failed}]

LEMMA Together ==
  ASSUME PageFits', AdapterFits', NotSent', left' \in 0..MaxTroubles,
         left' = MaxTroubles => OnCourse'
  PROVE  Inv'
  BY DEF Inv, Types, PageFits, AdapterFits

LEMMA Troubled ==
  ASSUME Inv, Trouble
  PROVE  left' \in 0..MaxTroubles /\ left' # MaxTroubles
  BY MockAssumption DEF Inv, Types, Trouble

LEMMA LoadingKeeps ==
  ASSUME Inv, Reload \/ NewChat
  PROVE  Inv'
<1>1. PICK s \in Stages : Load(s) /\ UNCHANGED adapter
  BY DEF Reload, NewChat, Inv, Types, Stages
<1>2. PageFits' /\ user' = <<>> /\ box' = 0
  BY <1>1, LoadKeeps
<1>3. AdapterFits'
  BY <1>1 DEF adapter, AdapterFits, Inv, Types
<1>4. NotSent'
  BY <1>1, <1>2 DEF adapter, NotSent, Inv, Types
<1>5. left' \in 0..MaxTroubles /\ (left' = MaxTroubles => left = MaxTroubles /\ step = "idle")
  BY Troubled DEF Reload, NewChat, Inv, Types
<1>6. left' = MaxTroubles => OnCourse'
  BY <1>1, <1>5 DEF adapter, OnCourse, Inv, Chat!AnswersOwnPrompt, Chat!Runs,
     Chat!Running, Chat!Failed, Chat!Nothing
<1>7. QED
  BY <1>2, <1>3, <1>4, <1>5, <1>6, Together

LEMMA OverlaysKeep ==
  ASSUME Inv, AcceptCookie \/ VerifyHuman \/ Login
  PROVE  Inv'
<1>1. PageFits' /\ stage # "chat" /\ user = <<>> /\ user' = <<>> /\ box' = box
  BY Overlays
<1>2. UNCHANGED <<adapter, left>>
  BY DEF AcceptCookie, VerifyHuman, Login
<1>3. AdapterFits' /\ left' \in 0..MaxTroubles
  BY <1>2 DEF adapter, AdapterFits, Inv, Types
<1>4. NotSent'
  BY <1>1, <1>2 DEF adapter, NotSent, Inv
<1>5. left' = MaxTroubles => OnCourse'
  BY <1>1, <1>2 DEF adapter, OnCourse, Inv, Chat!AnswersOwnPrompt, Chat!Runs,
     Chat!Running, Chat!Failed, Chat!Nothing
<1>6. QED
  BY <1>1, <1>3, <1>4, <1>5, Together

LEMMA TimerKeeps ==
  ASSUME Inv, TimerRuns
  PROVE  Inv'
<1>1. PageFits' /\ stage = "chat"
  BY Answered
<1>2. timers # <<>> /\ UNCHANGED <<stage, user, box, adapter, left>>
  BY DEF TimerRuns
<1>3. AdapterFits' /\ left' \in 0..MaxTroubles
  BY <1>2 DEF adapter, AdapterFits, Inv, Types
<1>4. NotSent'
  BY <1>2 DEF adapter, NotSent, Inv
<1>5. left' = MaxTroubles => OnCourse'
  BY <1>2 DEF adapter, OnCourse, AtTheEnd, Inv, Chat!AnswersOwnPrompt, Chat!Runs,
     Chat!Running, Chat!Failed, Chat!Nothing
<1>6. QED
  BY <1>1, <1>3, <1>4, <1>5, Together

\* Steps of the adapter in which nothing happens in the browser.
LEMMA StartKeeps ==
  ASSUME Inv, StartRun
  PROVE  Inv'
<1>1. /\ UNCHANGED <<page, box, left, last, calm, reply>>
      /\ step = "idle" /\ n < MaxRuns /\ n' = n + 1 /\ step' = "fill"
  BY DEF StartRun, Chat!StartRun, Chat!waitVars
<1>2. PageFits'
  BY <1>1, PageRests
<1>3. AdapterFits' /\ left' \in 0..MaxTroubles
  BY <1>1, MockAssumption DEF AdapterFits, Inv, Types, Steps
<1>4. NotSent'
  <2>1. n \in Nat /\ box \in Nat /\ \A i \in DOMAIN user : user[i] \in Nat
    BY MockAssumption DEF Inv, Types, Prompts
  <2>2. user' = user /\ box' = box
    BY <1>1 DEF page
  <2>3. QED
    BY <1>1, <2>1, <2>2 DEF NotSent, Inv
<1>5. left' = MaxTroubles => OnCourse'
  BY <1>1 DEF OnCourse, Inv, Chat!AnswersOwnPrompt, Chat!Runs,
     Chat!Running, Chat!Failed, Chat!Nothing
<1>6. QED
  BY <1>2, <1>3, <1>4, <1>5, Together

LEMMA FillKeeps ==
  ASSUME Inv, Fill
  PROVE  Inv'
<1>1. /\ UNCHANGED <<page, left, n, last, calm, reply>>
      /\ stage = "chat" /\ step = "fill" /\ box' = n /\ step' \in {"click", "key"}
  BY DEF Fill, Chat!Fill, Chat!waitVars
<1>2. UNCHANGED <<stage, user, answers, timers>>
  BY <1>1 DEF page
<1>3. PageFits'
  BY <1>1, <1>2 DEF Inv, Types, PageFits, Page, AskedOnce, Greeted
<1>4. AdapterFits' /\ left' \in 0..MaxTroubles
  BY <1>1 DEF AdapterFits, Inv, Types, Steps
<1>5. NotSent'
  <2>1. n \in Nat /\ n > 0 /\ \A i \in DOMAIN user : user[i] \in Nat /\ user[i] < n
    BY <1>1, MockAssumption DEF Inv, Types, Prompts, NotSent
  <2>2. QED
    BY <1>1, <1>2, <2>1 DEF NotSent
<1>6. left' = MaxTroubles => OnCourse'
  BY <1>1, <1>2 DEF OnCourse, Inv, Chat!AnswersOwnPrompt, Chat!Runs,
     Chat!Running, Chat!Failed, Chat!Nothing
<1>7. QED
  BY <1>3, <1>4, <1>5, <1>6, Together

LEMMA EndKeeps ==
  ASSUME Inv, NEW r \in Texts \cup {Chat!Failed}, Chat!Answer(r), step # "idle",
         UNCHANGED <<page, box, n, last, calm>>,
         left' = left \/ Trouble,
         left' = MaxTroubles /\ r \notin {Chat!Running, Chat!Failed} => r.of = n
  PROVE  Inv'
<1>1. reply' = [reply EXCEPT ![n] = r] /\ step' = "idle"
  BY DEF Chat!Answer
<1>2. PageFits'
  BY PageRests
<1>3. AdapterFits' /\ left' \in 0..MaxTroubles
  BY <1>1, Troubled DEF AdapterFits, Inv, Types, Steps
<1>4. NotSent'
  BY <1>1 DEF NotSent, Inv, page
<1>5. left' = MaxTroubles => OnCourse'
  <2>1. SUFFICES ASSUME left' = MaxTroubles PROVE OnCourse'
    OBVIOUS
  <2>2. Chat!AnswersOwnPrompt
    BY <2>1, Troubled DEF OnCourse, Inv
  <2>3. Chat!AnswersOwnPrompt'
    BY <1>1, <2>1, <2>2 DEF Inv, Types, Prompts, Chat!AnswersOwnPrompt, Chat!Runs,
       Chat!Running, Chat!Failed, Chat!Nothing
  <2>4. QED
    BY <1>1, <2>3 DEF OnCourse
<1>6. QED
  BY <1>2, <1>3, <1>4, <1>5, Together

LEMMA FillFailsKeeps ==
  ASSUME Inv, FillFails
  PROVE  Inv'
<1>1. /\ UNCHANGED <<page, box, n, last, calm>> /\ step = "fill"
      /\ Chat!Answer(Chat!Failed) /\ (left' = left \/ Trouble)
  BY DEF FillFails, Chat!FillFails, Chat!waitVars
<1>2. QED
  BY <1>1, EndKeeps

LEMMA DeadlineKeeps ==
  ASSUME Inv, Deadline
  PROVE  Inv'
<1> DEFINE r == IF last = Chat!Nothing THEN Chat!Failed ELSE last
<1>1. /\ UNCHANGED <<page, box, n, last, calm, left>> /\ step = "wait"
      /\ Chat!Answer(r)
  BY DEF Deadline, Chat!Deadline, Chat!waitVars
<1>2. r \in Texts \cup {Chat!Failed}
  BY DEF Inv, Types
<1>3. left' = MaxTroubles /\ r \notin {Chat!Running, Chat!Failed} => r.of = n
  BY <1>1 DEF Inv, OnCourse, Chat!Failed, Chat!Nothing, Chat!Running
<1>4. QED
  BY <1>1, <1>2, <1>3, EndKeeps

\* Every prompt sent is answered or waits for its timer.
Paced == /\ Replies \in Seq(0..MaxRuns) /\ Len(Replies) \in Nat
         /\ Len(user) = Len(Replies) + Len(timers)
         /\ timers # <<>> <=> Len(Replies) < Len(user)
         /\ stage = "chat" <=> Greeted

LEMMA Pace ==
  ASSUME Inv
  PROVE  Paced
<1>1. user \in Seq(Prompts) /\ timers \in Seq(Prompts) /\ answers \in Seq(0..MaxRuns)
  BY DEF Inv, Types
<1>2. CASE stage = "chat"
  <2>1. Greeted /\ answers # <<>> /\ Replies = Tail(answers) /\ user = Replies \o timers
    BY <1>2 DEF Inv, Page, Greeted, Replies
  <2>2. Replies \in Seq(0..MaxRuns)
    BY <1>1, <2>1, HeadAndTail
  <2>3. Len(user) = Len(Replies) + Len(timers)
    BY <1>1, <2>1, <2>2
  <2>4. QED
    BY <1>1, <1>2, <2>1, <2>2, <2>3 DEF Paced
<1>3. CASE stage # "chat"
  <2>1. user = <<>> /\ timers = <<>> /\ answers = <<>> /\ ~Greeted /\ Replies = <<>>
    BY <1>3 DEF Inv, Page, Greeted, Replies
  <2>2. QED
    BY <1>1, <1>3, <2>1 DEF Paced
<1>4. QED
  BY <1>2, <1>3

\* What the page shows of its last reply.
LEMMA ShownIsText ==
  ASSUME Inv
  PROVE  /\ Chat!Shown \in Texts
         /\ stage = "chat" /\ timers = <<>> /\ AtTheEnd
               => Chat!Shown = [of |-> n, part |-> 1]
<1>1. CASE Len(Replies) > 0
  <2>1. Replies # <<>>
    BY <1>1, Pace DEF Paced
  <2>2. Chat!Shown = [of |-> user[Len(Replies)], part |-> 1]
    BY <1>1, <2>1 DEF Chat!Shown
  <2>3. Len(Replies) \in 1..Len(user) /\ user \in Seq(Prompts)
    BY <1>1, Pace DEF Paced, Inv, Types
  <2>4. user[Len(Replies)] \in Prompts
    BY <2>3
  <2>5. timers = <<>> => Len(Replies) = Len(user)
    BY <2>3, Pace DEF Paced
  <2>6. QED
    BY <2>2, <2>4, <2>5 DEF Texts, AtTheEnd
<1>2. CASE ~(Len(Replies) > 0)
  <2>1. Chat!Shown \in {Chat!Hello, Chat!Nothing}
    BY <1>2 DEF Chat!Shown
  <2>2. Len(Replies) = 0 /\ (timers = <<>> => user = <<>>)
    BY <1>2, Pace DEF Paced, Inv, Types
  <2>3. QED
    BY <2>1, <2>2 DEF Texts, AtTheEnd
<1>3. QED
  BY <1>1, <1>2

\* The adapter's steps in the browser that leave the page as it is.
LEMMA ReadingKeeps ==
  ASSUME Inv, step = "wait", UNCHANGED <<page, box, left, n, step, reply>>,
         last' \in Texts, calm' \in BOOLEAN,
         left = MaxTroubles => last' \in {Chat!Nothing, [of |-> n, part |-> 1]}
  PROVE  Inv'
<1>1. PageFits'
  BY PageRests
<1>2. AdapterFits' /\ left' \in 0..MaxTroubles
  BY DEF AdapterFits, Inv, Types
<1>3. NotSent'
  BY DEF NotSent, Inv, page
<1>4. left' = MaxTroubles => OnCourse'
  BY DEF page, OnCourse, AtTheEnd, Inv, Chat!AnswersOwnPrompt, Chat!Runs,
     Chat!Running, Chat!Failed, Chat!Nothing
<1>5. QED
  BY <1>1, <1>2, <1>3, <1>4, Together

LEMMA LookKeeps ==
  ASSUME Inv, Look
  PROVE  Inv'
<1>1. UNCHANGED <<page, box, left, n>> /\ step = "wait"
  BY DEF Look, Chat!Look
<1>2. left = MaxTroubles => Chat!Shown = [of |-> n, part |-> 1]
  BY <1>1, ShownIsText DEF Inv, OnCourse
<1>3. CASE Chat!Shown # last
  <2>1. last' = Chat!Shown /\ calm' = FALSE /\ UNCHANGED <<step, reply>>
    BY <1>3 DEF Look, Chat!Look
  <2>2. QED
    BY <1>1, <1>2, <2>1, ShownIsText, ReadingKeeps
<1>4. CASE Chat!Shown = last
  <2>1. Chat!Answer(last) /\ UNCHANGED <<last, calm>> /\ last # Chat!Nothing
    BY <1>4 DEF Look, Chat!Look, Chat!waitVars
  <2>2. last \in Texts /\ (left' = MaxTroubles => last.of = n)
    BY <1>1, <1>2, <1>4 DEF Inv, Types
  <2>3. QED
    BY <1>1, <2>1, <2>2, EndKeeps
<1>5. QED
  BY <1>3, <1>4

LEMMA SecondKeeps ==
  ASSUME Inv, Second
  PROVE  Inv'
<1>1. /\ UNCHANGED <<page, box, left, n, step, last, reply>>
      /\ step = "wait" /\ calm' = TRUE
  BY DEF Second, Chat!Second
<1>2. QED
  BY <1>1, ReadingKeeps DEF Inv, Types, OnCourse

\* Steps that may send what is in the box.
LEMMA Pressed ==
  ASSUME Inv, step \notin {"idle", "fill"}, step' \notin {"idle", "fill"}, n' = n,
         Send \/ UNCHANGED <<page, box>>
  PROVE  PageFits' /\ NotSent'
<1>1. n > 0
  BY DEF Inv, NotSent
<1>2. CASE stage = "chat" /\ box # 0 /\ Send
  <2>1. PageFits' /\ box' = 0 /\ \A i \in DOMAIN user' : user'[i] \in 1..n
    BY <1>2, Sent
  <2>2. n \in Nat
    BY MockAssumption DEF Inv, Types
  <2>3. QED
    BY <1>1, <2>1, <2>2 DEF NotSent
<1>3. CASE UNCHANGED <<page, box>>
  <2>1. PageFits'
    BY <1>3, PageRests
  <2>2. NotSent'
    BY <1>1, <1>3 DEF NotSent, Inv, page
  <2>3. QED
    BY <2>1, <2>2
<1>4. QED
  BY <1>2, <1>3 DEF Send

\* Nothing has failed, and the prompt of the run goes out.
LEMMA SentOnCourse ==
  ASSUME Inv, left = MaxTroubles, step \in {"click", "key"}, Send, n' = n
  PROVE  stage' = "chat" /\ box' = 0 /\ AtTheEnd'
<1>1. stage = "chat" /\ box = n
  BY DEF Inv, OnCourse
<1>2. n # 0
  BY MockAssumption DEF Inv, Types, NotSent
<1>3. QED
  BY <1>1, <1>2, Sent DEF AtTheEnd

LEMMA ClickKeeps ==
  ASSUME Inv, Click
  PROVE  Inv'
<1>1. /\ UNCHANGED <<n, last, calm, reply>> /\ step = "click"
      /\ step' \in {"clicked", "key"}
      /\ Send \/ UNCHANGED <<page, box>>
      /\ left' = left \/ Trouble
  BY DEF Click, Chat!Move, Chat!waitVars
<1>2. PageFits' /\ NotSent'
  BY <1>1, Pressed
<1>3. AdapterFits' /\ left' \in 0..MaxTroubles
  BY <1>1, Troubled DEF AdapterFits, Inv, Types, Steps
<1>4. left' = MaxTroubles => OnCourse'
  <2>1. SUFFICES ASSUME left' = MaxTroubles PROVE OnCourse'
    OBVIOUS
  <2>2. left = MaxTroubles /\ ~Trouble /\ stage = "chat"
    BY <1>1, <2>1, Troubled DEF Inv, OnCourse
  <2>3. step' = "clicked" /\ Send
    BY <2>2 DEF Click, Chat!Move
  <2>4. stage' = "chat" /\ box' = 0 /\ AtTheEnd'
    BY <1>1, <2>2, <2>3, SentOnCourse
  <2>5. QED
    BY <1>1, <2>2, <2>3, <2>4 DEF Inv, OnCourse, Chat!AnswersOwnPrompt, Chat!Runs,
       Chat!Running, Chat!Failed, Chat!Nothing
<1>5. QED
  BY <1>2, <1>3, <1>4, Together

LEMMA PressEnterKeeps ==
  ASSUME Inv, PressEnter
  PROVE  Inv'
<1>1. /\ UNCHANGED <<n, reply>> /\ step = "key" /\ step' \in {"pressed", "wait"}
      /\ last' \in {last, Chat!Nothing} /\ calm' \in {calm, FALSE}
      /\ Send \/ UNCHANGED <<page, box>>
      /\ left' = left \/ Trouble
  BY DEF PressEnter, Chat!Move, Chat!BeginWait, Chat!waitVars
<1>2. PageFits' /\ NotSent'
  BY <1>1, Pressed
<1>3. AdapterFits' /\ left' \in 0..MaxTroubles
  BY <1>1, Troubled DEF AdapterFits, Inv, Types, Steps, Texts
<1>4. left' = MaxTroubles => OnCourse'
  <2>1. SUFFICES ASSUME left' = MaxTroubles PROVE OnCourse'
    OBVIOUS
  <2>2. left = MaxTroubles /\ ~Trouble
    BY <1>1, <2>1, Troubled
  <2>3. step' = "pressed" /\ Send
    BY <2>2 DEF PressEnter, Chat!Move
  <2>4. stage' = "chat" /\ box' = 0 /\ AtTheEnd'
    BY <1>1, <2>2, <2>3, SentOnCourse
  <2>5. QED
    BY <1>1, <2>2, <2>3, <2>4 DEF Inv, OnCourse, Chat!AnswersOwnPrompt, Chat!Runs,
       Chat!Running, Chat!Failed, Chat!Nothing
<1>5. QED
  BY <1>2, <1>3, <1>4, Together

\* The steps that wait before they look whether the box is empty.
LEMMA AfterPressKeeps ==
  ASSUME Inv, AfterClick \/ AfterEnter
  PROVE  Inv'
<1>1. /\ UNCHANGED <<n, reply>> /\ step \in {"clicked", "pressed"}
      /\ step' \in {"key", "wait"} /\ timers = <<>>
      /\ last' \in {last, Chat!Nothing} /\ calm' \in {calm, FALSE}
      /\ Send \/ UNCHANGED <<page, box>>
      /\ left' = left \/ Trouble
  BY DEF AfterClick, AfterEnter, Elapsed, Chat!Move, Chat!BeginWait, Chat!waitVars
<1>2. PageFits' /\ NotSent'
  BY <1>1, Pressed
<1>3. AdapterFits' /\ left' \in 0..MaxTroubles
  BY <1>1, Troubled DEF AdapterFits, Inv, Types, Steps, Texts
<1>4. left' = MaxTroubles => OnCourse'
  <2>1. SUFFICES ASSUME left' = MaxTroubles PROVE OnCourse'
    OBVIOUS
  <2>2. left = MaxTroubles /\ ~Trouble /\ box = 0
    BY <1>1, <2>1, Troubled DEF Inv, OnCourse
  <2>3. step' = "wait" /\ last' = Chat!Nothing /\ UNCHANGED <<page, box>>
    BY <2>2 DEF AfterClick, AfterEnter, Chat!BeginWait
  <2>4. QED
    BY <1>1, <2>2, <2>3 DEF page, Inv, OnCourse, AtTheEnd, Chat!AnswersOwnPrompt,
       Chat!Runs, Chat!Running, Chat!Failed, Chat!Nothing
<1>5. QED
  BY <1>2, <1>3, <1>4, Together

LEMMA InitFits ==
  ASSUME Init
  PROVE  Inv
<1>1. <<0>> \in Seq(0..MaxRuns) /\ Head(<<0>>) = 0 /\ Tail(<<0>>) = <<>> /\ <<0>> # <<>>
  BY MockAssumption
<1>2. answers \in Seq(0..MaxRuns)
  <2>1. <<>> \in Seq(0..MaxRuns) /\ answers = IF stage = "chat" THEN <<0>> ELSE <<>>
    BY DEF Init
  <2>2. QED
    BY <1>1, <2>1, Zenon
<1>3. Types
  <2>1. Chat!Nothing \in Texts /\ Chat!Running \in Texts
    BY DEF Texts, Chat!Running
  <2>2. reply \in [Prompts -> Texts \cup {Chat!Failed}]
    BY <2>1 DEF Init, Prompts
  <2>3. last \in Texts /\ calm \in BOOLEAN
    BY <2>1 DEF Init
  <2>4. user \in Seq(Prompts) /\ timers \in Seq(Prompts)
    BY DEF Init
  <2>5. QED
    BY <1>2, <2>2, <2>3, <2>4, MockAssumption DEF Init, Types, Stages, Steps
<1>4. Page
  BY <1>1 DEF Init, Page, Greeted
<1>5. NotSent /\ AskedOnce
  BY DEF Init, NotSent, AskedOnce
<1>6. OnCourse
  BY DEF Init, OnCourse, Chat!AnswersOwnPrompt, Chat!Runs, Prompts
<1>7. QED
  BY <1>3, <1>4, <1>5, <1>6 DEF Inv

LEMMA NextKeeps ==
  ASSUME Inv, [Next]_vars
  PROVE  Inv'
<1>1. CASE Next
  BY <1>1, LoadingKeeps, OverlaysKeep, TimerKeeps, StartKeeps, FillKeeps, FillFailsKeeps,
     ClickKeeps, AfterPressKeeps, PressEnterKeeps, LookKeeps, SecondKeeps, DeadlineKeeps
  DEF Next, Person, Adapter
<1>2. CASE UNCHANGED vars
  BY <1>2 DEF vars, page, adapter, Inv, Types, Page, Greeted, NotSent, AskedOnce, OnCourse,
     AtTheEnd, Chat!AnswersOwnPrompt, Chat!Runs
<1>3. QED
  BY <1>1, <1>2

THEOREM Invariance == Spec => []Inv
  BY InitFits, NextKeeps, PTL DEF Spec
-----------------------------------------------------------------------------
(* What follows from it.                                                   *)

LEMMA TypesFit ==
  ASSUME Inv
  PROVE  TypeOK
<1>1. /\ stage \in {"cookie", "verify", "login", "chat"} /\ left \in 0..MaxTroubles
      /\ user \in Seq(1..MaxRuns) /\ timers \in Seq(1..MaxRuns)
      /\ answers \in Seq(0..MaxRuns)
  BY DEF Inv, Types, Stages, Prompts
<1>2. n \in 0..MaxRuns /\ step \in Steps /\ box \in 0..MaxRuns /\ calm \in BOOLEAN
  BY DEF Inv, Types
<1>3. Chat!Text \cup {Chat!Nothing} = Texts
  BY DEF Chat!Text, Texts, Chat!Runs, Prompts
<1>4. last \in Chat!Text \cup {Chat!Nothing}
  BY <1>3 DEF Inv, Types
<1>5. reply \in [Chat!Runs -> Chat!Text \cup {Chat!Running, Chat!Failed}]
  BY <1>3 DEF Inv, Types, Chat!Runs, Chat!Running, Prompts
<1>6. Len(Replies) \in 0..Len(user)
  BY Pace DEF Paced, Inv, Types
<1>7. user \in Seq(Chat!Runs)
  BY <1>1 DEF Chat!Runs
<1>8. Greeted \in BOOLEAN
  BY DEF Greeted
<1>9. Chat!TypeOK
  BY <1>2, <1>4, <1>5, <1>6, <1>7, <1>8 DEF Chat!TypeOK, Steps
<1>10. QED
  BY <1>1, <1>9 DEF TypeOK

\* Every variable keeps its type, and so does what ChatPage makes of it.
THEOREM TypeCorrect == Spec => []TypeOK
  BY Invariance, TypesFit, PTL

\* The handler takes the prompt out of the box before anybody can press again, so
\* no prompt is asked twice, whatever fails and however often the page is loaded.
THEOREM NeverAskedTwice == Spec => []AskedOnce
<1>1. Inv => AskedOnce
  BY DEF Inv
<1>2. QED
  BY <1>1, Invariance, PTL

\* A test in which nothing fails reads the answer to each prompt.
THEOREM CalmRunsAreAnswered == Spec => []CalmRunsAnswered
<1>1. Inv => CalmRunsAnswered
  BY DEF Inv, OnCourse, CalmRunsAnswered
<1>2. QED
  BY <1>1, Invariance, PTL
-----------------------------------------------------------------------------
(* Every step is one the arbitrary chat site of ChatPage may take too.     *)

LEMMA NeverTaken == Inv => ~Contains(timers, box)
  BY NotTaken

LEMMA NeverTakenNext == Inv' => ~Contains(timers, box)'
  BY NeverTaken, PTL

LEMMA SamePace == Inv => Paced
  BY Pace

LEMMA SamePaceNext == Inv' => Paced'
  BY SamePace, PTL

LEMMA SiteRests ==
  ASSUME UNCHANGED page
  PROVE  UNCHANGED Chat!siteVars
  BY DEF page, Replies, Greeted, Chat!siteVars

LEMMA BoxRests ==
  ASSUME UNCHANGED <<page, box>>
  PROVE  UNCHANGED Chat!boxVars
  BY DEF page, Chat!boxVars

LEMMA PressMaps ==
  ASSUME Inv, Inv', Send \/ UNCHANGED <<page, box>>
  PROVE  Chat!Press
<1>1. CASE stage = "chat" /\ box # 0 /\ Send
  <2>1. user' = Append(user, box) /\ box' = 0 /\ answers' = answers
    BY <1>1 DEF Send
  <2>2. UNCHANGED <<Replies, Greeted>>
    BY <2>1 DEF Replies, Greeted
  <2>3. QED
    BY <1>1, <2>1, <2>2 DEF Chat!Press
<1>2. CASE UNCHANGED <<page, box>>
  BY <1>2, SiteRests, BoxRests DEF Chat!Press
<1>3. QED
  BY <1>1, <1>2 DEF Send

LEMMA LoadMaps ==
  ASSUME Inv, Inv', NEW s \in Stages, Load(s)
  PROVE  Chat!EmptyChat
<1>1. user' = <<>> /\ timers' = <<>> /\ box' = 0
  BY DEF Load
<1>2. Len(Replies') = 0 /\ Replies' = <<>>
  <2>1. Len(user') = 0 /\ Len(timers') = 0
    BY <1>1
  <2>2. QED
    BY <2>1, SamePaceNext DEF Paced
<1>3. Greeted' \in BOOLEAN
  BY DEF Greeted
<1>4. QED
  BY <1>1, <1>2, <1>3 DEF Chat!EmptyChat

LEMMA LoadingMaps ==
  ASSUME Inv, Inv', Reload \/ NewChat
  PROVE  Chat!Next
<1>1. PICK s \in Stages : Load(s) /\ UNCHANGED adapter
  BY DEF Reload, NewChat, Inv, Types, Stages
<1>2. Chat!EmptyChat
  BY <1>1, LoadMaps
<1>3. UNCHANGED <<n, step, Chat!waitVars, reply>>
  BY <1>1 DEF adapter, Chat!waitVars
<1>4. Chat!Reload
  BY <1>2, <1>3 DEF Chat!Reload
<1>5. QED
  BY <1>4 DEF Chat!Next, Chat!Site

LEMMA OverlaysMap ==
  ASSUME Inv, Inv', AcceptCookie \/ VerifyHuman \/ Login
  PROVE  [Chat!Next]_Chat!vars
<1>1. /\ stage # "chat" /\ user = <<>> /\ timers = <<>> /\ answers = <<>> /\ box = 0
      /\ UNCHANGED <<user, timers, box, adapter>>
  BY DEF AcceptCookie, VerifyHuman, Login, Inv, Page
<1>2. CASE AcceptCookie \/ VerifyHuman
  <2>1. UNCHANGED <<user, answers, timers, box, adapter>>
    BY <1>2 DEF AcceptCookie, VerifyHuman
  <2>2. UNCHANGED <<Chat!siteVars, Chat!boxVars>>
    BY <2>1 DEF Chat!siteVars, Chat!boxVars, Replies, Greeted
  <2>3. QED
    BY <2>1, <2>2 DEF Chat!vars, Chat!waitVars, adapter
<1>3. CASE Login
  <2>1. answers' = <<0>>
    BY <1>1, <1>3 DEF Login
  <2>2. Replies' = <<>>
    BY <2>1 DEF Replies, Greeted
  <2>3. Greeted' \in BOOLEAN
    BY DEF Greeted
  <2>4. Chat!EmptyChat
    BY <1>1, <2>2, <2>3 DEF Chat!EmptyChat
  <2>5. Chat!Reload
    BY <1>1, <2>4 DEF Chat!Reload, adapter, Chat!waitVars
  <2>6. QED
    BY <2>5 DEF Chat!Next, Chat!Site
<1>4. QED
  BY <1>2, <1>3

\* The timer begins the reply to the next prompt, which is whole at once.
LEMMA TimerMaps ==
  ASSUME Inv, Inv', TimerRuns
  PROVE  Chat!BeginReply
<1>1. /\ timers # <<>> /\ timers' = Tail(timers)
      /\ answers' = Append(answers, Head(timers))
      /\ UNCHANGED <<stage, user, box, adapter>>
  BY DEF TimerRuns
<1>2. Paced /\ Paced'
  BY SamePace, SamePaceNext
<1>3. timers \in Seq(Prompts)
  BY DEF Inv, Types
<1>4. Len(Replies) < Len(user) /\ Len(Replies') = Len(Replies) + 1
  BY <1>1, <1>2, <1>3 DEF Paced
<1>5. Replies' # <<>>
  BY <1>2, <1>4 DEF Paced
<1>6. Len(Replies) = 0 \/ Replies # <<>>
  OBVIOUS
<1>7. UNCHANGED Greeted
  <2>1. stage = "chat"
    BY Answered
  <2>2. QED
    BY <1>1, <1>2, <2>1 DEF Paced
<1>8. UNCHANGED Chat!boxVars
  BY <1>1, NeverTaken, NeverTakenNext DEF Chat!boxVars
<1>9. UNCHANGED <<n, step, Chat!waitVars, reply>>
  BY <1>1 DEF adapter, Chat!waitVars
<1>10. QED
  BY <1>1, <1>4, <1>5, <1>6, <1>7, <1>8, <1>9 DEF Chat!BeginReply

LEMMA PressesMap ==
  ASSUME Inv, Inv', Click \/ AfterClick \/ PressEnter \/ AfterEnter
  PROVE  Chat!Click \/ Chat!AfterClick \/ Chat!PressEnter \/ Chat!AfterEnter
<1>1. Send \/ UNCHANGED <<page, box>> => Chat!Press
  BY PressMaps
<1>2. UNCHANGED <<page, box>> => UNCHANGED <<Chat!boxVars, Chat!siteVars>>
  BY SiteRests, BoxRests
<1>3. CASE Click
  <2>1. Chat!Move("click", {"clicked", "key"}) /\ (Send \/ UNCHANGED <<page, box>>)
    BY <1>3 DEF Click, Chat!Move
  <2>2. QED
    BY <1>1, <2>1 DEF Chat!Click
<1>4. CASE AfterClick
  <2>1. \/ box = 0 /\ Chat!BeginWait("clicked") /\ UNCHANGED <<page, box>>
        \/ box # 0 /\ Chat!BeginWait("clicked") /\ Send
        \/ Chat!Move("clicked", {"key"}) /\ UNCHANGED <<page, box>>
    BY <1>4 DEF AfterClick
  <2>2. QED
    BY <1>1, <1>2, <2>1 DEF Chat!AfterClick
<1>5. CASE PressEnter
  <2>1. /\ Chat!Move("key", {"pressed"}) \/ Chat!BeginWait("key")
        /\ Send \/ UNCHANGED <<page, box>>
    BY <1>5 DEF PressEnter
  <2>2. QED
    BY <1>1, <2>1 DEF Chat!PressEnter
<1>6. CASE AfterEnter
  <2>1. /\ Chat!BeginWait("pressed")
        /\ UNCHANGED <<page, box>> \/ (box # 0 /\ Send)
    BY <1>6 DEF AfterEnter
  <2>2. QED
    BY <1>1, <1>2, <2>1 DEF Chat!AfterEnter
<1>7. QED
  BY <1>3, <1>4, <1>5, <1>6

LEMMA NextMaps ==
  ASSUME Inv, Inv', [Next]_vars
  PROVE  [Chat!Next]_Chat!vars
<1>1. CASE Reload \/ NewChat
  BY <1>1, LoadingMaps
<1>2. CASE AcceptCookie \/ VerifyHuman \/ Login
  BY <1>2, OverlaysMap
<1>3. CASE TimerRuns
  BY <1>3, TimerMaps DEF Chat!Next, Chat!Site
<1>4. CASE Click \/ AfterClick \/ PressEnter \/ AfterEnter
  BY <1>4, PressesMap DEF Chat!Next, Chat!Adapter
<1>5. CASE StartRun \/ Fill \/ FillFails \/ Look \/ Second \/ Deadline
  BY <1>5 DEF StartRun, Fill, FillFails, Look, Second, Deadline, Chat!Next, Chat!Adapter
<1>6. CASE UNCHANGED vars
  <2>1. UNCHANGED <<Chat!siteVars, Chat!boxVars>> /\ UNCHANGED adapter
    BY <1>6, SiteRests, BoxRests DEF vars
  <2>2. QED
    BY <2>1 DEF Chat!vars, Chat!waitVars, adapter
<1>7. QED
  BY <1>1, <1>2, <1>3, <1>4, <1>5, <1>6 DEF Next, Person, Adapter

LEMMA InitMaps ==
  ASSUME Init
  PROVE  Chat!Init
<1>1. Replies = <<>>
  BY DEF Init, Replies, Greeted
<1>2. Greeted \in BOOLEAN
  BY DEF Greeted
<1>3. QED
  BY <1>1, <1>2 DEF Init, Chat!Init, Chat!Runs

\* The mock is a chat site ChatPage allows, and the adapter in front of it is the
\* adapter of ChatPage: every behaviour of the one is a behaviour of the other.
THEOREM MockIsAChatSite == Spec => ImplementsChatPage
<1>1. Inv /\ Inv' /\ [Next]_vars => [Chat!Next]_Chat!vars
  BY NextMaps
<1>2. Init => Chat!Init
  BY InitMaps
<1>3. QED
  BY <1>1, <1>2, Invariance, PTL DEF Spec, ImplementsChatPage, Chat!Spec
-----------------------------------------------------------------------------
(* Any site: ChatPage itself, its constants and variables unspecified.     *)

CONSTANT Parts
VARIABLES taken, asked, begun, part, greets

AnySite == INSTANCE ChatPage

\* The instance brings a copy of this operator along.
LEMMA SameCardinality ==
  ASSUME NEW S
  PROVE  AnySite!Cardinality(S) = Cardinality(S)
  BY DEF AnySite!Cardinality, Cardinality

Spots(r, s) == {i \in DOMAIN s : s[i] = r}

LEMMA SpotsFinite ==
  ASSUME NEW S, NEW s \in Seq(S), NEW r
  PROVE  IsFiniteSet(Spots(r, s)) /\ Cardinality(Spots(r, s)) \in Nat
<1>1. Len(s) \in Nat /\ DOMAIN s = 1..Len(s)
  OBVIOUS
<1>2. IsFiniteSet(1..Len(s))
  BY <1>1, FS_Interval
<1>3. Spots(r, s) \in SUBSET (1..Len(s))
  BY <1>1 DEF Spots
<1>4. QED
  BY <1>2, <1>3, FS_Subset, FS_CardinalityType

LEMMA SpotsAppended ==
  ASSUME NEW S, NEW s \in Seq(S), NEW e \in S, NEW r
  PROVE  /\ e = r => Cardinality(Spots(r, Append(s, e))) = Cardinality(Spots(r, s)) + 1
         /\ e # r => Spots(r, Append(s, e)) = Spots(r, s)
<1>1. /\ Append(s, e) \in Seq(S) /\ Len(s) \in Nat /\ DOMAIN s = 1..Len(s)
      /\ DOMAIN Append(s, e) = 1..(Len(s) + 1)
      /\ \A i \in 1..Len(s) : Append(s, e)[i] = s[i]
      /\ Append(s, e)[Len(s) + 1] = e
  BY Appended
<1>2. e # r => Spots(r, Append(s, e)) = Spots(r, s)
  BY <1>1 DEF Spots
<1>3. ASSUME e = r
      PROVE  Cardinality(Spots(r, Append(s, e))) = Cardinality(Spots(r, s)) + 1
  <2>1. Spots(r, Append(s, e)) = Spots(r, s) \cup {Len(s) + 1}
    BY <1>1, <1>3 DEF Spots
  <2>2. Len(s) + 1 \notin Spots(r, s)
    BY <1>1 DEF Spots
  <2>3. QED
    BY <2>1, <2>2, SpotsFinite, FS_AddElement
<1>4. QED
  BY <1>2, <1>3

\* How often the prompt of the run in progress may have been accepted so far.
Allowed == IF step \in {"fill", "click"} THEN 0
           ELSE IF step \in {"key", "clicked"} THEN 1
           ELSE IF step = "pressed" THEN 2 ELSE 3

\* What is in the box may be an earlier prompt, but not once a run presses.
AnyTurn == /\ step \in {"click", "clicked", "key", "pressed"} => box \in {0, n}
           /\ step # "idle" => n > 0
           /\ \A i \in DOMAIN asked : asked[i] <= n
           /\ begun > 0 => part > 0
           /\ n > 0 => AnySite!Times(n) <= Allowed
           /\ AnySite!SubmitsBounded

AnyInv == AnySite!TypeOK /\ AnyTurn

SiteTypes == /\ box \in 0..MaxRuns /\ taken \in BOOLEAN
             /\ asked \in Seq(AnySite!Runs) /\ begun \in 0..Len(asked)
             /\ part \in 0..Parts /\ greets \in BOOLEAN
             /\ begun > 0 => part > 0

AdapterTypes == /\ n \in 0..MaxRuns /\ step \in Steps
                /\ last \in AnySite!Text \cup {AnySite!Nothing} /\ calm \in BOOLEAN
                /\ reply \in [AnySite!Runs ->
                                AnySite!Text \cup {AnySite!Running, AnySite!Failed}]

LEMMA TypesInParts ==
  AnyInv <=> SiteTypes /\ AdapterTypes /\ AnyTurn
  BY DEF AnyInv, AnyTurn, SiteTypes, AdapterTypes, AnySite!TypeOK, Steps

LEMMA TypesInPartsNext ==
  AnyInv' <=> SiteTypes' /\ AdapterTypes' /\ AnyTurn'
  BY TypesInParts, PTL

LEMMA TimesCounts ==
  ASSUME NEW r, SiteTypes
  PROVE  /\ AnySite!Times(r) = Cardinality(Spots(r, asked))
         /\ AnySite!Times(r) \in Nat
  BY SpotsFinite, SameCardinality DEF AnySite!Times, Spots, SiteTypes

\* A step in which the site accepts nothing.
LEMMA NothingAccepted ==
  ASSUME AnyInv, UNCHANGED <<asked, n>>, begun' > 0 => part' > 0,
         step' # "idle" => n > 0,
         step' \in {"click", "clicked", "key", "pressed"} => box' \in {0, n},
         n > 0 => Allowed <= Allowed'
  PROVE  AnyTurn'
<1>1. UNCHANGED <<AnySite!SubmitsBounded, \A i \in DOMAIN asked : asked[i] <= n>>
  BY DEF AnySite!SubmitsBounded, AnySite!Times
<1>2. n > 0 => AnySite!Times(n)' <= Allowed'
  <2>1. SUFFICES ASSUME n > 0 PROVE AnySite!Times(n)' <= Allowed'
    OBVIOUS
  <2>2. AnySite!Times(n) \in Nat
    BY TypesInParts, TimesCounts
  <2>3. AnySite!Times(n)' = AnySite!Times(n)
    BY DEF AnySite!Times
  <2>4. AnySite!Times(n) <= Allowed
    BY <2>1 DEF AnyInv, AnyTurn
  <2>5. QED
    BY <2>1, <2>2, <2>3, <2>4 DEF Allowed
<1>3. QED
  BY <1>1, <1>2 DEF AnyInv, AnyTurn

\* A step that presses: the site may accept what is in the box once more.
LEMMA OnceMore ==
  ASSUME AnyInv, AnySite!Press, UNCHANGED n, MaxRuns \in Nat,
         step \in {"click", "clicked", "key", "pressed"}, step' # "idle",
         Allowed + 1 <= Allowed'
  PROVE  SiteTypes' /\ AnyTurn'
<1>1. SiteTypes /\ AdapterTypes /\ AnyTurn /\ n \in Nat \ {0} /\ box \in {0, n}
  BY TypesInParts DEF AnyTurn, AdapterTypes
<1>2. CASE UNCHANGED <<box, taken, asked, begun, part, greets>>
  <2>1. SiteTypes'
    BY <1>1, <1>2 DEF SiteTypes
  <2>2. QED
    BY <1>1, <1>2, <2>1, NothingAccepted DEF Allowed, AnyTurn
<1>3. CASE /\ box # 0 /\ asked' = Append(asked, box)
           /\ box' \in {0, box} /\ taken' \in BOOLEAN
           /\ UNCHANGED <<begun, part, greets>>
  <2>1. box = n /\ n \in AnySite!Runs /\ asked \in Seq(AnySite!Runs)
    BY <1>1, <1>3 DEF SiteTypes, AnySite!Runs
  <2>2. /\ asked' \in Seq(AnySite!Runs) /\ Len(asked') = Len(asked) + 1
        /\ \A i \in 1..Len(asked) : asked'[i] = asked[i]
        /\ asked'[Len(asked) + 1] = n
    BY <1>3, <2>1, Appended
  <2>3. SiteTypes'
    BY <1>1, <1>3, <2>2 DEF SiteTypes
  <2>4. \A i \in DOMAIN asked' : asked'[i] <= n
    BY <1>1, <2>1, <2>2 DEF AnyTurn
  <2>5. ASSUME NEW r
        PROVE  /\ AnySite!Times(r) = Cardinality(Spots(r, asked))
               /\ AnySite!Times(r)' = Cardinality(Spots(r, asked'))
               /\ AnySite!Times(r) \in Nat
    BY <1>1, <2>2, TimesCounts, SameCardinality DEF AnySite!Times, Spots
  <2>6. ASSUME NEW r, r # n PROVE AnySite!Times(r)' = AnySite!Times(r)
    BY <2>1, <1>3, <2>5, <2>6, SpotsAppended
  <2>7. AnySite!Times(n)' <= Allowed'
    <3>1. AnySite!Times(n)' = AnySite!Times(n) + 1
      BY <2>1, <1>3, <2>5, SpotsAppended
    <3>2. AnySite!Times(n) \in Nat /\ AnySite!Times(n) <= Allowed
      BY <1>1, <2>5 DEF AnyTurn
    <3>3. QED
      BY <3>1, <3>2 DEF Allowed
  <2>8. AnySite!SubmitsBounded'
    <3>1. AnySite!Times(n)' <= 3
      <4>1. AnySite!Times(n)' \in Nat
        <5>1. Cardinality(Spots(n, asked')) \in Nat
          BY <2>2, SpotsFinite
        <5>2. QED
          BY <2>5, <5>1
      <4>2. QED
        BY <2>7, <4>1 DEF Allowed
    <3>2. QED
      BY <1>1, <2>6, <3>1 DEF AnyTurn, AnySite!SubmitsBounded
  <2>9. QED
    BY <1>1, <1>3, <2>1, <2>3, <2>4, <2>7, <2>8 DEF AnyTurn
<1>4. QED
  BY <1>1, <1>2, <1>3 DEF AnySite!Press, AnySite!boxVars, AnySite!siteVars

\* A page that is loaded has accepted nothing yet.
LEMMA EmptyChatKeeps ==
  ASSUME AnyInv, MaxRuns \in Nat, Parts \in Nat \ {0}, AnySite!EmptyChat,
         UNCHANGED <<n, last, calm, reply, step>>
  PROVE  AnyInv'
<1>1. /\ asked' = <<>> /\ begun' = 0 /\ part' = 0 /\ greets' \in BOOLEAN
      /\ box' = 0 /\ taken' = FALSE
  BY DEF AnySite!EmptyChat
<1>2. SiteTypes /\ AdapterTypes /\ AnyTurn
  BY TypesInParts
<1>3. SiteTypes'
  <2>1. asked' \in Seq(AnySite!Runs) /\ Len(asked') = 0
    BY <1>1
  <2>2. box' \in 0..MaxRuns /\ begun' \in 0..0 /\ part' \in 0..Parts /\ ~(begun' > 0)
    BY <1>1
  <2>3. taken' \in BOOLEAN
    BY <1>1
  <2>4. QED
    BY <1>1, <2>1, <2>2, <2>3 DEF SiteTypes
<1>4. AdapterTypes'
  BY <1>2 DEF AdapterTypes
<1>5. ASSUME NEW r PROVE AnySite!Times(r)' = 0
  <2>1. {i \in DOMAIN asked' : asked'[i] = r} = {}
    BY <1>1
  <2>2. QED
    BY <2>1, FS_EmptySet, SameCardinality DEF AnySite!Times
<1>6. AnyTurn'
  BY <1>1, <1>2, <1>5 DEF AnyTurn, Allowed, AnySite!SubmitsBounded
<1>7. QED
  BY <1>3, <1>4, <1>6, TypesInPartsNext

\* The next prompt is one the chat has not seen.
LEMMA AnyStartKeeps ==
  ASSUME AnyInv, MaxRuns \in Nat, AnySite!StartRun
  PROVE  AnyInv'
<1>1. /\ n < MaxRuns /\ n' = n + 1 /\ step' = "fill"
      /\ UNCHANGED <<box, taken, asked, begun, part, greets, last, calm, reply>>
  BY DEF AnySite!StartRun, AnySite!boxVars, AnySite!siteVars, AnySite!waitVars
<1>2. SiteTypes /\ AdapterTypes /\ AnyTurn
  BY TypesInParts
<1>3. SiteTypes' /\ AdapterTypes'
  BY <1>1, <1>2 DEF SiteTypes, AdapterTypes, Steps
<1>4. n \in Nat /\ \A i \in DOMAIN asked : asked[i] \in Nat /\ asked[i] <= n
  BY <1>2 DEF SiteTypes, AdapterTypes, AnyTurn, AnySite!Runs
<1>5. {i \in DOMAIN asked : asked[i] = n + 1} = {}
  BY <1>4
<1>6. AnySite!Times(n)' = 0
  BY <1>1, <1>5, FS_EmptySet, SameCardinality DEF AnySite!Times
<1>7. UNCHANGED AnySite!SubmitsBounded
  BY <1>1 DEF AnySite!SubmitsBounded, AnySite!Times
<1>8. AnyTurn'
  BY <1>1, <1>2, <1>4, <1>6, <1>7 DEF AnyTurn, Allowed
<1>9. QED
  BY <1>3, <1>8, TypesInPartsNext

\* Steps in which the site accepts nothing, by what they change.
LEMMA QuietSteps ==
  ASSUME AnyInv, MaxRuns \in Nat, SiteTypes', AdapterTypes', UNCHANGED <<asked, n>>,
         \/ step' \in {"idle", step}
         \/ step = "clicked" /\ step' = "key"
         \/ step \in {"clicked", "pressed", "key"} /\ step' = "wait"
         \/ step = "fill" /\ step' \in {"click", "key"} /\ box' = n,
         box' \in {0, box, n}
  PROVE  AnyInv'
<1>1. SiteTypes /\ AdapterTypes /\ AnyTurn
  BY TypesInParts
<1>2. AnyTurn'
  <2>1. n \in Nat
    BY <1>1 DEF AdapterTypes
  <2>2. Allowed <= Allowed'
    BY DEF Allowed
  <2>3. step' \in {"click", "clicked", "key", "pressed"} => box' \in {0, n}
    BY <1>1 DEF AnyTurn
  <2>4. step' # "idle" => n > 0
    BY <1>1 DEF AnyTurn
  <2>5. begun' > 0 => part' > 0
    BY DEF SiteTypes
  <2>6. QED
    BY <2>2, <2>3, <2>4, <2>5, NothingAccepted
<1>3. QED
  BY <1>2, TypesInPartsNext

LEMMA AnySiteStepKeeps ==
  ASSUME AnyInv, MaxRuns \in Nat, Parts \in Nat \ {0},
         AnySite!ClearBox \/ AnySite!BeginReply \/ AnySite!GrowReply
  PROVE  AnyInv'
<1>1. SiteTypes /\ AdapterTypes /\ AnyTurn
  BY TypesInParts
<1>2. UNCHANGED <<n, step, last, calm, reply, asked>>
  BY DEF AnySite!ClearBox, AnySite!BeginReply, AnySite!GrowReply, AnySite!siteVars,
     AnySite!waitVars, AnySite!boxVars
<1>3. AdapterTypes'
  BY <1>1, <1>2 DEF AdapterTypes
<1>4. SiteTypes' /\ box' \in {0, box}
  <2>1. CASE AnySite!ClearBox
    <3>1. UNCHANGED <<asked, begun, part, greets>> /\ box' = 0 /\ taken' = FALSE
      BY <2>1 DEF AnySite!ClearBox, AnySite!siteVars
    <3>2. box' \in 0..MaxRuns /\ box' \in {0, box}
      BY <3>1
    <3>3. taken' \in BOOLEAN
      BY <3>1
    <3>4. QED
      BY <1>1, <3>1, <3>2, <3>3 DEF SiteTypes
  <2>2. CASE AnySite!BeginReply
    <3>1. /\ UNCHANGED <<box, taken, asked, greets>> /\ begun < Len(asked)
          /\ begun' = begun + 1 /\ part' = 1
      BY <2>2 DEF AnySite!BeginReply, AnySite!boxVars
    <3>2. Len(asked) \in Nat
      BY <1>1 DEF SiteTypes
    <3>3. begun' \in 0..Len(asked) /\ part' \in 0..Parts
      BY <1>1, <3>1, <3>2 DEF SiteTypes
    <3>4. QED
      BY <1>1, <3>1, <3>3 DEF SiteTypes
  <2>3. CASE AnySite!GrowReply
    BY <1>1, <2>3 DEF AnySite!GrowReply, AnySite!boxVars, SiteTypes
  <2>4. QED
    BY <2>1, <2>2, <2>3
<1>5. QED
  BY <1>2, <1>3, <1>4, QuietSteps

LEMMA AnyFillKeeps ==
  ASSUME AnyInv, MaxRuns \in Nat, AnySite!Fill \/ AnySite!FillFails
  PROVE  AnyInv'
<1>1. SiteTypes /\ AdapterTypes /\ AnyTurn
  BY TypesInParts
<1>2. /\ UNCHANGED <<n, asked, begun, part, greets, last, calm>> /\ step = "fill"
  BY DEF AnySite!Fill, AnySite!FillFails, AnySite!siteVars, AnySite!waitVars
<1>3. CASE AnySite!Fill
  <2>1. box' = n /\ taken' = FALSE /\ reply' = reply /\ step' \in {"click", "key"}
    BY <1>3 DEF AnySite!Fill
  <2>2. SiteTypes' /\ AdapterTypes'
    BY <1>1, <1>2, <2>1 DEF SiteTypes, AdapterTypes, Steps
  <2>3. QED
    BY <1>2, <2>1, <2>2, QuietSteps
<1>4. CASE AnySite!FillFails
  <2>1. /\ UNCHANGED <<box, taken>> /\ step' = "idle"
        /\ reply' = [reply EXCEPT ![n] = AnySite!Failed]
    BY <1>4 DEF AnySite!FillFails, AnySite!Answer, AnySite!boxVars
  <2>2. SiteTypes' /\ AdapterTypes'
    BY <1>1, <1>2, <2>1 DEF SiteTypes, AdapterTypes, Steps
  <2>3. QED
    BY <1>2, <2>1, <2>2, QuietSteps
<1>5. QED
  BY <1>3, <1>4

LEMMA AnyPressesKeep ==
  ASSUME AnyInv, MaxRuns \in Nat,
         AnySite!Click \/ AnySite!AfterClick \/ AnySite!PressEnter \/ AnySite!AfterEnter
  PROVE  AnyInv'
<1>1. SiteTypes /\ AdapterTypes /\ AnyTurn
  BY TypesInParts
<1>2. /\ UNCHANGED <<n, reply>> /\ step \in {"click", "clicked", "key", "pressed"}
      /\ last' \in {last, AnySite!Nothing} /\ calm' \in {calm, FALSE}
      /\ \/ step = "click" /\ step' \in {"clicked", "key"}
         \/ step = "clicked" /\ step' \in {"key", "wait"}
         \/ step = "key" /\ step' \in {"pressed", "wait"}
         \/ step = "pressed" /\ step' = "wait"
  BY DEF AnySite!Click, AnySite!AfterClick, AnySite!PressEnter, AnySite!AfterEnter,
     AnySite!Move, AnySite!BeginWait, AnySite!waitVars
<1>3. AdapterTypes'
  BY <1>1, <1>2 DEF AdapterTypes, Steps
<1>4. \/ AnySite!Press /\ ~(step = "clicked" /\ step' = "key")
      \/ /\ UNCHANGED <<box, taken, asked, begun, part, greets>>
         /\ step' \in {"key", "wait"} /\ step # "click"
  BY DEF AnySite!Click, AnySite!AfterClick, AnySite!PressEnter, AnySite!AfterEnter,
     AnySite!Move, AnySite!BeginWait, AnySite!siteVars, AnySite!boxVars
<1>5. CASE AnySite!Press /\ ~(step = "clicked" /\ step' = "key")
  <2>1. Allowed + 1 <= Allowed'
    BY <1>2, <1>5 DEF Allowed
  <2>2. SiteTypes' /\ AnyTurn'
    BY <1>2, <1>5, <2>1, OnceMore
  <2>3. QED
    BY <1>3, <2>2, TypesInPartsNext
<1>6. CASE /\ UNCHANGED <<box, taken, asked, begun, part, greets>>
           /\ step' \in {"key", "wait"} /\ step # "click"
  <2>1. SiteTypes'
    BY <1>1, <1>6 DEF SiteTypes
  <2>2. QED
    BY <1>2, <1>3, <1>6, <2>1, QuietSteps
<1>7. QED
  BY <1>4, <1>5, <1>6

LEMMA AnyWaitKeeps ==
  ASSUME AnyInv, MaxRuns \in Nat, Parts \in Nat \ {0},
         AnySite!Look \/ AnySite!Second \/ AnySite!Deadline
  PROVE  AnyInv'
<1>1. SiteTypes /\ AdapterTypes /\ AnyTurn
  BY TypesInParts
<1>2. UNCHANGED <<n, box, taken, asked, begun, part, greets>> /\ step = "wait"
  BY DEF AnySite!Look, AnySite!Second, AnySite!Deadline, AnySite!siteVars, AnySite!boxVars
<1>3. SiteTypes'
  BY <1>1, <1>2 DEF SiteTypes
<1>4. AnySite!Shown \in AnySite!Text \cup {AnySite!Nothing}
  <2>1. CASE begun > 0
    <3>1. begun \in 1..Len(asked) /\ part \in 1..Parts
      BY <1>1, <2>1 DEF SiteTypes
    <3>2. asked[begun] \in AnySite!Runs
      BY <1>1, <3>1 DEF SiteTypes
    <3>3. QED
      BY <2>1, <3>1, <3>2 DEF AnySite!Shown, AnySite!Text
  <2>2. CASE ~(begun > 0)
    BY <2>2 DEF AnySite!Shown, AnySite!Text
  <2>3. QED
    BY <2>1, <2>2
<1>5. \/ /\ reply' = reply /\ step' = step /\ calm' \in BOOLEAN
         /\ last' \in {last, AnySite!Shown}
      \/ /\ UNCHANGED <<last, calm>> /\ step' = "idle"
         /\ \E r \in AnySite!Text \cup {AnySite!Failed} : reply' = [reply EXCEPT ![n] = r]
  <2>1. CASE AnySite!Second
    BY <2>1 DEF AnySite!Second
  <2>2. CASE AnySite!Look /\ AnySite!Shown # last
    BY <2>2 DEF AnySite!Look
  <2>3. CASE AnySite!Look /\ AnySite!Shown = last
    <3>1. AnySite!Answer(last) /\ UNCHANGED <<last, calm>> /\ last # AnySite!Nothing
      BY <2>3 DEF AnySite!Look, AnySite!waitVars
    <3>2. last \in AnySite!Text
      BY <1>1, <3>1 DEF AdapterTypes
    <3>3. QED
      BY <3>1, <3>2 DEF AnySite!Answer
  <2>4. CASE AnySite!Deadline
    <3>1. PICK r \in AnySite!Text \cup {AnySite!Failed} :
             AnySite!Answer(r) /\ UNCHANGED <<last, calm>>
      <4>1. (IF last = AnySite!Nothing THEN AnySite!Failed ELSE last)
               \in AnySite!Text \cup {AnySite!Failed}
        BY <1>1 DEF AdapterTypes
      <4>2. QED
        BY <2>4, <4>1 DEF AnySite!Deadline, AnySite!waitVars
    <3>2. QED
      BY <3>1 DEF AnySite!Answer
  <2>5. QED
    BY <2>1, <2>2, <2>3, <2>4
<1>6. AdapterTypes' /\ step' \in {"idle", step}
  BY <1>1, <1>2, <1>4, <1>5 DEF AdapterTypes, Steps
<1>7. QED
  BY <1>2, <1>3, <1>6, QuietSteps

LEMMA AnyInitFits ==
  ASSUME MaxRuns \in Nat, Parts \in Nat \ {0}, AnySite!Init
  PROVE  AnyInv
<1>1. SiteTypes
  <2>1. /\ box = 0 /\ taken = FALSE /\ asked = <<>> /\ begun = 0 /\ part = 0
        /\ greets \in BOOLEAN
    BY DEF AnySite!Init
  <2>2. asked \in Seq(AnySite!Runs) /\ Len(asked) = 0
    BY <2>1
  <2>3. box \in 0..MaxRuns /\ begun \in 0..0 /\ part \in 0..Parts /\ ~(begun > 0)
    BY <2>1
  <2>4. taken \in BOOLEAN
    BY <2>1
  <2>5. QED
    BY <2>1, <2>2, <2>3, <2>4 DEF SiteTypes
<1>2. AdapterTypes
  <2>1. n \in 0..MaxRuns /\ step \in Steps
    BY DEF AnySite!Init, Steps
  <2>2. last \in AnySite!Text \cup {AnySite!Nothing} /\ calm \in BOOLEAN
    BY DEF AnySite!Init
  <2>3. reply \in [AnySite!Runs -> AnySite!Text \cup {AnySite!Running, AnySite!Failed}]
    BY DEF AnySite!Init
  <2>4. QED
    BY <2>1, <2>2, <2>3 DEF AdapterTypes
<1>3. ASSUME NEW r PROVE AnySite!Times(r) = 0
  <2>1. {i \in DOMAIN asked : asked[i] = r} = {}
    BY DEF AnySite!Init
  <2>2. QED
    BY <2>1, FS_EmptySet, SameCardinality DEF AnySite!Times
<1>4. AnyTurn
  BY <1>3 DEF AnySite!Init, AnyTurn, AnySite!SubmitsBounded
<1>5. QED
  BY <1>1, <1>2, <1>4, TypesInParts

LEMMA AnyNextKeeps ==
  ASSUME AnyInv, MaxRuns \in Nat, Parts \in Nat \ {0}, [AnySite!Next]_AnySite!vars
  PROVE  AnyInv'
<1>1. CASE AnySite!Reload \/ AnySite!NewChat
  <2>1. AnySite!EmptyChat /\ UNCHANGED <<n, last, calm, reply, step>>
    BY <1>1 DEF AnySite!Reload, AnySite!NewChat, AnySite!waitVars
  <2>2. QED
    BY <2>1, EmptyChatKeeps
<1>2. CASE AnySite!ClearBox \/ AnySite!BeginReply \/ AnySite!GrowReply
  BY <1>2, AnySiteStepKeeps
<1>3. CASE AnySite!StartRun
  BY <1>3, AnyStartKeeps
<1>4. CASE AnySite!Fill \/ AnySite!FillFails
  BY <1>4, AnyFillKeeps
<1>5. CASE AnySite!Click \/ AnySite!AfterClick \/ AnySite!PressEnter \/ AnySite!AfterEnter
  BY <1>5, AnyPressesKeep
<1>6. CASE AnySite!Look \/ AnySite!Second \/ AnySite!Deadline
  BY <1>6, AnyWaitKeeps
<1>7. CASE UNCHANGED AnySite!vars
  <2>1. UNCHANGED <<n, step, box, taken, asked, begun, part, greets, last, calm, reply>>
    BY <1>7 DEF AnySite!vars, AnySite!boxVars, AnySite!siteVars, AnySite!waitVars
  <2>2. SiteTypes' /\ AdapterTypes'
    BY <2>1, TypesInParts DEF SiteTypes, AdapterTypes
  <2>3. QED
    BY <2>1, <2>2, QuietSteps
<1>8. QED
  BY <1>1, <1>2, <1>3, <1>4, <1>5, <1>6, <1>7
     DEF AnySite!Next, AnySite!Site, AnySite!Adapter

THEOREM AnyInvariance ==
  ASSUME MaxRuns \in Nat, Parts \in Nat \ {0}
  PROVE  AnySite!Spec => []AnyInv
<1>1. AnySite!Init => AnyInv
  BY AnyInitFits
<1>2. AnyInv /\ [AnySite!Next]_AnySite!vars => AnyInv'
  BY AnyNextKeeps
<1>3. QED
  BY <1>1, <1>2, PTL DEF AnySite!Spec

\* Whatever the site, the variables of ChatPage keep their types.
THEOREM AnySiteTypeCorrect ==
  ASSUME MaxRuns \in Nat, Parts \in Nat \ {0}
  PROVE  AnySite!Spec => []AnySite!TypeOK
<1>1. AnyInv => AnySite!TypeOK
  BY DEF AnyInv
<1>2. QED
  BY <1>1, AnyInvariance, PTL

\* However slowly a site clears its box, it gets a prompt at most once per press.
THEOREM NeverMoreThanThrice ==
  ASSUME MaxRuns \in Nat, Parts \in Nat \ {0}
  PROVE  AnySite!Spec => []AnySite!SubmitsBounded
<1>1. AnyInv => AnySite!SubmitsBounded
  BY DEF AnyInv, AnyTurn
<1>2. QED
  BY <1>1, AnyInvariance, PTL

\* A site only ever gets the prompt of the run in progress, although a failed run
\* may have left another in the box, and gets it at most three times.
THEOREM OwnPromptOnly ==
  ASSUME MaxRuns \in Nat, Parts \in Nat \ {0}
  PROVE  AnySite!Spec => AnySite!SubmitsOwnPrompt
<1> DEFINE Mine == Len(asked') > Len(asked) => asked' = Append(asked, n) /\ step # "idle"
           Own  == Len(asked') > Len(asked) => /\ step # "idle" /\ asked' = Append(asked, n)
                                               /\ AnySite!SubmitsBounded'
<1>1. ASSUME AnyInv, [AnySite!Next]_AnySite!vars PROVE Mine
  <2>1. SiteTypes /\ AnyTurn
    BY <1>1, TypesInParts
  <2>2. CASE AnySite!Click \/ AnySite!AfterClick \/ AnySite!PressEnter \/ AnySite!AfterEnter
    <3>1. step \in {"click", "clicked", "key", "pressed"}
      BY <2>2 DEF AnySite!Click, AnySite!AfterClick, AnySite!PressEnter,
         AnySite!AfterEnter, AnySite!Move, AnySite!BeginWait
    <3>2. asked' = asked \/ (box # 0 /\ asked' = Append(asked, box))
      BY <2>2 DEF AnySite!Click, AnySite!AfterClick, AnySite!PressEnter,
         AnySite!AfterEnter, AnySite!Press, AnySite!siteVars
    <3>3. box \in {0, n}
      BY <2>1, <3>1 DEF AnyTurn
    <3>4. asked' = asked \/ asked' = Append(asked, n)
      BY <3>2, <3>3
    <3>5. Len(asked) \in Nat
      BY <2>1 DEF SiteTypes
    <3>6. QED
      BY <3>1, <3>4, <3>5
  <2>3. CASE AnySite!Reload \/ AnySite!NewChat
    <3>1. asked' = <<>>
      BY <2>3 DEF AnySite!Reload, AnySite!NewChat, AnySite!EmptyChat
    <3>2. Len(asked) \in Nat /\ Len(asked') = 0
      BY <2>1, <3>1 DEF SiteTypes
    <3>3. QED
      BY <3>2
  <2>4. CASE UNCHANGED asked
    <3>1. Len(asked) \in Nat
      BY <2>1 DEF SiteTypes
    <3>2. QED
      BY <2>4, <3>1
  <2>5. \/ AnySite!Click \/ AnySite!AfterClick \/ AnySite!PressEnter \/ AnySite!AfterEnter
        \/ AnySite!Reload \/ AnySite!NewChat \/ UNCHANGED asked
    BY <1>1 DEF AnySite!Next, AnySite!Site, AnySite!Adapter, AnySite!ClearBox,
       AnySite!BeginReply, AnySite!GrowReply, AnySite!StartRun, AnySite!Fill,
       AnySite!FillFails, AnySite!Look, AnySite!Second, AnySite!Deadline,
       AnySite!vars, AnySite!siteVars
  <2>6. QED
    BY <2>2, <2>3, <2>4, <2>5
<1>2. AnyInv' => AnySite!SubmitsBounded'
  BY DEF AnyInv, AnyTurn
<1>3. AnyInv /\ AnyInv' /\ [AnySite!Next]_AnySite!vars => [Own]_AnySite!vars
  BY <1>1, <1>2
<1>4. QED
  BY <1>3, AnyInvariance, PTL DEF AnySite!Spec, AnySite!SubmitsOwnPrompt
=============================================================================
