------------------------------ MODULE MockSite ------------------------------
(***************************************************************************)
(* The adapter against the mock chat site of the repository: the page with *)
(* its three overlays, which takes a prompt in the handler of the click,   *)
(* clears its box there and then, and answers by a timer of 250 ms.  The   *)
(* adapter's steps are those of ChatPage, whose arbitrary chat site this   *)
(* one implements.                                                         *)
(***************************************************************************)
EXTENDS Naturals, Sequences, SequencesExt

CONSTANTS MaxRuns,
          MaxTroubles   \* bound: reloads and failed browser calls

ASSUME MockAssumption == MaxRuns \in Nat /\ MaxTroubles \in Nat

VARIABLES
    stage,    \* cookieAccepted, humanVerified, loggedIn: the overlay they leave
    user,     \* the prompts in the elements .msg.user
    answers,  \* the assistant messages: the prompt each answers, 0 for a greeting
    timers,   \* prompts whose setTimeout has not run
    n, step, box, last, calm, reply,   \* the adapter, as in ChatPage
    left      \* what is left of MaxTroubles

page == <<stage, user, answers, timers>>
adapter == <<n, step, last, calm, reply>>
vars == <<page, adapter, box, left>>

Greeted == answers # <<>> /\ Head(answers) = 0
Replies == IF Greeted THEN Tail(answers) ELSE answers

Chat == INSTANCE ChatPage
            WITH Parts <- 1, taken <- box # 0 /\ Contains(timers, box),
                 asked <- user, begun <- Len(Replies),
                 part <- IF Replies = <<>> THEN 0 ELSE 1, greets <- Greeted

\* Bug variant for the checks: a timer outlives the page that has set it.
LoadKeepsTimers(s) == /\ stage' = s
                      /\ user' = <<>> /\ UNCHANGED timers /\ box' = 0
                      /\ answers' = IF s = "chat" THEN <<0>> ELSE <<>>

\* loadState and the restored greeting: what a page shows when it is loaded.
Load(s) == /\ stage' = s
           /\ user' = <<>> /\ timers' = <<>> /\ box' = 0
           /\ answers' = IF s = "chat" THEN <<0>> ELSE <<>>

Init == /\ stage \in {"cookie", "chat"}
        /\ user = <<>> /\ timers = <<>>
        /\ answers = IF stage = "chat" THEN <<0>> ELSE <<>>
        /\ n = 0 /\ step = "idle" /\ box = 0
        /\ last = Chat!Nothing /\ calm = FALSE
        /\ reply = [r \in 1..MaxRuns |-> Chat!Running]
        /\ left = MaxTroubles

Trouble == left > 0 /\ left' = left - 1
-----------------------------------------------------------------------------
(* The person in front of the page.                                        *)

AcceptCookie == /\ stage = "cookie" /\ stage' = "verify"
                /\ UNCHANGED <<user, answers, timers, box, adapter, left>>

VerifyHuman == /\ stage = "verify" /\ stage' = "login"
               /\ UNCHANGED <<user, answers, timers, box, adapter, left>>

Login == /\ stage = "login" /\ stage' = "chat"
         /\ answers' = IF answers = <<>> THEN <<0>> ELSE answers
         /\ UNCHANGED <<user, timers, box, adapter, left>>

\* A reload keeps what cookies and local storage hold, a fresh profile does not.
Reload == /\ Load(stage) \/ Load("cookie")
          /\ Trouble
          /\ UNCHANGED adapter
-----------------------------------------------------------------------------
(* The page's own handlers.                                                *)

\* Bug variant for the checks: the box is cleared with the answer.
SendKeepsBox == IF stage = "chat" /\ box # 0
                THEN /\ user' = Append(user, box)
                     /\ timers' = Append(timers, box)
                     /\ UNCHANGED <<stage, answers, box>>
                ELSE UNCHANGED <<page, box>>

\* The click handler of sendBtn, which Enter in the box calls as well.
Send == IF stage = "chat" /\ box # 0
        THEN /\ user' = Append(user, box)
             /\ timers' = Append(timers, box)
             /\ box' = 0
             /\ UNCHANGED <<stage, answers>>
        ELSE UNCHANGED <<page, box>>

TimerRuns == /\ timers # <<>>
             /\ answers' = Append(answers, Head(timers))
             /\ timers' = Tail(timers)
             /\ UNCHANGED <<stage, user, box, adapter, left>>
-----------------------------------------------------------------------------
(* The adapter.                                                            *)

\* Bug variant for the checks: the adapter's second passes before the timer.
ElapsedAnyway == TRUE

\* Whatever takes half a second or more ends after the timers that were running.
Elapsed == timers = <<>>

StartRun == UNCHANGED <<page, box, left>> /\ Chat!StartRun

Fill == /\ stage = "chat"
        /\ box' = n
        /\ UNCHANGED <<page, left>>
        /\ Chat!Fill

\* The box stays disabled for the time fill() waits; or the browser fails.
FillFails == /\ \/ stage # "chat" /\ UNCHANGED left
                \/ Trouble
             /\ UNCHANGED <<page, box>>
             /\ Chat!FillFails

\* The click waits for an enabled button; it may also fail after its effect.
Click == \/ stage = "chat" /\ Send /\ Chat!Move("click", {"clicked"}) /\ UNCHANGED left
         \/ stage # "chat" /\ Chat!Move("click", {"key"}) /\ UNCHANGED <<page, box, left>>
         \/ Trouble /\ Chat!Move("click", {"key"}) /\ (Send \/ UNCHANGED <<page, box>>)

AfterClick == /\ Elapsed
              /\ \/ box = 0 /\ Chat!BeginWait("clicked") /\ UNCHANGED <<page, box, left>>
                 \/ box # 0 /\ Chat!BeginWait("clicked") /\ Send /\ UNCHANGED left
                 \/ Trouble /\ Chat!Move("clicked", {"key"}) /\ UNCHANGED <<page, box>>

PressEnter == \/ Send /\ Chat!Move("key", {"pressed"}) /\ UNCHANGED left
              \/ Trouble /\ Chat!BeginWait("key") /\ (Send \/ UNCHANGED <<page, box>>)

\* Control+Enter is an Enter to this page.
AfterEnter == /\ Elapsed
              /\ Chat!BeginWait("pressed")
              /\ \/ box = 0 /\ UNCHANGED <<page, box, left>>
                 \/ box # 0 /\ Send /\ UNCHANGED left
                 \/ Trouble /\ UNCHANGED <<page, box>>

Look == UNCHANGED <<page, box, left>> /\ Chat!Look

Second == Elapsed /\ UNCHANGED <<page, box, left>> /\ Chat!Second

Deadline == Elapsed /\ UNCHANGED <<page, box, left>> /\ Chat!Deadline

\* run_once opens a new chat by a navigation.
NewChat == /\ step = "idle"
           /\ n > 0 /\ reply[n] # Chat!Failed
           /\ Load(stage)
           /\ UNCHANGED <<adapter, left>>
-----------------------------------------------------------------------------
Person  == AcceptCookie \/ VerifyHuman \/ Login \/ Reload
Adapter == \/ StartRun \/ Fill \/ FillFails \/ Click \/ AfterClick \/ PressEnter
           \/ AfterEnter \/ Look \/ Second \/ Deadline \/ NewChat

Next == Person \/ TimerRuns \/ Adapter

Spec == Init /\ [][Next]_vars
-----------------------------------------------------------------------------
\* Every variable keeps its type.
TypeOK == /\ stage \in {"cookie", "verify", "login", "chat"}
          /\ user \in Seq(1..MaxRuns) /\ timers \in Seq(1..MaxRuns)
          /\ answers \in Seq(0..MaxRuns)
          /\ left \in 0..MaxTroubles
          /\ Chat!TypeOK

\* The mock is one of the chat sites ChatPage allows: every prompt shown as the
\* user's is answered once, in the order in which they were sent.
ImplementsChatPage == Chat!Spec

\* The handler clears the box before it returns, so the adapter's fallbacks find
\* nothing to send again: no prompt is ever asked twice, whatever fails.
AskedOnce == \A i, j \in DOMAIN user : user[i] = user[j] => i = j

\* As long as no browser call fails and nobody reloads the page, every reply is the
\* answer to its own prompt: the timer is shorter than the adapter's second, so a
\* test against the mock never meets the stale reply that ChatPage shows.
CalmRunsAnswered == left = MaxTroubles => Chat!AnswersOwnPrompt
=============================================================================
