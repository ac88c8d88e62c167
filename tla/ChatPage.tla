------------------------------ MODULE ChatPage ------------------------------
(***************************************************************************)
(* One adapter run after the other in a provider's chat page: send_message *)
(* types the prompt and presses until the input box is empty, and          *)
(* wait_for_response polls the last visible reply until it has stood still *)
(* for a second.  The chat site answers at its own pace.  The prompts of   *)
(* a worker are numbered in the order in which they are typed.             *)
(***************************************************************************)
EXTENDS Naturals, Sequences, FiniteSets

CONSTANTS MaxRuns,   \* bound: tasks the worker hands to the adapter
          Parts      \* in how many pieces the site streams one reply

ASSUME ChatAssumption == MaxRuns \in Nat /\ Parts \in Nat \ {0}

VARIABLES
    n,            \* the prompt of the current (or last) run
    step,         \* where DefaultProviderAdapter.run is
    box,          \* the prompt in the input box, 0 when it is empty
    taken,        \* the site has accepted what is in the box, and will clear it
    asked,        \* the prompts the site has accepted in this chat
    begun, part,  \* replies it has begun, and how much of the last one it shows
    greets,       \* the site opens the chat with a message of its own
    last, calm,   \* last_text, and whether it is more than a second old
    reply         \* raw_response of each run, or Running, Failed

siteVars == <<asked, begun, part, greets>>
boxVars  == <<box, taken>>
waitVars == <<last, calm>>
vars == <<n, step, boxVars, siteVars, waitVars, reply>>

Runs    == 1..MaxRuns
Nothing == [of |-> 0, part |-> 0]
Running == Nothing
Failed  == [of |-> 0, part |-> 1]
Hello   == [of |-> 0, part |-> 2]
Shown   == IF begun > 0 THEN [of |-> asked[begun], part |-> part]
           ELSE IF greets THEN Hello ELSE Nothing

Init == /\ n = 0 /\ step = "idle"
        /\ box = 0 /\ taken = FALSE
        /\ asked = <<>> /\ begun = 0 /\ part = 0
        /\ greets \in BOOLEAN
        /\ last = Nothing /\ calm = FALSE
        /\ reply = [r \in Runs |-> Running]
-----------------------------------------------------------------------------
(* The chat site.                                                          *)

\* A press of the button or of a key: the site accepts what is in the box, and
\* clears it at once or later, or ignores the press.
Press == \/ UNCHANGED <<boxVars, siteVars>>
         \/ /\ box # 0
            /\ asked' = Append(asked, box)
            /\ \/ box' = 0 /\ taken' = FALSE
               \/ taken' = TRUE /\ UNCHANGED box
            /\ UNCHANGED <<begun, part, greets>>

ClearBox == /\ taken
            /\ box' = 0 /\ taken' = FALSE
            /\ UNCHANGED <<n, step, siteVars, waitVars, reply>>

BeginReply == /\ begun < Len(asked)
              /\ begun = 0 \/ part = Parts
              /\ begun' = begun + 1
              /\ part' = 1
              /\ UNCHANGED <<n, step, boxVars, asked, greets, waitVars, reply>>

GrowReply == /\ part \in 1..(Parts - 1)
             /\ part' = part + 1
             /\ UNCHANGED <<n, step, boxVars, asked, begun, greets, waitVars, reply>>
\* A page that is loaded shows an empty chat, with or without a greeting.
EmptyChat == /\ asked' = <<>> /\ begun' = 0 /\ part' = 0
             /\ greets' \in BOOLEAN
             /\ box' = 0 /\ taken' = FALSE

\* Somebody reloads or leaves the page, or a verification opens it again.
Reload == /\ EmptyChat
          /\ UNCHANGED <<n, step, waitVars, reply>>
-----------------------------------------------------------------------------
(* DefaultProviderAdapter.run and send_message.                            *)

Answer(r) == /\ reply' = [reply EXCEPT ![n] = r]
             /\ step' = "idle"

StartRun == /\ step = "idle"
            /\ n < MaxRuns
            /\ n' = n + 1
            /\ step' = "fill"
            /\ UNCHANGED <<boxVars, siteVars, waitVars, reply>>

\* The adapter's side of a step that presses.
Move(from, to) == /\ step = from
                  /\ step' \in to
                  /\ UNCHANGED <<n, waitVars, reply>>

BeginWait(from) == /\ step = from
                   /\ step' = "wait"
                   /\ last' = Nothing
                   /\ calm' = FALSE
                   /\ UNCHANGED <<n, reply>>

\* Bug variant for the checks: the prompt is typed only into an empty box.
FillIfEmpty == /\ step = "fill"
               /\ box' = IF box = 0 THEN n ELSE box
               /\ taken' = FALSE
               /\ step' \in {"click", "key"}
               /\ UNCHANGED <<n, siteVars, waitVars, reply>>

\* fill() replaces the text; then a visible send button is looked for.
Fill == /\ step = "fill"
        /\ box' = n
        /\ taken' = FALSE
        /\ step' \in {"click", "key"}
        /\ UNCHANGED <<n, siteVars, waitVars, reply>>

\* No visible input box, or an exception while filling it.
FillFails == /\ step = "fill"
             /\ Answer(Failed)
             /\ UNCHANGED <<n, boxVars, siteVars, waitVars>>

\* An exception in the click, before or after its effect, leads to the keyboard.
Click == Move("click", {"clicked", "key"}) /\ Press

\* Half a second later: a box that is not empty yet gets an Enter as well; an
\* exception on reading it falls through to the keyboard.
AfterClick == \/ box = 0 /\ BeginWait("clicked") /\ UNCHANGED <<boxVars, siteVars>>
              \/ box # 0 /\ BeginWait("clicked") /\ Press
              \/ Move("clicked", {"key"}) /\ UNCHANGED <<boxVars, siteVars>>

PressEnter == (Move("key", {"pressed"}) \/ BeginWait("key")) /\ Press

AfterEnter == /\ BeginWait("pressed")
              /\ \/ UNCHANGED <<boxVars, siteVars>>
                 \/ box # 0 /\ Press
-----------------------------------------------------------------------------
(* wait_for_response(page, previous_response=None).                        *)

\* A poll that finds a visible reply: a text other than last_text starts the
\* second anew, the same text after that second is returned.
Look == /\ step = "wait"
        /\ Shown # Nothing
        /\ IF Shown # last
           THEN last' = Shown /\ calm' = FALSE /\ UNCHANGED <<step, reply>>
           ELSE calm /\ Answer(last) /\ UNCHANGED waitVars
        /\ UNCHANGED <<n, boxVars, siteVars>>

Second == /\ step = "wait"
          /\ last # Nothing /\ ~calm
          /\ calm' = TRUE
          /\ UNCHANGED <<n, step, boxVars, siteVars, last, reply>>

\* Bug variant for the checks: the deadline only ends a wait that has read a text.
DeadlineWaits == /\ step = "wait"
                   /\ last # Nothing
                   /\ Answer(last)
                   /\ UNCHANGED <<n, boxVars, siteVars, waitVars>>

\* After a minute whatever was read last is the reply, and nothing is a failure.
Deadline == /\ step = "wait"
            /\ Answer(IF last = Nothing THEN Failed ELSE last)
            /\ UNCHANGED <<n, boxVars, siteVars, waitVars>>

\* run_once after a completed task at the limit of rounds: a new chat is opened
\* (when neither the button nor the navigation works, the page stays as it is).
NewChat == /\ step = "idle"
           /\ n > 0 /\ reply[n] # Failed
           /\ EmptyChat
           /\ UNCHANGED <<n, step, waitVars, reply>>
-----------------------------------------------------------------------------
Site    == ClearBox \/ BeginReply \/ GrowReply \/ Reload
Adapter == \/ Fill \/ FillFails \/ Click \/ AfterClick \/ PressEnter \/ AfterEnter
           \/ Look \/ Second \/ Deadline

Next == Site \/ Adapter \/ StartRun \/ NewChat

Spec == Init /\ [][Next]_vars

\* Every wait of the adapter on the browser has a timeout and the loop of
\* wait_for_response a deadline; nothing is assumed of the site.
Sending  == Fill \/ FillFails \/ Click \/ AfterClick \/ PressEnter \/ AfterEnter
FairSpec == Spec /\ WF_vars(Sending) /\ WF_vars(Deadline)
-----------------------------------------------------------------------------
Text == [of : Runs, part : 1..Parts] \cup {Hello}

\* Every variable keeps its type.
TypeOK ==
    /\ n \in 0..MaxRuns
    /\ step \in {"idle", "fill", "click", "clicked", "key", "pressed", "wait"}
    /\ box \in 0..MaxRuns /\ taken \in BOOLEAN
    /\ asked \in Seq(Runs) /\ begun \in 0..Len(asked) /\ part \in 0..Parts
    /\ greets \in BOOLEAN
    /\ last \in Text \cup {Nothing} /\ calm \in BOOLEAN
    /\ reply \in [Runs -> Text \cup {Running, Failed}]

\* How often the site has accepted the prompt of run r in this chat.
Times(r) == Cardinality({i \in DOMAIN asked : asked[i] = r})

\* The fallbacks press a key when a click seems to have had no effect, so a site
\* that is slow to clear its box gets a prompt twice, but never more than once
\* per press: click, Enter, Control+Enter.
SubmitsBounded == \A r \in Runs : Times(r) <= 3

\* The site is only ever given the prompt of the run in progress, although a failed
\* run may have left its own prompt in the box, and however slowly it clears the box
\* the two keyboard fallbacks of send_message do not make it more than three times.
SubmitsOwnPrompt ==
    [][Len(asked') > Len(asked) => /\ step # "idle" /\ asked' = Append(asked, n)
                                   /\ SubmitsBounded']_vars

\* A run always comes to an end, whatever the site does.
EveryRunEnds == \A r \in Runs : n = r ~> reply[r] # Running

\* The reply stored for a task is the site's answer to its prompt (run(): send
\* the message, then wait for the reply; the last element is the newest reply).
AnswersOwnPrompt ==
    \A r \in Runs : reply[r] \notin {Running, Failed} => reply[r].of = r
=============================================================================
