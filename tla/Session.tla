------------------------------ MODULE Session ------------------------------
(***************************************************************************)
(* One link from end to end: the pages that show its widget (Widget), the  *)
(* gate endpoints of api.py in front of a CaptchaGate with a Repeated-     *)
(* MovementCheck and a captcha, and the bot's handlers of captcha_verified *)
(* behind an InProcessTransport (Transport).  Requests and answers travel, *)
(* and may be lost.  A call of the gate is two steps here, up to           *)
(* mark_verified and the publish after it; CaptchaGate has its inside.     *)
(***************************************************************************)
EXTENDS Naturals

CONSTANTS
    Pages, MaxTrajectory, MaxInputs, MaxKeyed,
    Handlers, Standing,
    Kinds,          \* the captchas to check: "click" (none), "pow", "panel"
    MinPoints,      \* min_fingerprint_points ...
    MaxPoints,      \* ... and max_fingerprint_points, scaled down
    MaxAttempts,    \* max_attempts of the provider
    MaxReloads,     \* bound on reloads of a page
    MaxFaults       \* bound on lost requests, crashes and callbacks that throw

ASSUME SessionAssumption ==
    /\ Standing \subseteq Handlers
    /\ Kinds \subseteq {"click", "pow", "panel"}
    /\ {MinPoints, MaxPoints, MaxAttempts} \subseteq Nat \ {0}
    /\ MaxTrajectory \in Nat \ {0}
    /\ {MaxInputs, MaxKeyed, MaxReloads, MaxFaults} \subseteq Nat

VARIABLES
    page,                       \* Widget's
    listening, tasks, handled,  \* Transport's
    kind,           \* the link's captcha
    link,           \* the link: is it verified, has it expired
    guesses,        \* wrong answers so far; the challenge goes with a right one
    solved,
    seen,           \* the fingerprints recorded
    info,           \* the answer to each page's GET, "asked" if there is none on its way
    requests,       \* the POSTs under way
    loads,          \* how often each page was reloaded
    faults,
    crashed         \* the process died between mark_verified and the last standing handler

transportVars == <<listening, tasks, handled>>
serverVars == <<link, guesses, solved, seen>>
faultVars == <<faults, crashed>>
vars == <<page, transportVars, kind, serverVars, info, requests, loads, faultVars>>

W == INSTANCE Widget
T == INSTANCE Transport

Init ==
    /\ page = [p \in Pages |-> W!NewPage(0, 0)]
    /\ T!TransportInit
    /\ kind \in Kinds
    /\ link = [verified |-> FALSE, gone |-> FALSE]
    /\ guesses = 0
    /\ solved = FALSE
    /\ seen = {}
    /\ info = [p \in Pages |-> "asked"]
    /\ requests = {}
    /\ loads = [p \in Pages |-> 0]
    /\ faults = 0
    /\ crashed = FALSE

-----------------------------------------------------------------------------
\* The definitions named ..._Mut are broken variants of the definition that follows
\* them, each a slip somebody could make in that code; the properties below are
\* checked to catch them.

\* The visitor, and the page by itself.
UserActs(p) ==
    /\ W!Move(p) \/ W!BoxClick(p) \/ \E a \in {"right", "wrong"} : W!Submit(p, a)
    /\ UNCHANGED <<transportVars, kind, serverVars, info, requests, loads, faultVars>>

Solve(p) ==
    /\ W!Solve(p)
    /\ UNCHANGED <<transportVars, kind, serverVars, info, requests, loads, faultVars>>

Rearm(p) ==
    /\ W!Rearm(p)
    /\ UNCHANGED <<transportVars, kind, serverVars, info, requests, loads, faultVars>>

Movement_MutDropsLast(p) ==
    LET points == page[p].frozen.last + 1 - page[p].frozen.first
    IN  IF points < MinPoints THEN <<>>
        ELSE <<p, page[p].frozen.first,
               IF points >= MaxPoints THEN MaxPoints - 1 ELSE points>>

\* The POST of runVerification; movement stands for fingerprint_trajectory, which movements
\* of two pages or from two first samples never share.
Movement(p) ==
    LET points == page[p].frozen.last + 1 - page[p].frozen.first
    IN  IF points < MinPoints THEN <<>>
        ELSE <<p, page[p].frozen.first,
               IF points > MaxPoints THEN MaxPoints ELSE points>>

Send(p) ==
    /\ W!Send(p)
    /\ requests' = requests \union
         {[page |-> p, load |-> loads[p], response |-> page[p].captchaResponse,
           movement |-> Movement(p), at |-> "sent", reply |-> "none"]}
    /\ UNCHANGED <<transportVars, kind, serverVars, info, loads, faultVars>>

\* Answers that are still on their way go with the page.
Reload(p) ==
    /\ loads[p] < MaxReloads
    /\ loads' = [loads EXCEPT ![p] = @ + 1]
    /\ W!Reload(p)
    /\ info' = [info EXCEPT ![p] = "asked"]
    /\ requests' = {r \in requests : r.page = p => r.at \in {"sent", "marked"}}
    /\ UNCHANGED <<transportVars, kind, serverVars, faultVars>>

\* The page gets the answer to its GET ...
LoadInfo(p) ==
    /\ W!LoadInfo(p, info[p])
    /\ info' = [info EXCEPT ![p] = "asked"]
    /\ UNCHANGED <<transportVars, kind, serverVars, requests, loads, faultVars>>

\* ... and the one to its POST, or none.
Receive(r) ==
    /\ r \in requests
    /\ \/ r.at = "replied" /\ W!Result(r.page, r.reply = "verified")
       \/ r.at = "lost" /\ W!PostFails(r.page)
    /\ requests' = requests \ {r}
    /\ UNCHANGED <<transportVars, kind, serverVars, info, loads, faultVars>>

-----------------------------------------------------------------------------
\* An answer that the page has not waited for is dropped.
Moved(r, at, reply) ==
    LET moved == [r EXCEPT !.at = at, !.reply = reply]
    IN  requests' = (requests \ {r}) \union
                        (IF at = "marked" \/ r.load = loads[r.page] THEN {moved} ELSE {})

GetInfo_MutConflates(p) ==
    /\ page[p].infoDue
    /\ info[p] = "asked"
    /\ info' = [info EXCEPT ![p] = IF link.gone \/ link.verified THEN "verified" ELSE kind]
    /\ UNCHANGED <<page, transportVars, kind, serverVars, requests, loads, faultVars>>

\* GET /gate/{token}: 404 once the link is gone.
GetInfo(p) ==
    /\ page[p].infoDue
    /\ info[p] = "asked"
    /\ info' = [info EXCEPT ![p] = IF link.gone THEN "missing"
                                   ELSE IF link.verified THEN "verified" ELSE kind]
    /\ UNCHANGED <<page, transportVars, kind, serverVars, requests, loads, faultVars>>

\* POST /gate/{token}/verify, turned away by a limiter: 429, whose body says nothing of
\* "verified".
Throttle(r) ==
    /\ r \in requests
    /\ r.at = "sent"
    /\ Moved(r, "replied", "refused")
    /\ UNCHANGED <<page, transportVars, kind, serverVars, info, loads, faultVars>>

\* CaptchaGate.verify waits for the link's lock, and looks the link up.
Locked == \E r \in requests : r.at = "marked"

Arrived(r) ==
    /\ r \in requests
    /\ r.at = "sent"
    /\ ~ Locked

\* No link, or one that is verified already.
VerifyDone(r) ==
    /\ Arrived(r)
    /\ link.gone \/ link.verified
    /\ Moved(r, "replied", IF link.gone THEN "refused" ELSE "verified")
    /\ UNCHANGED <<page, transportVars, kind, serverVars, info, loads, faultVars>>

Open(r) == Arrived(r) /\ ~ link.gone /\ ~ link.verified

\* RepeatedMovementCheck refuses a movement that is recorded ...
Repeated(r) == r.movement \in seen

VerifyRepeated(r) ==
    /\ Open(r)
    /\ Repeated(r)
    /\ Moved(r, "replied", "repeated")
    /\ UNCHANGED <<page, transportVars, kind, serverVars, info, loads, faultVars>>

\* ... and records it before the captcha is looked at.
Record(r) == seen' = seen \union ({r.movement} \ {<<>>})

VerifyWrong(r) ==
    /\ Open(r)
    /\ ~ Repeated(r)
    /\ Record(r)
    /\ kind # "click"
    /\ r.response # "right" \/ solved \/ guesses >= MaxAttempts
    /\ guesses' = IF r.response = "wrong" /\ guesses < MaxAttempts THEN guesses + 1
                  ELSE guesses
    /\ Moved(r, "replied", "refused")
    /\ UNCHANGED <<page, transportVars, kind, link, solved, info, loads, faultVars>>

\* All checks pass: mark_verified.
VerifyRight(r) ==
    /\ Open(r)
    /\ ~ Repeated(r)
    /\ Record(r)
    /\ kind # "click" => r.response = "right" /\ ~ solved /\ guesses < MaxAttempts
    /\ solved' = TRUE
    /\ link' = [link EXCEPT !.verified = TRUE]
    /\ Moved(r, "marked", "none")
    /\ UNCHANGED <<page, transportVars, kind, guesses, info, loads, faultVars>>

\* publish, and the reply.
Publish(r) ==
    /\ r \in requests
    /\ r.at = "marked"
    /\ T!Publish("captcha_verified")
    /\ Moved(r, "replied", "verified")
    /\ UNCHANGED <<page, kind, serverVars, info, loads, faultVars>>

RunHandler(task) ==
    /\ T!RunHandler(task)
    /\ UNCHANGED <<page, kind, serverVars, info, requests, loads, faultVars>>

\* A part of the bot comes and goes.
Resubscribe(h) ==
    /\ T!Subscribe(h) \/ T!Unsubscribe(h)
    /\ UNCHANGED <<page, kind, serverVars, info, requests, loads, faultVars>>

-----------------------------------------------------------------------------
\* The TTL of the link passes.
Expire ==
    /\ ~ link.gone
    /\ link' = [link EXCEPT !.gone = TRUE]
    /\ UNCHANGED <<page, transportVars, kind, guesses, solved, seen, info, requests, loads,
                   faultVars>>

\* A POST or its answer is lost (or the answer is no JSON: a 500).
LosePost(r) ==
    /\ faults < MaxFaults
    /\ faults' = faults + 1
    /\ r \in requests
    /\ r.at \in {"sent", "replied"}
    /\ Moved(r, "lost", "none")
    /\ UNCHANGED <<page, transportVars, kind, serverVars, info, loads, crashed>>

\* A GET or its answer is lost.
LoseGet(p) ==
    /\ faults < MaxFaults
    /\ faults' = faults + 1
    /\ page[p].infoDue
    /\ info[p] # "unreachable"
    /\ info' = [info EXCEPT ![p] = "unreachable"]
    /\ UNCHANGED <<page, transportVars, kind, serverVars, requests, loads, crashed>>

\* The page's callback throws.
CallbackThrows(r) ==
    /\ faults < MaxFaults
    /\ faults' = faults + 1
    /\ r \in requests
    /\ r.at = "replied" /\ r.reply # "verified"
    /\ W!ResultThrows(r.page)
    /\ requests' = requests \ {r}
    /\ UNCHANGED <<transportVars, kind, serverVars, info, loads, crashed>>

\* The process dies and comes back, with what the SQL stores hold.
Crash ==
    /\ faults < MaxFaults
    /\ faults' = faults + 1
    /\ crashed' = (crashed \/ (\E task \in tasks : task.to \in Standing)
                         \/ (\E r \in requests : r.at = "marked"))
    /\ T!Restart
    /\ requests' = {IF r.at = "marked" THEN [r EXCEPT !.at = "lost"] ELSE r :
            r \in {q \in requests : q.at = "marked" => q.load = loads[q.page]}}
    /\ UNCHANGED <<page, kind, serverVars, info, loads>>

PageStep(p) == Solve(p) \/ Rearm(p) \/ Send(p) \/ GetInfo(p) \/ LoadInfo(p)
Verify(r) == VerifyDone(r) \/ VerifyRepeated(r) \/ VerifyWrong(r) \/ VerifyRight(r)
PostStep(r) == Verify(r) \/ Publish(r) \/ Receive(r)

Next ==
    \/ \E p \in Pages : UserActs(p) \/ PageStep(p) \/ Reload(p) \/ LoseGet(p)
    \/ \E r \in requests : PostStep(r) \/ Throttle(r) \/ LosePost(r) \/ CallbackThrows(r)
    \/ \E task \in tasks : RunHandler(task)
    \/ \E h \in Handlers \ Standing : Resubscribe(h)
    \/ Expire
    \/ Crash

\* Timers fire, the server answers, what is not lost arrives, tasks are run; the visitor
\* and the faults owe nothing.  (Each request is a task of its own; that those of a page,
\* which are few, get on together is all that is assumed.)
Fairness ==
    /\ \A p \in Pages : WF_vars(PageStep(p))
    /\ \A p \in Pages : WF_vars(\E r \in requests : r.page = p /\ PostStep(r))
    /\ \A h \in Standing : WF_vars(\E task \in tasks : task.to = h /\ RunHandler(task))

Spec == Init /\ [][Next]_vars /\ Fairness

-----------------------------------------------------------------------------
(* Properties *)

\* A page is green, and its callback is told so, only if the link really was verified:
\* whatever was lost, reloaded or restarted on the way.  (widget.js believes the answers
\* to its POST and to its GET; the process may die between mark_verified and the reply.)
GreenIsVerified ==
    \A p \in Pages :
        page[p].mark = "ok" \/ page[p].called \in {"success", "more"} => link.verified

\* widget.js: "Once it's green, it stays green", until a reload; and the page's callback,
\* which may redirect or submit a form, gets nothing after the good news.  This needs the
\* info to arrive before the first click.
GreenStaysGreen ==
    [][\A p \in Pages : page[p].mark = "ok" /\ loads'[p] = loads[p] /\ ~ page'[p].late =>
           /\ page'[p].mark = "ok"
           /\ page'[p].called = page[p].called]_vars

\* The same without that condition.  (The code does not keep this: an answer to the GET
\* that is slower than the POST calls back a second time, and the timer of a failure
\* clears a box that the GET has turned green.)
GreenStaysGreenLate ==
    [][\A p \in Pages : page[p].mark = "ok" /\ loads'[p] = loads[p] =>
           /\ page'[p].mark = "ok"
           /\ page'[p].called = page[p].called]_vars

\* A retry is refused as a repeated movement only if its fingerprint is full, or if the
\* visitor has not touched the pointer since the attempt before (the button was pressed
\* by keyboard or an assistive tool): any sample more makes a shorter movement another
\* one (trackMovement, fingerprint_trajectory), also across reloads and lost answers.
RepeatedIsFullOrStill ==
    \A r \in requests : r.reply = "repeated" => r.movement[3] = MaxPoints \/ page[r.page].still

\* widget.js: re-armed "so a genuine retry (wrong math answer, a sloppy trace) is still
\* possible".  (The code does not keep this under a RepeatedMovementCheck: samples are
\* kept across the failure, and the first MaxPoints of them are still the same; or all of
\* them, if the retry is made by keyboard.)
GenuineRetryIsJudged ==
    \A r \in requests : r.response = "right" => r.reply # "repeated"

\* A page that is checking comes to an end, green or ready for another click, unless its
\* own request failed or its callback threw: whatever happens to the server, to the other
\* pages and to the requests of earlier loads.
CheckingEnds ==
    \A p \in Pages :
        page[p].busy ~> ~ page[p].busy \/ page[p].verified \/ page[p].post = "broken"

\* Every handler that the bot subscribed hears of the success, unless the process died
\* between mark_verified and the run of the last such handler; a crash before or after
\* excuses nothing.
BotIsTold ==
    \A h \in Standing : link.verified ~> handled[h] = 1 \/ crashed
=============================================================================
