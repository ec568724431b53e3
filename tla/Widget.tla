------------------------------- MODULE Widget -------------------------------
(***************************************************************************)
(* widget.js on its pages: the checkbox, the panel of a challenge, the     *)
(* buffer of pointer samples, and runVerification with its delays.  What   *)
(* the server answers is a parameter; Session says where it comes from.    *)
(* Labels are left out.                                                    *)
(***************************************************************************)
EXTENDS Naturals

CONSTANTS
    Pages,          \* the pages that show the widget of one link
    MaxTrajectory,  \* MAX_TRAJECTORY, scaled down
    MaxInputs,      \* bound on the pointer samples and the unsampled clicks of a page ...
    MaxKeyed        \* ... and on the unsampled clicks alone

VARIABLE page

\* A page as the constructor leaves it.  Samples are numbered, also across reloads;
\* trajectory is the range of those in the buffer, keys the number of clicks without one.
NewPage(samples, keys) ==
    [infoDue |-> TRUE,              \* loadInfo waits for its answer
     needsExplicitAnswer |-> FALSE,
     panel |-> FALSE,               \* the challenge's panel is shown
     locked |-> FALSE,              \* boxEl takes no pointer events
     captchaResponse |-> "none",
     busy |-> FALSE,
     verified |-> FALSE,
     mark |-> "none",               \* the checkbox: "ok" is green, "fail" red
     post |-> "none",               \* runVerification: "delay", "sent", "rearm"; or
                                    \* "broken", when an exception has ended it
     trajectory |-> [first |-> samples + 1, last |-> samples],
     keys |-> keys,
     frozen |-> [first |-> samples + 1, last |-> samples],   \* in frozenSignals
     still |-> FALSE,               \* no sample came between the last two freezes
     called |-> "never",             \* what the page's callback was last given:
                                    \* "failure", "success"; "more" after a success
     late |-> FALSE]                \* the info came after a verification had begun

Begun(p) == page[p].busy \/ page[p].called # "never"

-----------------------------------------------------------------------------
\* The definitions named ..._Mut are broken variants of the definition that follows
\* them, each a slip somebody could make in that code; Session's properties are checked
\* to catch them.

Become(p, new) == page' = [page EXCEPT ![p] = new]

\* trackMovement's push: the buffer keeps the last MaxTrajectory samples.
Sampled(p) ==
    LET last == page[p].trajectory.last + 1
        full == last - page[p].trajectory.first = MaxTrajectory
        kept == IF full THEN page[p].trajectory.first + 1 ELSE page[p].trajectory.first
    IN  [page[p] EXCEPT !.trajectory = [first |-> kept, last |-> last]]

Within(now) == now.trajectory.last + now.keys <= MaxInputs /\ now.keys <= MaxKeyed

\* Moves during a verification are taken with those after it: nothing reads the buffer
\* in between, or once the page is verified.
Move(p) ==
    /\ Within(Sampled(p))
    /\ ~ page[p].busy /\ ~ page[p].verified
    /\ Become(p, Sampled(p))

\* A click: pointerdown has made it a sample, unless it comes from the keyboard (Enter or
\* Space on a button) or from an assistive tool, which leave the buffer as it is.
Keyed(p) == [page[p] EXCEPT !.keys = @ + 1]

Pressed(p) == {now \in {Sampled(p), Keyed(p)} : Within(now)}

\* runVerification up to its delay: nothing if the page is busy or verified.
Triggered(now) ==
    IF now.busy \/ now.verified THEN now
    ELSE [now EXCEPT !.busy = TRUE, !.post = "delay", !.frozen = now.trajectory,
                     !.still = now.frozen.last = now.trajectory.last]

\* onBoxClick; idle when a panel has its own button, and out of a pointer's reach when
\* locked.  (An idle click is a sample like a move, or nothing.)
BoxClick(p) ==
    /\ ~ page[p].busy /\ ~ page[p].verified
    /\ ~ page[p].needsExplicitAnswer
    /\ ~ page[p].locked
    /\ \E now \in Pressed(p) : Become(p, Triggered(now))

\* The panel's button: the answer is taken over even while a verification is under way.
Submit(p, answer) ==
    /\ page[p].panel
    /\ \E now \in Pressed(p) :
          Become(p, Triggered([now EXCEPT !.captchaResponse = answer]))

\* After 600 ms the request goes out, with the answer of now and the signals of then.
Send(p) ==
    /\ page[p].post = "delay"
    /\ Become(p, [page[p] EXCEPT !.post = "sent"])

Called(now, result) == IF now.called \in {"success", "more"} THEN "more" ELSE result

Succeeded(now) ==
    [now EXCEPT !.verified = TRUE, !.mark = "ok", !.called = Called(now, "success")]

Failed(now) == [now EXCEPT !.mark = "fail", !.called = Called(now, "failure")]

Result_MutNoRearm(p, verified) ==
    /\ page[p].post = "sent"
    /\ Become(p, [IF verified THEN [Succeeded(page[p]) EXCEPT !.panel = FALSE]
                  ELSE Failed(page[p])
                  EXCEPT !.post = "none"])

Result_MutRearmsAlways(p, verified) ==
    /\ page[p].post = "sent"
    /\ Become(p, [IF verified THEN [Succeeded(page[p]) EXCEPT !.panel = FALSE]
                  ELSE Failed(page[p])
                  EXCEPT !.post = "rearm"])

\* The answer to the request: green for good, or red until the page is re-armed.
Result(p, verified) ==
    /\ page[p].post = "sent"
    /\ Become(p, IF verified
                 THEN [Succeeded(page[p]) EXCEPT !.panel = FALSE, !.post = "none"]
                 ELSE [Failed(page[p]) EXCEPT !.post = "rearm"])

\* The timer of a failure, 2500 ms later; it does not look at what the page shows by then.
Rearm(p) ==
    /\ page[p].post = "rearm"
    /\ Become(p, [page[p] EXCEPT !.post = "none", !.busy = FALSE, !.mark = "none"])

\* The page's callback throws on a failure: the timer is never set.  (After a success
\* nothing is left to do.)
ResultThrows(p) ==
    /\ page[p].post = "sent"
    /\ Become(p, [Failed(page[p]) EXCEPT !.post = "broken"])

\* fetch() or json() rejects: runVerification ends there.
PostFails(p) ==
    /\ page[p].post = "sent"
    /\ Become(p, [page[p] EXCEPT !.post = "broken"])

-----------------------------------------------------------------------------
\* showFatalError changes the label only: the click listener it removes was never added.
ShowFatalError(now) == now

\* renderChallenge: an image, a trace or an embedded widget has a panel; a proof of work
\* locks the box until it is found.
RenderChallenge(now, kind) ==
    [now EXCEPT !.panel = kind = "panel", !.needsExplicitAnswer = kind = "panel",
                !.locked = kind = "pow"]

\* loadInfo, with what came back.
LoadInfo(p, info) ==
    LET now == [page[p] EXCEPT !.infoDue = FALSE, !.late = Begun(p)]
    IN  /\ page[p].infoDue
        /\ \/ info = "verified" /\ Become(p, [Succeeded(now) EXCEPT !.busy = TRUE])
           \/ info \in {"missing", "unreachable"} /\ Become(p, ShowFatalError(now))
           \/ info \in {"panel", "pow"} /\ Become(p, RenderChallenge(now, info))
           \/ info = "click" /\ Become(p, now)

\* The proof of work is found.
Solve(p) ==
    /\ page[p].locked
    /\ Become(p, [page[p] EXCEPT !.locked = FALSE, !.captchaResponse = "right"])

\* The visitor reloads the page.
Reload(p) == Become(p, NewPage(page[p].trajectory.last, page[p].keys))
=============================================================================
