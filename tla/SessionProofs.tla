---------------------------- MODULE SessionProofs ----------------------------
(***************************************************************************)
(* Proofs about Session, for any pages, captchas, handlers and bounds, and *)
(* for any losses, reloads and crashes: that a green page tells the truth, *)
(* and that a visitor who moves the pointer between two attempts is not    *)
(* refused for a repeated movement, unless the movement is a long one.     *)
(***************************************************************************)
EXTENDS Session, Integers, TLAPS

Fields == {"infoDue", "needsExplicitAnswer", "panel", "locked", "captchaResponse", "busy",
           "verified", "mark", "post", "trajectory", "keys", "frozen", "still", "called",
           "late"}

\* A page: what it froze for a request is a past of its buffer, and a request that is about
\* to be sent, or waited for, makes it busy.
PageOK(now) ==
    /\ DOMAIN now = Fields
    /\ {now.trajectory.first, now.trajectory.last} \subseteq Nat
    /\ {now.frozen.first, now.frozen.last} \subseteq Nat
    /\ now.trajectory.first <= now.trajectory.last + 1
    /\ now.frozen.first <= now.trajectory.first
    /\ now.frozen.last <= now.trajectory.last
    /\ now.post \in {"delay", "sent"} => now.busy

\* The last sample that a request of the page may have ended with: the one about to be sent
\* ends with a later one, unless the pointer was still.
Reached(now) ==
    IF now.post = "delay" /\ ~ now.still THEN now.frozen.last - 1 ELSE now.frozen.last

Green(now) == now.mark = "ok" \/ now.called \in {"success", "more"}

RequestFields == {"page", "load", "response", "movement", "at", "reply"}
Movements == Pages \X Nat \X (1..MaxPoints)

\* fingerprint_trajectory leaves nothing of a short movement out, so that its last sample
\* tells it from every other one of its page.
Short(m) == m \in Movements /\ m[3] < MaxPoints
Ends(m) == m[2] + m[3] - 1

Sent == {r \in requests : r.at = "sent"}
Current(r) == r.load = loads[r.page]

Shape ==
    /\ DOMAIN page = Pages
    /\ DOMAIN info = Pages
    /\ DOMAIN link = {"verified", "gone"}
    /\ \A p \in Pages : PageOK(page[p])
    /\ \A r \in requests :
          /\ DOMAIN r = RequestFields
          /\ r.page \in Pages
          /\ r.movement \in Movements \union {<<>>}
    /\ seen \subseteq Movements

\* Whoever says that the link is verified, in whichever message, is right.
Truthful ==
    /\ \A p \in Pages : Green(page[p]) \/ info[p] = "verified" => link.verified
    /\ \A r \in requests : r.at = "marked" \/ r.reply = "verified" => link.verified

\* A page waits for one request, the last it has sent; the answers to those it had sent
\* before it was reloaded are dropped.
Waiting ==
    /\ loads \in [Pages -> Nat]
    /\ \A r \in requests :
          /\ r.load \in Nat /\ r.load <= loads[r.page]
          /\ Current(r) => page[r.page].post = "sent"
          /\ r.at \in {"sent", "marked"} \/ Current(r)
          /\ r.reply = "repeated" => r.at = "replied"
    /\ \A r, q \in requests : r.page = q.page /\ Current(r) /\ Current(q) => r = q

\* Short movements that were sent, recorded or not, end with samples that the page has
\* left behind, and begin before those of a page that was reloaded since.
Behind ==
    /\ \A m \in seen : Short(m) => Ends(m) <= Reached(page[m[1]])
    /\ \A r \in Sent : Short(r.movement) =>
          /\ r.movement[1] = r.page
          /\ Ends(r.movement) <= Reached(page[r.page])
          /\ Current(r) \/ r.movement[2] < page[r.page].frozen.first

\* A short movement is in one request, which has not been judged, unless the pointer was
\* still.
Fresh ==
    /\ \A r \in Sent :
          Current(r) /\ Short(r.movement) /\ ~ page[r.page].still => r.movement \notin seen
    /\ \A r, q \in Sent : Short(r.movement) /\ r.movement = q.movement => r = q

Judged ==
    \A r \in requests : r.reply = "repeated" =>
        r.movement[3] = MaxPoints \/ page[r.page].still

SessionInv == Shape /\ Truthful /\ Waiting /\ Behind /\ Fresh /\ Judged

IInv == kind \in Kinds /\ SessionInv

-----------------------------------------------------------------------------
(* What the widget does to a page *)

\* Page p goes on, the others stay; it turns green only on good news.
Turns(p, good) ==
    /\ DOMAIN page' = Pages
    /\ \A q \in Pages \ {p} : page'[q] = page[q]
    /\ PageOK(page'[p])
    /\ Reached(page[p]) <= Reached(page'[p])
    /\ page[p].frozen.first <= page'[p].frozen.first
    /\ Green(page'[p]) => Green(page[p]) \/ good

\* It waits on, if it does.
Waits(p) ==
    page[p].post = "sent" => page'[p].post = "sent" /\ page'[p].still = page[p].still

\* What makes a new page one that its page may turn into.
Follows(now, new) ==
    /\ PageOK(new)
    /\ Reached(now) <= Reached(new)
    /\ now.frozen.first <= new.frozen.first
WaitsOn(now, new) ==
    now.post = "sent" => new.post = "sent" /\ new.still = now.still

LEMMA Becomes ==
    ASSUME Shape, NEW p \in Pages, NEW new, W!Become(p, new),
           NEW good \in BOOLEAN,
           Follows(page[p], new), Green(new) => Green(page[p]) \/ good
    PROVE  /\ Turns(p, good) /\ page'[p] = new
           /\ WaitsOn(page[p], new) => Waits(p)
<1>1. page' = [page EXCEPT ![p] = new]
  BY DEF W!Become
<1>2. DOMAIN page' = Pages /\ page'[p] = new /\ \A q \in Pages \ {p} : page'[q] = page[q]
  BY <1>1 DEF Shape
<1>. QED BY <1>2 DEF Turns, Follows, WaitsOn, Waits

\* One sample more.
LEMMA Samples ==
    ASSUME NEW p \in Pages, PageOK(page[p])
    PROVE  LET new == W!Sampled(p)
           IN  /\ PageOK(new)
               /\ \A f \in Fields \ {"trajectory"} : new[f] = page[p][f]
               /\ new.trajectory.last >= page[p].trajectory.last
<1>. DEFINE now == page[p]
            last == now.trajectory.last + 1
            kept == IF last - now.trajectory.first = MaxTrajectory
                    THEN now.trajectory.first + 1 ELSE now.trajectory.first
            new == W!Sampled(p)
<1>1. new = [now EXCEPT !.trajectory = [first |-> kept, last |-> last]]
  BY DEF W!Sampled
<1>2. /\ DOMAIN new = Fields
      /\ \A f \in Fields \ {"trajectory"} : new[f] = now[f]
      /\ new.trajectory.first = kept /\ new.trajectory.last = last
  BY <1>1 DEF PageOK, Fields
<1>3. /\ kept \in Nat /\ last \in Nat /\ kept <= last + 1
      /\ now.trajectory.first <= kept /\ now.trajectory.last <= last
  BY DEF PageOK
<1>. HIDE DEF new, kept, last
<1>4. /\ new.frozen = now.frozen /\ new.post = now.post /\ new.busy = now.busy
  BY <1>2 DEF Fields
<1>5. PageOK(new)
  BY <1>2, <1>3, <1>4 DEF PageOK
<1>. QED BY <1>2, <1>3, <1>5 DEF new

\* A click, with or without a sample.
LEMMA Presses ==
    ASSUME NEW p \in Pages, PageOK(page[p]), NEW pressed \in W!Pressed(p)
    PROVE  /\ PageOK(pressed)
           /\ \A f \in Fields \ {"trajectory", "keys"} : pressed[f] = page[p][f]
           /\ pressed.trajectory.last >= page[p].trajectory.last
<1>1. CASE pressed = W!Sampled(p)
  BY <1>1, Samples
<1>2. CASE pressed = W!Keyed(p)
  <2>1. pressed = [page[p] EXCEPT !.keys = @ + 1]
    BY <1>2 DEF W!Keyed
  <2>2. /\ DOMAIN pressed = Fields
        /\ \A f \in Fields \ {"keys"} : pressed[f] = page[p][f]
    BY <2>1 DEF PageOK
  <2>3. /\ pressed.trajectory = page[p].trajectory /\ pressed.frozen = page[p].frozen
        /\ pressed.post = page[p].post /\ pressed.busy = page[p].busy
    BY <2>2 DEF Fields
  <2>. QED BY <2>2, <2>3 DEF PageOK
<1>. QED BY <1>1, <1>2 DEF W!Pressed

\* A click, an answer and runVerification: what is frozen ends with a later sample, unless
\* the pointer was still.
LEMMA Triggers ==
    ASSUME NEW p \in Pages, PageOK(page[p]), NEW pressed, PageOK(pressed),
           \A f \in Fields \ {"trajectory", "keys", "captchaResponse"} : pressed[f] = page[p][f],
           pressed.trajectory.last >= page[p].trajectory.last
    PROVE  LET new == W!Triggered(pressed)
           IN  /\ Follows(page[p], new) /\ WaitsOn(page[p], new)
               /\ Green(new) => Green(page[p])
<1>. DEFINE now == page[p]
            new == W!Triggered(pressed)
<1>1. /\ pressed.post = now.post /\ pressed.busy = now.busy /\ pressed.still = now.still
      /\ pressed.frozen = now.frozen /\ pressed.mark = now.mark
      /\ pressed.called = now.called
  BY DEF Fields
<1>2. CASE pressed.busy \/ pressed.verified
  <2>1. new = pressed
    BY <1>2 DEF W!Triggered
  <2>. HIDE DEF new
  <2>2. Follows(now, new) /\ WaitsOn(now, new)
    BY <1>1, <2>1 DEF PageOK, Reached, Follows, WaitsOn
  <2>. QED BY <1>1, <2>1, <2>2 DEF new, Green
<1>3. CASE ~ (pressed.busy \/ pressed.verified)
  <2>1. new = [pressed EXCEPT !.busy = TRUE, !.post = "delay", !.frozen = pressed.trajectory,
                              !.still = pressed.frozen.last = pressed.trajectory.last]
    BY <1>3 DEF W!Triggered
  <2>2. /\ DOMAIN new = Fields /\ new.busy /\ new.post = "delay"
        /\ new.frozen = pressed.trajectory /\ new.trajectory = pressed.trajectory
        /\ pressed.frozen.last = pressed.trajectory.last \/ ~ new.still
        /\ pressed.frozen.last # pressed.trajectory.last \/ new.still
        /\ new.mark = pressed.mark /\ new.called = pressed.called
    BY <2>1 DEF PageOK, Fields
  <2>. HIDE DEF new
  <2>3. PageOK(new) /\ now.frozen.first <= new.frozen.first
    BY <1>1, <2>2 DEF PageOK
  <2>4. now.post \notin {"delay", "sent"}
    BY <1>1, <1>3 DEF PageOK
  <2>5. now.frozen.last <= pressed.trajectory.last
        /\ now.frozen.last \in Nat /\ pressed.trajectory.last \in Nat
    BY <1>1 DEF PageOK
  <2>6. Reached(now) <= Reached(new)
    <3>1. Reached(now) = now.frozen.last
      BY <2>4 DEF Reached
    <3>2. Reached(new) = IF new.still THEN pressed.trajectory.last
                         ELSE pressed.trajectory.last - 1
      BY <2>2 DEF Reached
    <3>3. new.still <=> now.frozen.last = pressed.trajectory.last
      BY <1>1, <2>2
    <3>. QED BY <2>5, <3>1, <3>2, <3>3
  <2>. QED BY <1>1, <2>2, <2>3, <2>4, <2>6 DEF new, Green, Follows, WaitsOn
<1>. QED BY <1>2, <1>3

LEMMA PageActs ==
    ASSUME Shape, NEW p \in Pages,
           W!Move(p) \/ W!BoxClick(p) \/ \E a \in {"right", "wrong"} : W!Submit(p, a)
    PROVE  Turns(p, FALSE) /\ Waits(p)
<1>1. PageOK(page[p])
  BY DEF Shape
<1>2. CASE W!Move(p)
  <2>. DEFINE sampled == W!Sampled(p)
  <2>1. W!Become(p, sampled)
    BY <1>2 DEF W!Move
  <2>2. /\ PageOK(sampled)
        /\ \A f \in Fields \ {"trajectory"} : sampled[f] = page[p][f]
    BY <1>1, Samples
  <2>. HIDE DEF sampled
  <2>3. /\ sampled.post = page[p].post /\ sampled.mark = page[p].mark
        /\ sampled.called = page[p].called /\ sampled.frozen = page[p].frozen
        /\ sampled.still = page[p].still
    BY <2>2 DEF Fields
  <2>4. Follows(page[p], sampled) /\ WaitsOn(page[p], sampled)
    BY <1>1, <2>2, <2>3 DEF PageOK, Reached, Follows, WaitsOn
  <2>. QED BY <2>1, <2>3, <2>4, Becomes DEF Green
<1>3. ASSUME W!BoxClick(p) PROVE Turns(p, FALSE) /\ Waits(p)
  <2>1. PICK pressed \in W!Pressed(p) : W!Become(p, W!Triggered(pressed))
    BY <1>3 DEF W!BoxClick
  <2>. DEFINE new == W!Triggered(pressed)
  <2>2. /\ Follows(page[p], new) /\ WaitsOn(page[p], new)
        /\ Green(new) => Green(page[p])
    BY <1>1, Presses, Triggers
  <2>3. W!Become(p, new)
    BY <2>1
  <2>. HIDE DEF new
  <2>. QED BY <2>2, <2>3, Becomes
<1>4. ASSUME NEW a, W!Submit(p, a) PROVE Turns(p, FALSE) /\ Waits(p)
  <2>1. PICK pressed \in W!Pressed(p) :
            W!Become(p, W!Triggered([pressed EXCEPT !.captchaResponse = a]))
    BY <1>4 DEF W!Submit
  <2>. DEFINE answered == [pressed EXCEPT !.captchaResponse = a]
              new == W!Triggered(answered)
  <2>2. /\ PageOK(pressed)
        /\ \A f \in Fields \ {"trajectory", "keys"} : pressed[f] = page[p][f]
        /\ pressed.trajectory.last >= page[p].trajectory.last
    BY <1>1, Presses
  <2>3. /\ DOMAIN answered = Fields
        /\ \A f \in Fields \ {"captchaResponse"} : answered[f] = pressed[f]
    BY <2>2 DEF PageOK
  <2>4. W!Become(p, new)
    BY <2>1
  <2>. HIDE DEF answered
  <2>5. /\ answered.trajectory = pressed.trajectory /\ answered.frozen = pressed.frozen
        /\ answered.post = pressed.post /\ answered.busy = pressed.busy
    BY <2>3 DEF Fields
  <2>6. PageOK(answered)
    BY <2>2, <2>3, <2>5 DEF PageOK
  <2>7. /\ Follows(page[p], new) /\ WaitsOn(page[p], new)
        /\ Green(new) => Green(page[p])
    BY <1>1, <2>2, <2>3, <2>5, <2>6, Triggers
  <2>. HIDE DEF new
  <2>. QED BY <2>4, <2>7, Becomes
<1>. QED BY <1>2, <1>3, <1>4

LEMMA PageSolves ==
    ASSUME Shape, NEW p \in Pages, W!Solve(p) PROVE Turns(p, FALSE) /\ Waits(p)
<1>. DEFINE new == [page[p] EXCEPT !.locked = FALSE, !.captchaResponse = "right"]
<1>1. W!Become(p, new)
  BY DEF W!Solve
<1>2. /\ DOMAIN new = Fields /\ new.trajectory = page[p].trajectory
      /\ new.frozen = page[p].frozen /\ new.post = page[p].post /\ new.busy = page[p].busy
      /\ new.mark = page[p].mark /\ new.called = page[p].called /\ new.still = page[p].still
  BY DEF Shape, PageOK, Fields
<1>. HIDE DEF new
<1>3. Follows(page[p], new) /\ WaitsOn(page[p], new)
  BY <1>2 DEF Shape, PageOK, Reached, Follows, WaitsOn
<1>. QED BY <1>1, <1>2, <1>3, Becomes DEF Green

LEMMA PageRearms ==
    ASSUME Shape, NEW p \in Pages, W!Rearm(p) PROVE Turns(p, FALSE) /\ Waits(p)
<1>. DEFINE new == [page[p] EXCEPT !.post = "none", !.busy = FALSE, !.mark = "none"]
<1>1. W!Become(p, new) /\ page[p].post = "rearm"
  BY DEF W!Rearm
<1>2. /\ DOMAIN new = Fields /\ new.trajectory = page[p].trajectory
      /\ new.frozen = page[p].frozen /\ new.post = "none"
      /\ new.mark = "none" /\ new.called = page[p].called
  BY DEF Shape, PageOK, Fields
<1>. HIDE DEF new
<1>3. Follows(page[p], new) /\ WaitsOn(page[p], new)
  BY <1>1, <1>2 DEF Shape, PageOK, Reached, Follows, WaitsOn
<1>. QED BY <1>1, <1>2, <1>3, Becomes DEF Green

\* What is sent ends with the sample that was frozen.
LEMMA PageSends ==
    ASSUME Shape, NEW p \in Pages, W!Send(p)
    PROVE  /\ Turns(p, FALSE)
           /\ page[p].post = "delay" /\ page'[p].post = "sent"
           /\ page'[p].still = page[p].still /\ page'[p].frozen = page[p].frozen
<1>. DEFINE new == [page[p] EXCEPT !.post = "sent"]
<1>1. W!Become(p, new) /\ page[p].post = "delay"
  BY DEF W!Send
<1>2. /\ DOMAIN new = Fields /\ new.trajectory = page[p].trajectory
      /\ new.frozen = page[p].frozen /\ new.post = "sent" /\ new.busy = page[p].busy
      /\ new.mark = page[p].mark /\ new.called = page[p].called /\ new.still = page[p].still
  BY DEF Shape, PageOK, Fields
<1>. HIDE DEF new
<1>3. Follows(page[p], new)
  BY <1>1, <1>2 DEF Shape, PageOK, Reached, Follows
<1>. QED BY <1>1, <1>2, <1>3, Becomes DEF Green

\* A page that is loaded again begins after all that it has sent.
LEMMA PageReloads ==
    ASSUME Shape, NEW p \in Pages, W!Reload(p)
    PROVE  Turns(p, FALSE) /\ Reached(page[p]) < page'[p].frozen.first
<1>. DEFINE new == W!NewPage(page[p].trajectory.last, page[p].keys)
<1>1. W!Become(p, new)
  BY DEF W!Reload
<1>2. /\ DOMAIN new = Fields
      /\ new.trajectory.first = page[p].trajectory.last + 1
      /\ new.trajectory.last = page[p].trajectory.last
      /\ new.frozen.first = page[p].trajectory.last + 1
      /\ new.frozen.last = page[p].trajectory.last
      /\ new.post = "none" /\ new.mark = "none" /\ new.called = "never"
  BY DEF W!NewPage, Fields
<1>. HIDE DEF new
<1>3. PageOK(new) /\ Reached(page[p]) <= Reached(new) /\ Reached(page[p]) < new.frozen.first
  BY <1>1, <1>2 DEF Shape, PageOK, Reached
<1>4. page[p].frozen.first <= new.frozen.first
  BY <1>2 DEF Shape, PageOK
<1>. QED BY <1>1, <1>2, <1>3, <1>4, Becomes DEF Green, Follows

LEMMA PageIsAnswered ==
    ASSUME Shape, NEW p \in Pages, NEW good \in BOOLEAN, W!Result(p, good)
    PROVE  Turns(p, good)
<1>. DEFINE now == page[p]
            new == IF good THEN [W!Succeeded(now) EXCEPT !.panel = FALSE, !.post = "none"]
                   ELSE [W!Failed(now) EXCEPT !.post = "rearm"]
<1>1. W!Become(p, new) /\ now.post = "sent"
  BY DEF W!Result
<1>2. /\ DOMAIN new = Fields /\ new.trajectory = now.trajectory
      /\ new.frozen = now.frozen /\ new.post \in {"none", "rearm"}
      /\ ~ good => new.mark = "fail" /\ new.called = W!Called(now, "failure")
  BY DEF Shape, PageOK, Fields, W!Succeeded, W!Failed
<1>. HIDE DEF new
<1>3. Follows(now, new)
  BY <1>1, <1>2 DEF Shape, PageOK, Reached, Follows
<1>4. Green(new) => Green(now) \/ good
  BY <1>2 DEF Green, W!Called
<1>. QED BY <1>1, <1>3, <1>4, Becomes

\* It hears nothing of use, or its callback throws.
LEMMA PageBreaks ==
    ASSUME Shape, NEW p \in Pages, W!PostFails(p) \/ W!ResultThrows(p) PROVE Turns(p, FALSE)
<1>. DEFINE now == page[p]
            new == [now EXCEPT !.post = "broken"]
            failed == [W!Failed(now) EXCEPT !.post = "broken"]
<1>1. (W!Become(p, new) \/ W!Become(p, failed)) /\ now.post = "sent"
  BY DEF W!PostFails, W!ResultThrows
<1>2. /\ DOMAIN new = Fields /\ new.trajectory = now.trajectory
      /\ new.frozen = now.frozen /\ new.post = "broken"
      /\ new.mark = now.mark /\ new.called = now.called
  BY DEF Shape, PageOK, Fields
<1>3. /\ DOMAIN failed = Fields /\ failed.trajectory = now.trajectory
      /\ failed.frozen = now.frozen /\ failed.post = "broken"
      /\ failed.mark = "fail" /\ failed.called = W!Called(now, "failure")
  BY DEF Shape, PageOK, Fields, W!Failed
<1>. HIDE DEF new, failed
<1>4. Follows(now, new) /\ (Green(new) => Green(now))
  BY <1>1, <1>2 DEF Shape, PageOK, Reached, Follows, Green
<1>5. Follows(now, failed) /\ (Green(failed) => Green(now))
  BY <1>1, <1>3 DEF Shape, PageOK, Reached, Follows, Green, W!Called
<1>. QED BY <1>1, <1>4, <1>5, Becomes

LEMMA PageIsInformed ==
    ASSUME Shape, NEW p \in Pages, NEW said, W!LoadInfo(p, said)
    PROVE  Turns(p, said = "verified") /\ Waits(p)
<1>. DEFINE now == [page[p] EXCEPT !.infoDue = FALSE, !.late = W!Begun(p)]
<1>1. /\ DOMAIN now = Fields /\ now.trajectory = page[p].trajectory
      /\ now.frozen = page[p].frozen /\ now.post = page[p].post /\ now.busy = page[p].busy
      /\ now.mark = page[p].mark /\ now.called = page[p].called /\ now.still = page[p].still
  BY DEF Shape, PageOK, Fields
<1>2. \/ said = "verified" /\ W!Become(p, [W!Succeeded(now) EXCEPT !.busy = TRUE])
      \/ W!Become(p, now)
      \/ W!Become(p, W!RenderChallenge(now, said))
  BY DEF W!LoadInfo, W!ShowFatalError
<1>. HIDE DEF now
<1>3. ASSUME NEW new, W!Become(p, new), DOMAIN new = Fields,
             new.trajectory = now.trajectory, new.frozen = now.frozen, new.post = now.post,
             new.still = now.still, new.busy \/ new.busy = now.busy,
             Green(new) => Green(now) \/ said = "verified"
      PROVE  Turns(p, said = "verified") /\ Waits(p)
  <2>1. Follows(page[p], new) /\ WaitsOn(page[p], new)
    BY <1>1, <1>3 DEF Shape, PageOK, Reached, Follows, WaitsOn
  <2>2. Green(now) => Green(page[p])
    BY <1>1 DEF Green
  <2>. QED BY <1>3, <2>1, <2>2, Becomes
<1>4. ASSUME said = "verified", W!Become(p, [W!Succeeded(now) EXCEPT !.busy = TRUE])
      PROVE  Turns(p, said = "verified") /\ Waits(p)
  <2>. DEFINE new == [W!Succeeded(now) EXCEPT !.busy = TRUE]
  <2>1. /\ DOMAIN new = Fields /\ new.trajectory = now.trajectory /\ new.still = now.still
        /\ new.frozen = now.frozen /\ new.post = now.post /\ new.busy = TRUE
    BY <1>1 DEF Fields, W!Succeeded
  <2>2. W!Become(p, new)
    BY <1>4
  <2>. HIDE DEF new
  <2>. QED BY <1>3, <1>4, <2>1, <2>2
<1>5. CASE W!Become(p, now)
  BY <1>1, <1>3, <1>5
<1>6. CASE W!Become(p, W!RenderChallenge(now, said))
  <2>. DEFINE new == W!RenderChallenge(now, said)
  <2>1. /\ DOMAIN new = Fields /\ new.trajectory = now.trajectory /\ new.still = now.still
        /\ new.frozen = now.frozen /\ new.post = now.post /\ new.busy = now.busy
        /\ new.mark = now.mark /\ new.called = now.called
    BY <1>1 DEF Fields, W!RenderChallenge
  <2>2. W!Become(p, new)
    BY <1>6
  <2>. HIDE DEF new
  <2>3. Green(new) => Green(now)
    BY <2>1 DEF Green
  <2>. QED BY <1>3, <2>1, <2>2, <2>3
<1>. QED BY <1>2, <1>4, <1>5, <1>6

-----------------------------------------------------------------------------
(* What a step does to the session *)

LEMMA SessionInit == Init => IInv
<1>. SUFFICES ASSUME Init PROVE SessionInv
  BY DEF Init, IInv
<1>1. /\ page = [p \in Pages |-> W!NewPage(0, 0)] /\ info = [p \in Pages |-> "asked"]
      /\ link = [verified |-> FALSE, gone |-> FALSE] /\ requests = {} /\ seen = {}
      /\ loads = [p \in Pages |-> 0]
  BY DEF Init
<1>2. PageOK(W!NewPage(0, 0)) /\ ~ Green(W!NewPage(0, 0))
  BY DEF W!NewPage, PageOK, Fields, Green
<1>3. Shape
  BY <1>1, <1>2 DEF Shape
<1>4. Truthful
  BY <1>1, <1>2 DEF Truthful
<1>. QED BY <1>1, <1>3, <1>4 DEF SessionInv, Waiting, Behind, Fresh, Judged, Sent

\* Movements and marks are of numbers.
LEMMA Ends_Type ==
    /\ \A m : Short(m) => m[1] \in Pages /\ m[2] \in Nat /\ m[2] <= Ends(m) /\ Ends(m) \in Int
    /\ Shape => \A q \in Pages : Reached(page[q]) \in Int /\ page[q].frozen.first \in Nat
<1>1. ASSUME NEW m, Short(m)
      PROVE  m[1] \in Pages /\ m[2] \in Nat /\ m[2] <= Ends(m) /\ Ends(m) \in Int
  <2>1. m[1] \in Pages /\ m[2] \in Nat /\ m[3] \in 1..MaxPoints /\ MaxPoints \in Nat
    BY <1>1, SessionAssumption DEF Short, Movements
  <2>. QED BY <2>1 DEF Ends
<1>2. ASSUME Shape, NEW q \in Pages
      PROVE  Reached(page[q]) \in Int /\ page[q].frozen.first \in Nat
  <2>1. page[q].frozen.first \in Nat /\ page[q].frozen.last \in Nat
    BY <1>2 DEF Shape, PageOK
  <2>. QED BY <2>1 DEF Reached
<1>. QED BY <1>1, <1>2

\* A page goes on, and nobody is asked anything more: it still waits, or for nobody.
LEMMA Quiet ==
    ASSUME SessionInv, NEW p \in Pages, NEW good, Turns(p, good), good => link.verified,
           requests' \subseteq requests, UNCHANGED <<link, seen>>,
           info' = info \/ info' = [info EXCEPT ![p] = "asked"],
           \/ Waits(p) /\ loads' = loads
           \/ loads' = loads /\ \A r \in requests' : r.page = p => ~ Current(r)
           \/ /\ loads' = [loads EXCEPT ![p] = @ + 1]
              /\ Reached(page[p]) < page'[p].frozen.first
              /\ \A r \in requests' : r.page = p => r.at \in {"sent", "marked"}
    PROVE  SessionInv'
<1>1. Sent' \subseteq Sent
  BY DEF Sent
<1>2. Shape'
  BY DEF SessionInv, Shape, Turns
<1>3. Truthful'
  BY DEF SessionInv, Shape, Truthful, Turns
<1>4. \A q \in Pages : /\ Reached(page[q]) \in Int /\ Reached(page'[q]) \in Int
                       /\ page[q].frozen.first \in Nat /\ page'[q].frozen.first \in Nat
  BY <1>2, Ends_Type DEF SessionInv, Shape, PageOK, Reached
<1>5. \A q \in Pages : /\ Reached(page[q]) <= Reached(page'[q])
                       /\ page[q].frozen.first <= page'[q].frozen.first
  BY <1>4 DEF Turns
\* Whose requests are waited for afterwards were so before, and their pages have not moved.
<1>6. \A r \in requests' : r.page \in Pages /\ r.load \in Nat /\ r.load <= loads[r.page]
  BY DEF SessionInv, Shape, Waiting
<1>7. \A q \in Pages : loads[q] \in Nat /\ loads'[q] \in Nat /\ loads[q] <= loads'[q]
  BY DEF SessionInv, Waiting
<1>8. ASSUME NEW r \in requests', Current(r)'
      PROVE  /\ Current(r) /\ page'[r.page].still = page[r.page].still
             /\ page'[r.page].post = "sent"
  <2>1. Current(r)
    BY <1>6, <1>7, <1>8 DEF Current
  <2>2. page[r.page].post = "sent"
    BY <2>1 DEF SessionInv, Waiting
  <2>3. r.page = p => Waits(p)
    <3>. SUFFICES ASSUME r.page = p, loads' = [loads EXCEPT ![p] = @ + 1] PROVE FALSE
      BY <2>1
    <3>1. loads'[p] = loads[p] + 1
      BY DEF SessionInv, Waiting
    <3>. QED BY <1>6, <1>7, <1>8, <3>1 DEF Current
  <2>. QED BY <1>6, <2>1, <2>2, <2>3 DEF Turns, Waits
<1>9. ASSUME NEW r \in requests', Current(r), ~ Current(r)'
      PROVE  /\ r.page = p /\ Reached(page[p]) < page'[p].frozen.first
             /\ r.at \in {"sent", "marked"}
  BY <1>6, <1>9 DEF Current, SessionInv, Waiting
<1>10. Waiting'
  <2>1. loads' \in [Pages -> Nat]
    BY DEF SessionInv, Waiting
  <2>2. ASSUME NEW r \in requests'
        PROVE  /\ r.load \in Nat /\ r.load <= loads'[r.page]
               /\ Current(r)' => page'[r.page].post = "sent"
               /\ r.at \in {"sent", "marked"} \/ Current(r)'
               /\ r.reply = "repeated" => r.at = "replied"
    <3>1. r.load \in Nat /\ r.load <= loads'[r.page]
      BY <1>6, <1>7
    <3>2. /\ r.at \in {"sent", "marked"} \/ Current(r)
          /\ r.reply = "repeated" => r.at = "replied"
      BY DEF SessionInv, Waiting
    <3>. QED BY <1>8, <1>9, <3>1, <3>2
  <2>3. \A r, q \in requests' : r.page = q.page /\ Current(r)' /\ Current(q)' => r = q
    BY <1>8 DEF SessionInv, Waiting
  <2>. QED BY <2>1, <2>2, <2>3 DEF Waiting
<1>11. Behind'
  <2>1. \A m \in seen' : Short(m) => Ends(m) <= Reached(page'[m[1]])
    <3>. SUFFICES ASSUME NEW m \in seen', Short(m) PROVE Ends(m) <= Reached(page'[m[1]])
      OBVIOUS
    <3>1. Ends(m) <= Reached(page[m[1]]) /\ m[1] \in Pages /\ Ends(m) \in Int
      BY Ends_Type DEF SessionInv, Behind
    <3>. QED BY <1>4, <1>5, <3>1
  <2>2. ASSUME NEW r \in Sent', Short(r.movement)
        PROVE  /\ r.movement[1] = r.page
               /\ Ends(r.movement) <= Reached(page'[r.page])
               /\ Current(r)' \/ r.movement[2] < page'[r.page].frozen.first
    <3>1. /\ r \in Sent /\ r \in requests' /\ r.page \in Pages /\ r.movement[1] = r.page
          /\ Ends(r.movement) <= Reached(page[r.page])
          /\ Current(r) \/ r.movement[2] < page[r.page].frozen.first
      BY <1>1, <1>6, <2>2 DEF SessionInv, Behind, Sent
    <3>2. /\ r.movement[2] \in Nat /\ r.movement[2] <= Ends(r.movement)
          /\ Ends(r.movement) \in Int
      BY <2>2, Ends_Type
    <3>3. Ends(r.movement) <= Reached(page'[r.page])
      BY <1>4, <1>5, <3>1, <3>2
    <3>4. ~ Current(r)' => r.movement[2] < page'[r.page].frozen.first
      <4>1. CASE Current(r) /\ ~ Current(r)'
        BY <1>4, <1>9, <3>1, <3>2, <4>1
      <4>2. CASE ~ Current(r)
        BY <1>4, <1>5, <3>1, <3>2, <4>2
      <4>. QED BY <4>1, <4>2
    <3>. QED BY <3>1, <3>3, <3>4
  <2>. QED BY <2>1, <2>2 DEF Behind
<1>12. Fresh'
  <2>1. ASSUME NEW r \in Sent', Current(r)', Short(r.movement), ~ page'[r.page].still
        PROVE  r.movement \notin seen'
    <3>1. r \in Sent /\ r \in requests'
      BY <1>1 DEF Sent
    <3>. QED BY <1>8, <2>1, <3>1 DEF SessionInv, Fresh
  <2>. QED BY <1>1, <2>1 DEF SessionInv, Fresh
<1>13. Judged'
  <2>. SUFFICES ASSUME NEW r \in requests', r.reply = "repeated"
                PROVE  r.movement[3] = MaxPoints \/ page'[r.page].still
    BY DEF Judged
  <2>1. Current(r)'
    BY <1>10 DEF Waiting
  <2>. QED BY <1>8, <2>1 DEF SessionInv, Judged
<1>. QED BY <1>2, <1>3, <1>10, <1>11, <1>12, <1>13 DEF SessionInv

\* A page hears what the link is, or that it was not to be heard.
LEMMA Told ==
    ASSUME SessionInv, NEW p \in Pages, NEW said, info' = [info EXCEPT ![p] = said],
           said = "verified" => link.verified, UNCHANGED <<page, requests, loads, link, seen>>
    PROVE  SessionInv'
<1>1. Shape' /\ Truthful'
  BY DEF SessionInv, Shape, Truthful
<1>2. Sent' = Sent /\ \A r : Current(r)' = Current(r)
  BY DEF Sent, Current
<1>. QED BY <1>1, <1>2 DEF SessionInv, Waiting, Behind, Fresh, Judged

\* A request gets on, and is recorded if it is judged.
LEMMA Moves ==
    ASSUME SessionInv, NEW r \in requests, NEW at, NEW reply, at # "sent", Moved(r, at, reply),
           UNCHANGED <<page, info, loads>>,
           DOMAIN link' = {"verified", "gone"}, link.verified => link'.verified,
           at = "marked" \/ reply = "verified" => link'.verified,
           reply = "repeated" =>
               /\ at = "replied"
               /\ Current(r) => r.movement[3] = MaxPoints \/ page[r.page].still,
           seen' = seen \/ (r.at = "sent" /\ Record(r))
    PROVE  SessionInv'
<1>. DEFINE moved == [r EXCEPT !.at = at, !.reply = reply]
<1>1. /\ DOMAIN moved = RequestFields /\ moved.page = r.page /\ moved.movement = r.movement
      /\ moved.at = at /\ moved.reply = reply /\ moved.load = r.load
  BY DEF SessionInv, Shape, RequestFields
<1>2. /\ requests' \subseteq (requests \ {r}) \union {moved}
      /\ moved \in requests' => at = "marked" \/ Current(r) \/ moved \in requests \ {r}
  BY DEF Moved, Current
<1>. HIDE DEF moved
<1>3. Sent' \subseteq Sent \ {r}
  BY <1>1, <1>2 DEF Sent
<1>4. seen' \subseteq Movements /\ \A m \in seen' : m \in seen \/ (r \in Sent /\ m = r.movement)
  BY DEF SessionInv, Shape, Record, Sent
<1>5. Shape'
  <2>1. \A q \in requests' :
          /\ DOMAIN q = RequestFields
          /\ q.page \in Pages
          /\ q.movement \in Movements \union {<<>>}
    BY <1>1, <1>2 DEF SessionInv, Shape
  <2>. QED BY <1>4, <2>1 DEF SessionInv, Shape
<1>6. Truthful'
  BY <1>1, <1>2 DEF SessionInv, Truthful
<1>7. \A q : Current(q)' = Current(q)
  BY DEF Current
<1>8. Waiting'
  <2>1. ASSUME NEW q \in requests'
        PROVE  /\ q.load \in Nat /\ q.load <= loads[q.page]
               /\ Current(q) => page[q.page].post = "sent"
               /\ q.at \in {"sent", "marked"} \/ Current(q)
               /\ q.reply = "repeated" => q.at = "replied"
    <3>1. CASE q \in requests \ {r}
      BY <3>1 DEF SessionInv, Waiting
    <3>2. CASE q = moved /\ q \notin requests \ {r}
      BY <1>1, <1>2, <3>2 DEF SessionInv, Waiting, Current
    <3>. QED BY <1>2, <3>1, <3>2
  <2>2. ASSUME NEW q \in requests', NEW s \in requests', q.page = s.page, Current(q), Current(s)
        PROVE  q = s
    <3>1. q \in requests \ {r} /\ s \in requests \ {r} => q = s
      BY <2>2 DEF SessionInv, Waiting
    <3>2. \A t \in requests \ {r} : t.page = r.page /\ Current(t) => ~ Current(r)
      BY DEF SessionInv, Waiting
    <3>3. Current(moved) <=> Current(r)
      BY <1>1 DEF Current
    <3>. QED BY <1>1, <1>2, <2>2, <3>1, <3>2, <3>3
  <2>. QED BY <1>7, <2>1, <2>2 DEF SessionInv, Waiting
<1>9. Behind'
  <2>1. \A m \in seen' : Short(m) => Ends(m) <= Reached(page[m[1]])
    BY <1>4 DEF SessionInv, Behind
  <2>. QED BY <1>3, <1>7, <2>1 DEF SessionInv, Behind
<1>10. Fresh'
  BY <1>3, <1>4, <1>7 DEF SessionInv, Fresh
<1>11. Judged'
  <2>. SUFFICES ASSUME NEW q \in requests', q.reply = "repeated"
                PROVE  q.movement[3] = MaxPoints \/ page[q.page].still
    BY DEF Judged
  <2>1. CASE q \in requests \ {r}
    BY <2>1 DEF SessionInv, Judged
  <2>2. CASE q = moved
    <3>1. Current(q)
      BY <1>7, <1>8 DEF Waiting
    <3>. QED BY <1>1, <2>2, <3>1 DEF Current
  <2>. QED BY <1>2, <2>1, <2>2
<1>. QED BY <1>5, <1>6, <1>8, <1>9, <1>10, <1>11 DEF SessionInv

\* A movement begins with the first sample frozen, and a short one ends with the last.
LEMMA MovementOf ==
    ASSUME Shape, NEW p \in Pages
    PROVE  /\ Movement(p) \in Movements \union {<<>>}
           /\ Short(Movement(p)) =>
                 /\ Movement(p)[1] = p /\ Movement(p)[2] = page[p].frozen.first
                 /\ Ends(Movement(p)) = page[p].frozen.last
<1>. DEFINE first == page[p].frozen.first
            points == page[p].frozen.last + 1 - first
            n == IF points > MaxPoints THEN MaxPoints ELSE points
<1>1. first \in Nat /\ page[p].frozen.last \in Nat
  BY DEF Shape, PageOK
<1>2. MinPoints \in Nat \ {0} /\ MaxPoints \in Nat \ {0}
  BY SessionAssumption
<1>3. Movement(p) = IF points < MinPoints THEN <<>> ELSE <<p, first, n>>
  BY DEF Movement
<1>4. CASE points < MinPoints
  <2>1. Movement(p) = <<>>
    BY <1>3, <1>4
  <2>2. <<>> \notin Movements
    BY DEF Movements
  <2>. QED BY <2>1, <2>2 DEF Short
<1>5. CASE ~ (points < MinPoints)
  <2>1. Movement(p) = <<p, first, n>>
    BY <1>3, <1>5
  <2>2. n \in 1..MaxPoints /\ (n < MaxPoints => n = points)
    BY <1>1, <1>2, <1>5
  <2>3. n < MaxPoints => first + n - 1 = page[p].frozen.last
    BY <1>1, <2>2
  <2>. HIDE DEF points, n
  <2>4. Movement(p) \in Movements
    BY <1>1, <2>1, <2>2 DEF Movements
  <2>5. Movement(p)[1] = p /\ Movement(p)[2] = first /\ Movement(p)[3] = n
    BY <2>1
  <2>. QED BY <2>3, <2>4, <2>5 DEF Short, Ends
<1>. QED BY <1>4, <1>5

LEMMA SendStep == ASSUME SessionInv, NEW p \in Pages, Send(p) PROVE SessionInv'
<1>. DEFINE r == [page |-> p, load |-> loads[p], response |-> page[p].captchaResponse,
                  movement |-> Movement(p), at |-> "sent", reply |-> "none"]
<1>1. /\ W!Send(p) /\ requests' = requests \union {r}
      /\ UNCHANGED <<link, seen, info, loads>>
  BY DEF Send, serverVars
<1>2. /\ Turns(p, FALSE)
      /\ page[p].post = "delay" /\ page'[p].post = "sent"
      /\ page'[p].still = page[p].still /\ page'[p].frozen = page[p].frozen
  BY <1>1, PageSends DEF SessionInv
<1>3. /\ DOMAIN r = RequestFields /\ r.page = p /\ r.movement = Movement(p)
      /\ r.at = "sent" /\ r.reply = "none" /\ r.load = loads[p]
  BY DEF RequestFields
<1>. HIDE DEF r
<1>4. /\ r.movement \in Movements \union {<<>>}
      /\ Short(r.movement) =>
            /\ r.movement[1] = p /\ r.movement[2] = page[p].frozen.first
            /\ Ends(r.movement) = page[p].frozen.last
  BY <1>3, MovementOf DEF SessionInv
<1>5. Sent' = Sent \union {r}
  BY <1>1, <1>3 DEF Sent
<1>6. Shape'
  BY <1>1, <1>2, <1>3, <1>4 DEF SessionInv, Shape, Turns
<1>7. Truthful'
  BY <1>1, <1>2, <1>3 DEF SessionInv, Truthful, Turns
<1>8. \A q \in Pages : /\ Reached(page[q]) \in Int /\ Reached(page'[q]) \in Int
                       /\ Reached(page[q]) <= Reached(page'[q])
                       /\ page[q].frozen.first \in Nat /\ page[q].frozen.last \in Nat
                       /\ page'[q].frozen.first = page[q].frozen.first
                       /\ page'[q].still = page[q].still
  <2>1. \A q \in Pages : Reached(page[q]) \in Int /\ Reached(page'[q]) \in Int
    BY <1>6 DEF SessionInv, Shape, PageOK, Reached
  <2>2. \A q \in Pages : page[q].frozen.first \in Nat /\ page[q].frozen.last \in Nat
    BY DEF SessionInv, Shape, PageOK
  <2>3. ASSUME NEW q \in Pages
        PROVE  /\ Reached(page[q]) <= Reached(page'[q])
               /\ page'[q].frozen.first = page[q].frozen.first
               /\ page'[q].still = page[q].still
    <3>1. q # p => page'[q] = page[q]
      BY <1>2 DEF Turns
    <3>. QED BY <1>2, <2>1, <3>1 DEF Turns
  <2>. QED BY <2>1, <2>2, <2>3
<1>9. \A q : Current(q)' = Current(q)
  BY <1>1 DEF Current
\* The page has not been waiting for anybody.
<1>10. \A q \in requests : q.page = p => ~ Current(q)
  BY <1>2 DEF SessionInv, Waiting
<1>11. Current(r)
  BY <1>3 DEF Current
<1>12. Waiting'
  <2>1. ASSUME NEW q \in requests'
        PROVE  /\ q.load \in Nat /\ q.load <= loads[q.page]
               /\ Current(q) => page'[q.page].post = "sent"
               /\ q.at \in {"sent", "marked"} \/ Current(q)
               /\ q.reply = "repeated" => q.at = "replied"
    <3>1. CASE q = r
      BY <1>2, <1>3, <3>1 DEF SessionInv, Waiting
    <3>2. CASE q \in requests
      <4>1. q.page \in Pages
        BY <3>2 DEF SessionInv, Shape
      <4>. QED BY <1>2, <3>2, <4>1 DEF SessionInv, Waiting, Turns
    <3>. QED BY <1>1, <3>1, <3>2
  <2>2. \A q, s \in requests' : q.page = s.page /\ Current(q) /\ Current(s) => q = s
    BY <1>1, <1>3, <1>10 DEF SessionInv, Waiting
  <2>. QED BY <1>1, <1>9, <2>1, <2>2 DEF SessionInv, Waiting
<1>13. Behind'
  <2>1. \A m \in seen' : Short(m) => Ends(m) <= Reached(page'[m[1]])
    <3>. SUFFICES ASSUME NEW m \in seen', Short(m) PROVE Ends(m) <= Reached(page'[m[1]])
      OBVIOUS
    <3>1. Ends(m) <= Reached(page[m[1]]) /\ m[1] \in Pages /\ Ends(m) \in Int
      BY <1>1, Ends_Type DEF SessionInv, Behind
    <3>. QED BY <1>8, <3>1
  <2>2. ASSUME NEW q \in Sent', Short(q.movement)
        PROVE  /\ q.movement[1] = q.page
               /\ Ends(q.movement) <= Reached(page'[q.page])
               /\ Current(q) \/ q.movement[2] < page'[q.page].frozen.first
    <3>1. CASE q = r
      <4>1. Reached(page'[p]) = page[p].frozen.last
        BY <1>2 DEF Reached
      <4>. QED BY <1>3, <1>4, <1>8, <1>11, <2>2, <3>1, <4>1
    <3>2. CASE q \in Sent
      <4>1. q.page \in Pages /\ Ends(q.movement) \in Int
        BY <2>2, <3>2, Ends_Type DEF Sent, SessionInv, Shape
      <4>2. /\ q.movement[1] = q.page
            /\ Ends(q.movement) <= Reached(page[q.page])
            /\ Current(q) \/ q.movement[2] < page[q.page].frozen.first
        BY <2>2, <3>2 DEF SessionInv, Behind
      <4>. QED BY <1>8, <4>1, <4>2
    <3>. QED BY <1>5, <3>1, <3>2
  <2>. QED BY <1>9, <2>1, <2>2 DEF Behind
\* Nothing known ends with that sample, unless the pointer was still; nothing that is still
\* under way begins with the first.
<1>14. Short(r.movement) /\ ~ page[p].still => r.movement \notin seen
  <2>. SUFFICES ASSUME Short(r.movement), ~ page[p].still, r.movement \in seen PROVE FALSE
    OBVIOUS
  <2>1. Ends(r.movement) <= Reached(page[p])
    BY <1>4 DEF SessionInv, Behind
  <2>2. Reached(page[p]) = page[p].frozen.last - 1
    BY <1>2 DEF Reached
  <2>. QED BY <1>4, <1>8, <2>1, <2>2
<1>15. \A q \in Sent : Short(r.movement) => q.movement # r.movement
  <2>. SUFFICES ASSUME NEW q \in Sent, Short(r.movement), q.movement = r.movement PROVE FALSE
    OBVIOUS
  <2>1. q.page = p
    BY <1>4 DEF SessionInv, Behind
  <2>2. ~ Current(q)
    BY <1>10, <2>1 DEF Sent
  <2>3. q.movement[2] < page[p].frozen.first
    BY <2>1, <2>2 DEF SessionInv, Behind
  <2>. QED BY <1>4, <1>8, <2>3
<1>16. Fresh'
  <2>1. ASSUME NEW q \in Sent', Current(q), Short(q.movement), ~ page'[q.page].still
        PROVE  q.movement \notin seen'
    <3>1. CASE q = r
      BY <1>1, <1>2, <1>3, <1>14, <2>1, <3>1
    <3>2. CASE q \in Sent
      <4>1. q.page \in Pages
        BY <3>2 DEF Sent, SessionInv, Shape
      <4>. QED BY <1>1, <1>8, <2>1, <3>2, <4>1 DEF SessionInv, Fresh
    <3>. QED BY <1>5, <3>1, <3>2
  <2>2. \A q, s \in Sent' : Short(q.movement) /\ q.movement = s.movement => q = s
    BY <1>5, <1>15 DEF SessionInv, Fresh
  <2>. QED BY <1>9, <2>1, <2>2 DEF Fresh
<1>17. Judged'
  <2>. SUFFICES ASSUME NEW q \in requests', q.reply = "repeated"
                PROVE  q.movement[3] = MaxPoints \/ page'[q.page].still
    BY DEF Judged
  <2>1. q \in requests /\ q.page \in Pages
    BY <1>1, <1>3 DEF SessionInv, Shape
  <2>. QED BY <1>8, <2>1 DEF SessionInv, Judged
<1>. QED BY <1>6, <1>7, <1>12, <1>13, <1>16, <1>17 DEF SessionInv

LEMMA ServerSteps ==
    ASSUME SessionInv, NEW r \in requests,
           Verify(r) \/ Publish(r) \/ Throttle(r) \/ LosePost(r)
    PROVE  SessionInv'
<1>1. CASE VerifyDone(r)
  BY <1>1, Moves DEF VerifyDone, Arrived, serverVars, SessionInv, Shape
<1>2. CASE VerifyRepeated(r)
  <2>1. Current(r) => r.movement[3] = MaxPoints \/ page[r.page].still
    <3>. SUFFICES ASSUME Current(r), ~ page[r.page].still PROVE r.movement[3] = MaxPoints
      OBVIOUS
    <3>1. r.movement \in seen /\ r \in Sent
      BY <1>2 DEF VerifyRepeated, Repeated, Open, Arrived, Sent
    <3>2. r.movement \in Movements /\ ~ Short(r.movement)
      BY <3>1 DEF SessionInv, Shape, Fresh
    <3>3. r.movement[3] \in 1..MaxPoints /\ MaxPoints \in Nat
      BY <3>2, SessionAssumption DEF Movements
    <3>. QED BY <3>2, <3>3 DEF Short
  <2>. QED BY <1>2, <2>1, Moves DEF VerifyRepeated, serverVars, SessionInv, Shape
<1>3. CASE VerifyWrong(r)
  BY <1>3, Moves DEF VerifyWrong, Open, Arrived, SessionInv, Shape
<1>4. CASE VerifyRight(r)
  <2>1. DOMAIN link' = {"verified", "gone"} /\ link'.verified
    BY <1>4 DEF VerifyRight, SessionInv, Shape
  <2>. QED BY <1>4, <2>1, Moves DEF VerifyRight, Open, Arrived
<1>5. CASE Publish(r)
  <2>1. link.verified
    BY <1>5 DEF Publish, SessionInv, Truthful
  <2>. QED BY <1>5, <2>1, Moves DEF Publish, serverVars, SessionInv, Shape
<1>6. CASE Throttle(r)
  BY <1>6, Moves DEF Throttle, serverVars, SessionInv, Shape
<1>7. CASE LosePost(r)
  BY <1>7, Moves DEF LosePost, serverVars, SessionInv, Shape
<1>. QED BY <1>1, <1>2, <1>3, <1>4, <1>5, <1>6, <1>7 DEF Verify

LEMMA CrashStep == ASSUME SessionInv, Crash PROVE SessionInv'
<1>1. /\ UNCHANGED <<page, link, seen, info, loads>>
      /\ \A q \in requests' : \E r \in requests :
            /\ q = IF r.at = "marked" THEN [r EXCEPT !.at = "lost"] ELSE r
            /\ r.at = "marked" => Current(r)
  BY DEF Crash, serverVars, Current
<1>. DEFINE Down(r) == IF r.at = "marked" THEN [r EXCEPT !.at = "lost"] ELSE r
<1>2. \A r \in requests :
          /\ DOMAIN Down(r) = RequestFields
          /\ Down(r).page = r.page /\ Down(r).movement = r.movement /\ Down(r).reply = r.reply
          /\ Down(r).load = r.load
          /\ r.at # "marked" => Down(r) = r
          /\ r.at = "marked" => Down(r).at = "lost"
  BY DEF SessionInv, Shape, RequestFields
<1>3. \A q \in requests' :
          \E r \in requests : q = Down(r) /\ (r.at = "marked" => Current(r))
  BY <1>1
<1>. HIDE DEF Down
<1>4. Sent' \subseteq Sent
  BY <1>2, <1>3 DEF Sent
<1>5. \A q : Current(q)' = Current(q)
  BY <1>1 DEF Current
<1>6. \A r \in requests : Current(Down(r)) = Current(r)
  BY <1>2 DEF Current
<1>7. Shape' /\ Judged'
  BY <1>1, <1>2, <1>3 DEF SessionInv, Shape, Judged
<1>8. Truthful'
  BY <1>1, <1>2, <1>3 DEF SessionInv, Truthful
<1>9. Waiting'
  <2>1. ASSUME NEW q \in requests'
        PROVE  /\ q.load \in Nat /\ q.load <= loads[q.page]
               /\ Current(q) => page[q.page].post = "sent"
               /\ q.at \in {"sent", "marked"} \/ Current(q)
               /\ q.reply = "repeated" => q.at = "replied"
    <3>1. PICK r \in requests : q = Down(r) /\ (r.at = "marked" => Current(r))
      BY <1>3
    <3>. QED BY <1>2, <1>6, <3>1 DEF SessionInv, Waiting
  <2>2. ASSUME NEW q \in requests', NEW s \in requests', q.page = s.page, Current(q), Current(s)
        PROVE  q = s
    <3>1. PICK r \in requests : q = Down(r)
      BY <1>3
    <3>2. PICK t \in requests : s = Down(t)
      BY <1>3
    <3>. QED BY <1>2, <1>6, <2>2, <3>1, <3>2 DEF SessionInv, Waiting
  <2>. QED BY <1>1, <1>5, <2>1, <2>2 DEF SessionInv, Waiting
<1>10. Behind' /\ Fresh'
  BY <1>1, <1>4, <1>5 DEF SessionInv, Behind, Fresh
<1>. QED BY <1>7, <1>8, <1>9, <1>10 DEF SessionInv

LEMMA PageStepsKeep ==
    ASSUME SessionInv, kind \in Kinds, NEW p \in Pages,
           UserActs(p) \/ PageStep(p) \/ Reload(p) \/ LoseGet(p)
    PROVE  SessionInv'
<1>0. Shape
  BY DEF SessionInv
<1>1. CASE UserActs(p)
  <2>1. Turns(p, FALSE) /\ Waits(p)
    BY <1>0, <1>1, PageActs DEF UserActs
  <2>. QED BY <1>1, <2>1, Quiet DEF UserActs, serverVars
<1>2. CASE Solve(p)
  BY <1>0, <1>2, PageSolves, Quiet DEF Solve, serverVars
<1>3. CASE Rearm(p)
  BY <1>0, <1>3, PageRearms, Quiet DEF Rearm, serverVars
<1>4. CASE Send(p)
  BY <1>4, SendStep
<1>5. CASE GetInfo(p)
  <2>. DEFINE said == IF link.gone THEN "missing" ELSE IF link.verified THEN "verified" ELSE kind
  <2>1. /\ info' = [info EXCEPT ![p] = said]
        /\ UNCHANGED <<page, requests, loads, link, seen>>
    BY <1>5 DEF GetInfo, serverVars
  <2>2. said = "verified" => link.verified
    BY SessionAssumption
  <2>. HIDE DEF said
  <2>. QED BY <2>1, <2>2, Told
<1>6. CASE LoadInfo(p)
  <2>1. Turns(p, info[p] = "verified") /\ Waits(p)
    BY <1>0, <1>6, PageIsInformed DEF LoadInfo
  <2>2. info[p] = "verified" => link.verified
    BY DEF SessionInv, Truthful
  <2>. QED BY <1>6, <2>1, <2>2, Quiet DEF LoadInfo, serverVars
<1>7. CASE Reload(p)
  <2>1. Turns(p, FALSE) /\ Reached(page[p]) < page'[p].frozen.first
    BY <1>0, <1>7, PageReloads DEF Reload
  <2>2. /\ requests' \subseteq requests
        /\ \A r \in requests' : r.page = p => r.at \in {"sent", "marked"}
    BY <1>7 DEF Reload
  <2>. QED BY <1>7, <2>1, <2>2, Quiet DEF Reload, serverVars
<1>8. CASE LoseGet(p)
  BY <1>8, Told DEF LoseGet, serverVars
<1>. QED BY <1>1, <1>2, <1>3, <1>4, <1>5, <1>6, <1>7, <1>8 DEF PageStep

\* The answer to a request comes to the page that waits for it, and for nobody else.
LEMMA ReceiveStep ==
    ASSUME SessionInv, NEW r \in requests, Receive(r) \/ CallbackThrows(r)
    PROVE  SessionInv'
<1>1. r.page \in Pages /\ Shape
  BY DEF SessionInv, Shape
<1>2. requests' = requests \ {r} /\ UNCHANGED <<link, seen, info, loads>>
  BY DEF Receive, CallbackThrows, serverVars
<1>3. CASE Current(r)
  <2>1. \A q \in requests' : q.page = r.page => ~ Current(q)
    BY <1>2, <1>3 DEF SessionInv, Waiting
  <2>2. CASE W!Result(r.page, r.reply = "verified")
    <3>1. Turns(r.page, r.reply = "verified")
      BY <1>1, <2>2, PageIsAnswered
    <3>2. r.reply = "verified" => link.verified
      BY DEF SessionInv, Truthful
    <3>. QED BY <1>1, <1>2, <2>1, <3>1, <3>2, Quiet
  <2>3. CASE W!PostFails(r.page) \/ W!ResultThrows(r.page)
    <3>1. Turns(r.page, FALSE)
      BY <1>1, <2>3, PageBreaks
    <3>. QED BY <1>1, <1>2, <2>1, <3>1, Quiet
  <2>. QED BY <2>2, <2>3 DEF Receive, CallbackThrows
<1>4. Current(r)
  BY DEF SessionInv, Waiting, Receive, CallbackThrows
<1>. QED BY <1>3, <1>4

\* Steps that say nothing of the link to anybody: the handlers', the TTL's.
LEMMA Aside ==
    ASSUME SessionInv, UNCHANGED <<page, info, requests, seen, loads>>,
           link' = link \/ link' = [link EXCEPT !.gone = TRUE]
    PROVE  SessionInv'
<1>1. DOMAIN link' = {"verified", "gone"} /\ link'.verified = link.verified
  BY DEF SessionInv, Shape
<1>2. Sent' = Sent /\ \A r : Current(r)' = Current(r)
  BY DEF Sent, Current
<1>3. Shape' /\ Truthful'
  BY <1>1 DEF SessionInv, Shape, Truthful
<1>. QED BY <1>2, <1>3 DEF SessionInv, Waiting, Behind, Fresh, Judged

\* The link keeps its captcha.
LEMMA KindStays == [Next]_vars => kind' = kind
  BY DEF Next, UserActs, PageStep, Solve, Rearm, Send, GetInfo, LoadInfo, Reload, LoseGet,
         PostStep, Verify, VerifyDone, VerifyRepeated, VerifyWrong, VerifyRight, Publish, Receive,
         Throttle, LosePost, CallbackThrows, RunHandler, Resubscribe, Expire, Crash, vars

LEMMA SessionNext == IInv /\ [Next]_vars => IInv'
<1>. SUFFICES ASSUME SessionInv, kind \in Kinds, [Next]_vars PROVE SessionInv'
  BY KindStays DEF IInv
<1>1. ASSUME NEW task, RunHandler(task) PROVE SessionInv'
  BY <1>1, Aside DEF RunHandler, serverVars
<1>2. ASSUME NEW h, Resubscribe(h) PROVE SessionInv'
  BY <1>2, Aside DEF Resubscribe, serverVars
<1>3. CASE Expire
  BY <1>3, Aside DEF Expire
<1>4. CASE UNCHANGED vars
  BY <1>4, Aside DEF vars, serverVars
<1>5. ASSUME NEW r \in requests,
             PostStep(r) \/ Throttle(r) \/ LosePost(r) \/ CallbackThrows(r)
      PROVE  SessionInv'
  BY <1>5, ServerSteps, ReceiveStep DEF PostStep
<1>. QED
  BY <1>1, <1>2, <1>3, <1>4, <1>5, PageStepsKeep, CrashStep DEF Next

\* Either because its POST was answered so, or because its GET was: each page that is green,
\* or has told its callback of a success, is right that the link was verified.
THEOREM GreenTellsTheTruth == Spec => []GreenIsVerified
<1>1. IInv => GreenIsVerified
  BY DEF IInv, SessionInv, Truthful, Green, GreenIsVerified
<1>. QED BY <1>1, SessionInit, SessionNext, PTL DEF Spec

\* Whatever is sent again, lost or reloaded, in whatever order the requests of however many
\* pages arrive: a retry before which the pointer was touched is refused as a repeated
\* movement only if it is a full fingerprint.
THEOREM MovedRetriesAreJudged == Spec => []RepeatedIsFullOrStill
<1>1. IInv => RepeatedIsFullOrStill
  BY DEF IInv, SessionInv, Judged, RepeatedIsFullOrStill
<1>. QED BY <1>1, SessionInit, SessionNext, PTL DEF Spec

-----------------------------------------------------------------------------
(* A green page stays green *)

\* A page that is green, and had its info in time, has nothing under way that could turn it;
\* only what is under way leaves it idle again; and the info comes once.
Steady(now) ==
    /\ now.mark = "ok" /\ ~ now.late => now.busy /\ now.verified /\ now.post = "none"
    /\ now.post # "none" => now.busy
    /\ now.late => ~ now.infoDue

StaysGreen(now, new) ==
    now.mark = "ok" /\ ~ new.late => new.mark = "ok" /\ new.called = now.called

PagesInv == DOMAIN page = Pages /\ \A p \in Pages : DOMAIN page[p] = Fields /\ Steady(page[p])

LEMMA SteadyBecomes ==
    ASSUME PagesInv, NEW p \in Pages, NEW new, W!Become(p, new),
           DOMAIN new = Fields, Steady(new)
    PROVE  /\ PagesInv'
           /\ page'[p] = new
           /\ \A q \in Pages \ {p} : page'[q] = page[q]
<1>1. page' = [page EXCEPT ![p] = new]
  BY DEF W!Become
<1>. QED BY <1>1 DEF PagesInv

\* What runVerification makes of a page that is steady.
LEMMA SteadyTriggers ==
    ASSUME NEW now, DOMAIN now = Fields, Steady(now)
    PROVE  LET new == W!Triggered(now)
           IN  DOMAIN new = Fields /\ Steady(new) /\ StaysGreen(now, new)
<1>. DEFINE new == W!Triggered(now)
<1>1. CASE now.busy \/ now.verified
  BY <1>1 DEF W!Triggered, StaysGreen
<1>2. CASE ~ (now.busy \/ now.verified)
  <2>1. /\ DOMAIN new = Fields /\ new.busy = TRUE /\ new.post = "delay"
        /\ new.mark = now.mark /\ new.late = now.late /\ new.infoDue = now.infoDue
        /\ new.called = now.called
    BY <1>2 DEF W!Triggered, Fields
  <2>. HIDE DEF new
  <2>. QED BY <1>2, <2>1 DEF Steady, StaysGreen, new
<1>. QED BY <1>1, <1>2

\* The visitor's actions.
LEMMA SteadyActs ==
    ASSUME PagesInv, NEW p \in Pages,
           W!Move(p) \/ W!BoxClick(p) \/ \E a \in {"right", "wrong"} : W!Submit(p, a)
    PROVE  /\ PagesInv' /\ StaysGreen(page[p], page'[p])
           /\ \A q \in Pages \ {p} : page'[q] = page[q]
<1>. DEFINE now == page[p]
<1>1. \A new \in {W!Sampled(p)} \union W!Pressed(p) :
          /\ DOMAIN new = Fields
          /\ \A f \in Fields \ {"trajectory", "keys"} : new[f] = now[f]
  BY DEF W!Sampled, W!Keyed, W!Pressed, PagesInv
<1>2. ASSUME NEW new, DOMAIN new = Fields,
             \A f \in Fields \ {"trajectory", "keys", "captchaResponse"} : new[f] = now[f]
      PROVE  Steady(new) /\ \A new2 : StaysGreen(new, new2) => StaysGreen(now, new2)
  BY <1>2 DEF PagesInv, Steady, StaysGreen, Fields
<1>3. CASE W!Move(p)
  <2>. DEFINE sampled == W!Sampled(p)
  <2>1. W!Become(p, sampled)
    BY <1>3 DEF W!Move
  <2>. HIDE DEF sampled
  <2>2. Steady(sampled) /\ StaysGreen(now, sampled)
    BY <1>1, <1>2 DEF StaysGreen, sampled
  <2>. QED BY <1>1, <2>1, <2>2, SteadyBecomes DEF sampled
<1>4. ASSUME W!BoxClick(p)
      PROVE  /\ PagesInv' /\ StaysGreen(page[p], page'[p])
             /\ \A q \in Pages \ {p} : page'[q] = page[q]
  <2>0. PICK pressed \in W!Pressed(p) : W!Become(p, W!Triggered(pressed))
    BY <1>4 DEF W!BoxClick
  <2>. DEFINE new == W!Triggered(pressed)
  <2>1. W!Become(p, new)
    BY <2>0
  <2>2. DOMAIN new = Fields /\ Steady(new) /\ StaysGreen(pressed, new)
    BY <1>1, <1>2, SteadyTriggers
  <2>. HIDE DEF new
  <2>3. StaysGreen(now, new)
    BY <1>1, <1>2, <2>2
  <2>. QED BY <2>1, <2>2, <2>3, SteadyBecomes
<1>5. ASSUME NEW a, W!Submit(p, a)
      PROVE  /\ PagesInv' /\ StaysGreen(page[p], page'[p])
             /\ \A q \in Pages \ {p} : page'[q] = page[q]
  <2>0. PICK pressed \in W!Pressed(p) :
            W!Become(p, W!Triggered([pressed EXCEPT !.captchaResponse = a]))
    BY <1>5 DEF W!Submit
  <2>. DEFINE answered == [pressed EXCEPT !.captchaResponse = a]
              new == W!Triggered(answered)
  <2>1. W!Become(p, new)
    BY <2>0
  <2>2. /\ DOMAIN answered = Fields
        /\ \A f \in Fields \ {"trajectory", "keys", "captchaResponse"} : answered[f] = now[f]
    BY <1>1
  <2>. HIDE DEF answered
  <2>3. DOMAIN new = Fields /\ Steady(new) /\ StaysGreen(answered, new)
    BY <1>2, <2>2, SteadyTriggers
  <2>. HIDE DEF new
  <2>4. StaysGreen(now, new)
    BY <1>2, <2>2, <2>3
  <2>. QED BY <2>1, <2>3, <2>4, SteadyBecomes
<1>. QED BY <1>3, <1>4, <1>5

\* Timers, requests and answers.
LEMMA SteadyWaits ==
    ASSUME PagesInv, NEW p \in Pages,
           \/ W!Solve(p) \/ W!Rearm(p) \/ W!Send(p) \/ W!PostFails(p) \/ W!ResultThrows(p)
           \/ \E good \in BOOLEAN : W!Result(p, good)
    PROVE  /\ PagesInv' /\ StaysGreen(page[p], page'[p])
           /\ \A q \in Pages \ {p} : page'[q] = page[q]
<1>. DEFINE now == page[p]
<1>0. DOMAIN now = Fields /\ Steady(now)
  BY DEF PagesInv
<1>1. CASE W!Solve(p)
  <2>. DEFINE new == [now EXCEPT !.locked = FALSE, !.captchaResponse = "right"]
  <2>1. /\ W!Become(p, new) /\ DOMAIN new = Fields /\ new.mark = now.mark
        /\ new.late = now.late /\ new.infoDue = now.infoDue /\ new.busy = now.busy
        /\ new.verified = now.verified /\ new.post = now.post /\ new.called = now.called
    BY <1>0, <1>1 DEF W!Solve, Fields
  <2>. HIDE DEF new
  <2>2. Steady(new) /\ StaysGreen(now, new)
    BY <1>0, <2>1 DEF Steady, StaysGreen
  <2>. QED BY <2>1, <2>2, SteadyBecomes
<1>2. CASE W!Rearm(p)
  <2>. DEFINE new == [now EXCEPT !.post = "none", !.busy = FALSE, !.mark = "none"]
  <2>1. /\ W!Become(p, new) /\ now.post = "rearm" /\ DOMAIN new = Fields /\ new.mark = "none"
        /\ new.late = now.late /\ new.infoDue = now.infoDue /\ new.post = "none"
    BY <1>0, <1>2 DEF W!Rearm, Fields
  <2>. HIDE DEF new
  <2>2. Steady(new) /\ StaysGreen(now, new)
    BY <1>0, <2>1 DEF Steady, StaysGreen
  <2>. QED BY <2>1, <2>2, SteadyBecomes
<1>3. CASE W!Send(p)
  <2>. DEFINE new == [now EXCEPT !.post = "sent"]
  <2>1. /\ W!Become(p, new) /\ now.post = "delay" /\ DOMAIN new = Fields /\ new.mark = now.mark
        /\ new.late = now.late /\ new.infoDue = now.infoDue /\ new.busy = now.busy
    BY <1>0, <1>3 DEF W!Send, Fields
  <2>. HIDE DEF new
  <2>2. Steady(new) /\ StaysGreen(now, new)
    BY <1>0, <2>1 DEF Steady, StaysGreen
  <2>. QED BY <2>1, <2>2, SteadyBecomes
<1>4. CASE W!PostFails(p)
  <2>. DEFINE new == [now EXCEPT !.post = "broken"]
  <2>1. /\ W!Become(p, new) /\ now.post = "sent" /\ DOMAIN new = Fields /\ new.mark = now.mark
        /\ new.late = now.late /\ new.infoDue = now.infoDue /\ new.busy = now.busy
    BY <1>0, <1>4 DEF W!PostFails, Fields
  <2>. HIDE DEF new
  <2>2. Steady(new) /\ StaysGreen(now, new)
    BY <1>0, <2>1 DEF Steady, StaysGreen
  <2>. QED BY <2>1, <2>2, SteadyBecomes
<1>5. ASSUME NEW good \in BOOLEAN, W!Result(p, good)
      PROVE  /\ PagesInv' /\ StaysGreen(page[p], page'[p])
             /\ \A q \in Pages \ {p} : page'[q] = page[q]
  <2>. DEFINE new == IF good THEN [W!Succeeded(now) EXCEPT !.panel = FALSE, !.post = "none"]
                     ELSE [W!Failed(now) EXCEPT !.post = "rearm"]
  <2>1. /\ W!Become(p, new) /\ now.post = "sent" /\ DOMAIN new = Fields
        /\ new.late = now.late /\ new.infoDue = now.infoDue /\ new.busy = now.busy
        /\ IF good THEN new.mark = "ok" /\ new.verified = TRUE /\ new.post = "none"
           ELSE new.mark = "fail" /\ new.post = "rearm"
    BY <1>0, <1>5 DEF W!Result, W!Succeeded, W!Failed, Fields
  <2>. HIDE DEF new
  <2>2. Steady(new) /\ StaysGreen(now, new)
    BY <1>0, <2>1 DEF Steady, StaysGreen
  <2>. QED BY <2>1, <2>2, SteadyBecomes
<1>6. CASE W!ResultThrows(p)
  <2>. DEFINE new == [W!Failed(now) EXCEPT !.post = "broken"]
  <2>1. /\ W!Become(p, new) /\ now.post = "sent" /\ DOMAIN new = Fields /\ new.mark = "fail"
        /\ new.late = now.late /\ new.infoDue = now.infoDue /\ new.busy = now.busy
    BY <1>0, <1>6 DEF W!ResultThrows, W!Failed, Fields
  <2>. HIDE DEF new
  <2>2. Steady(new) /\ StaysGreen(now, new)
    BY <1>0, <2>1 DEF Steady, StaysGreen
  <2>. QED BY <2>1, <2>2, SteadyBecomes
<1>. QED BY <1>1, <1>2, <1>3, <1>4, <1>5, <1>6

\* The info: in time if nothing was begun.
LEMMA SteadyHears ==
    ASSUME PagesInv, NEW p \in Pages, NEW said, W!LoadInfo(p, said)
    PROVE  /\ PagesInv' /\ StaysGreen(page[p], page'[p])
           /\ \A q \in Pages \ {p} : page'[q] = page[q]
<1>. DEFINE now == [page[p] EXCEPT !.infoDue = FALSE, !.late = W!Begun(p)]
<1>1. /\ DOMAIN now = Fields /\ now.infoDue = FALSE /\ now.late = W!Begun(p)
      /\ now.busy = page[p].busy /\ now.verified = page[p].verified /\ now.post = page[p].post
      /\ now.mark = page[p].mark /\ now.called = page[p].called
  BY DEF PagesInv, Fields
<1>2. page[p].infoDue /\ ~ page[p].late
  BY DEF W!LoadInfo, PagesInv, Steady
<1>3. W!Begun(p) <=> page[p].busy \/ page[p].called # "never"
  BY DEF W!Begun
<1>4. \/ said = "verified" /\ W!Become(p, [W!Succeeded(now) EXCEPT !.busy = TRUE])
      \/ W!Become(p, now)
      \/ W!Become(p, W!RenderChallenge(now, said))
  BY DEF W!LoadInfo, W!ShowFatalError
<1>. HIDE DEF now
<1>5. ASSUME W!Become(p, [W!Succeeded(now) EXCEPT !.busy = TRUE])
      PROVE  /\ PagesInv' /\ StaysGreen(page[p], page'[p])
             /\ \A q \in Pages \ {p} : page'[q] = page[q]
  <2>. DEFINE new == [W!Succeeded(now) EXCEPT !.busy = TRUE]
  <2>1. /\ DOMAIN new = Fields /\ new.infoDue = FALSE /\ new.late = now.late
        /\ new.busy = TRUE /\ new.verified = TRUE /\ new.post = now.post /\ new.mark = "ok"
    BY <1>1 DEF Fields, W!Succeeded
  <2>2. W!Become(p, new)
    BY <1>5
  <2>. HIDE DEF new
  <2>3. Steady(new) /\ StaysGreen(page[p], new)
    BY <1>1, <1>2, <1>3, <2>1 DEF PagesInv, Steady, StaysGreen
  <2>. QED BY <2>1, <2>2, <2>3, SteadyBecomes
<1>6. ASSUME NEW new, W!Become(p, new), DOMAIN new = Fields,
             new.infoDue = FALSE, new.late = now.late, new.busy = now.busy,
             new.verified = now.verified, new.post = now.post, new.mark = now.mark,
             new.called = now.called
      PROVE  /\ PagesInv' /\ StaysGreen(page[p], page'[p])
             /\ \A q \in Pages \ {p} : page'[q] = page[q]
  <2>1. Steady(new) /\ StaysGreen(page[p], new)
    BY <1>1, <1>2, <1>3, <1>6 DEF PagesInv, Steady, StaysGreen
  <2>. QED BY <1>6, <2>1, SteadyBecomes
<1>7. LET new == W!RenderChallenge(now, said)
      IN  /\ DOMAIN new = Fields /\ new.infoDue = FALSE /\ new.late = now.late
          /\ new.busy = now.busy /\ new.verified = now.verified /\ new.post = now.post
          /\ new.mark = now.mark /\ new.called = now.called
  BY <1>1 DEF W!RenderChallenge, Fields
<1>. QED BY <1>1, <1>4, <1>5, <1>6, <1>7

LEMMA SteadyReload ==
    ASSUME PagesInv, NEW p \in Pages, W!Reload(p)
    PROVE  PagesInv' /\ \A q \in Pages \ {p} : page'[q] = page[q]
<1>. DEFINE new == W!NewPage(page[p].trajectory.last, page[p].keys)
<1>1. /\ W!Become(p, new) /\ DOMAIN new = Fields /\ Steady(new)
  BY DEF W!Reload, W!NewPage, Steady, Fields
<1>. HIDE DEF new
<1>. QED BY <1>1, SteadyBecomes

\* All of the widget's actions but a reload.
OnPage(p) ==
    \/ W!Move(p) \/ W!BoxClick(p) \/ \E a \in {"right", "wrong"} : W!Submit(p, a)
    \/ W!Solve(p) \/ W!Rearm(p) \/ W!Send(p) \/ W!PostFails(p) \/ W!ResultThrows(p)
    \/ \E good \in BOOLEAN : W!Result(p, good)
    \/ W!LoadInfo(p, info[p])

\* A step is one of the widget's on one page, if it is anything to the pages.
LEMMA StepsOnPages ==
    ASSUME Shape, [Next]_vars
    PROVE  \/ page' = page
           \/ \E p \in Pages : OnPage(p) \/ (W!Reload(p) /\ loads' = [loads EXCEPT ![p] = @ + 1])
<1>1. ASSUME NEW r \in requests,
             PostStep(r) \/ Throttle(r) \/ LosePost(r) \/ CallbackThrows(r)
      PROVE  page' = page \/ OnPage(r.page)
  <2>1. (r.reply = "verified") \in BOOLEAN
    OBVIOUS
  <2>. QED
    BY <1>1, <2>1
    DEF PostStep, Verify, VerifyDone, VerifyRepeated, VerifyWrong, VerifyRight, Publish, Receive,
        Throttle, LosePost, CallbackThrows, OnPage
<1>2. ASSUME NEW p \in Pages, UserActs(p) \/ PageStep(p) \/ LoseGet(p)
      PROVE  page' = page \/ OnPage(p)
  BY <1>2 DEF UserActs, PageStep, Solve, Rearm, Send, GetInfo, LoadInfo, LoseGet, OnPage
<1>3. ASSUME NEW p \in Pages, Reload(p)
      PROVE  W!Reload(p) /\ loads' = [loads EXCEPT ![p] = @ + 1]
  BY <1>3 DEF Reload
<1>4. \A r \in requests : r.page \in Pages
  BY DEF Shape
<1>. QED
  BY <1>1, <1>2, <1>3, <1>4 DEF Next, RunHandler, Resubscribe, Expire, Crash, vars

LEMMA SteadyOnPage ==
    ASSUME PagesInv, NEW p \in Pages, OnPage(p)
    PROVE  /\ PagesInv' /\ StaysGreen(page[p], page'[p])
           /\ \A q \in Pages \ {p} : page'[q] = page[q]
  BY SteadyActs, SteadyWaits, SteadyHears DEF OnPage

LoadsInv == loads \in [Pages -> Nat]

LEMMA LoadsNext == LoadsInv /\ [Next]_vars => LoadsInv'
<1>. SUFFICES ASSUME LoadsInv, [Next]_vars PROVE LoadsInv'
  OBVIOUS
<1>1. loads' = loads \/ \E p \in Pages : loads' = [loads EXCEPT ![p] = @ + 1]
  BY DEF Next, UserActs, PageStep, Solve, Rearm, Send, GetInfo, LoadInfo, Reload, LoseGet,
         PostStep, Verify, VerifyDone, VerifyRepeated, VerifyWrong, VerifyRight, Publish, Receive,
         Throttle, LosePost, CallbackThrows, RunHandler, Resubscribe, Expire, Crash, vars
<1>. QED BY <1>1 DEF LoadsInv

LEMMA PagesInit == Init => PagesInv /\ LoadsInv
  BY DEF Init, PagesInv, LoadsInv, W!NewPage, Steady, Fields

LEMMA PagesNext == IInv /\ PagesInv /\ [Next]_vars => PagesInv'
<1>. SUFFICES ASSUME IInv, PagesInv, [Next]_vars PROVE PagesInv'
  OBVIOUS
<1>1. CASE page' = page
  BY <1>1 DEF PagesInv
<1>. QED BY <1>1, StepsOnPages, SteadyOnPage, SteadyReload DEF IInv, SessionInv

\* widget.js: "Once it's green, it stays green".  Whatever requests and answers are under way
\* or lost, a page that had its info before the first click keeps its mark and calls nobody
\* back again, until it is reloaded.
THEOREM GreenForGood == Spec => GreenStaysGreen
<1>. DEFINE Stays == \A p \in Pages :
                        page[p].mark = "ok" /\ loads'[p] = loads[p] /\ ~ page'[p].late =>
                            /\ page'[p].mark = "ok"
                            /\ page'[p].called = page[p].called
<1>1. ASSUME IInv, PagesInv, LoadsInv, [Next]_vars PROVE [Stays]_vars
  <2>1. CASE page' = page
    BY <2>1
  <2>2. ASSUME NEW p \in Pages, OnPage(p) PROVE Stays
    BY <1>1, <2>2, SteadyOnPage DEF StaysGreen
  <2>3. ASSUME NEW p \in Pages, W!Reload(p), loads' = [loads EXCEPT ![p] = @ + 1] PROVE Stays
    <3>1. loads'[p] # loads[p]
      BY <1>1, <2>3 DEF LoadsInv
    <3>. QED BY <1>1, <2>3, <3>1, SteadyReload
  <2>. QED BY <1>1, <2>1, <2>2, <2>3, StepsOnPages DEF IInv, SessionInv
<1>. QED
  BY <1>1, SessionInit, SessionNext, PagesInit, PagesNext, LoadsNext, PTL
  DEF Spec, GreenStaysGreen
=============================================================================
