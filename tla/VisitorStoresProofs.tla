------------------------ MODULE VisitorStoresProofs ------------------------
(***************************************************************************)
(* Proofs about the three stores of VisitorStores, for any calls, levels,  *)
(* addresses, fingerprints, times to live and bounds.  Each store has an   *)
(* inductive invariant of its own, a conjunction of named parts; a step of *)
(* one store leaves the others' alone.                                     *)
(***************************************************************************)
EXTENDS VisitorStores, TLAPS

(* The running risk level. *)

\* The steps of a bump that knows the level to write, before the write and after it.
Writing == {"slowread", "slowclear", "slowinsert", "slowreget", "slowupdate"}
Fasting == {"fastread", "fastset"}

RiskWrote(b) == Risk!IsBump(b) /\ riskPc[b] \in Fasting \union {"done"}

\* Level l is no lower than any that was reported by c's start and still counts.
Covers(l, c) ==
    \A b \in riskArgs[c].known : riskUntil[b] > riskNow => l >= riskArgs[b].bump

\* Who takes which steps, and what a call knows of.
RiskRoles ==
    \A c \in Calls :
        /\ riskPc[c] = "idle" => riskArgs[c] = Risk!NoArgs
        /\ \A b \in riskArgs[c].known : Risk!IsBump(b) /\ riskPc[b] = "done"
        /\ riskPc[c] \in Writing \union Fasting => Risk!IsBump(c)
        /\ riskPc[c] \in Fasting \union {"fastget"} => Tiered
        /\ riskPc[c] \in {"slowget", "slowdel"} /\ Risk!IsBump(c) => Tiered
        /\ riskUntil[c] <= riskNow + Ttl
        /\ riskWant[c] = None \/ Risk!IsBump(c)
        /\ riskPc[c] # "idle" /\ Risk!IsBump(c)
              => riskWant[c] # None /\ riskWant[c] >= riskArgs[c].bump
        /\ riskPc[c] \in {"slowclear", "slowinsert", "slowreget", "slowupdate", "fastset"}
              => riskPut[c] # None

\* Bumps run one after the other.
RiskAlone ==
    \A b, c \in Calls : Risk!IsBump(b) /\ Risk!IsBump(c) /\ Risk!UnderWay(c) =>
        /\ Risk!UnderWay(b) => b = c
        /\ riskPc[b] = "done" => b \in riskArgs[c].known

\* What was written is in the database until its ttl is over.
RiskStored ==
    \A b \in Calls : RiskWrote(b) /\ riskUntil[b] > riskNow =>
        /\ riskSlow # None
        /\ riskSlow.until >= riskUntil[b]
        /\ riskSlow.level >= riskArgs[b].bump

\* A call that found nothing had nothing to find.
RiskMissed ==
    \A c \in Calls : riskPc[c] = "slowdel" =>
        \A b \in riskArgs[c].known : riskUntil[b] <= riskNow

\* What a bump is about to say, to write, and to write over.
WantsEnough(c) ==
    Tiered /\ riskPc[c] \in Writing \union Fasting =>
        /\ Covers(riskWant[c], c)
        /\ Risk!Alive(riskSlow) => riskWant[c] >= riskSlow.level

PutsEnough(c) ==
    /\ riskPc[c] \in {"slowclear", "slowinsert", "slowupdate", "fastset"}
          => riskPut[c] >= riskWant[c]
    /\ riskPc[c] \in {"slowclear", "slowinsert", "slowupdate"} =>
          /\ Covers(riskPut[c], c)
          /\ Tiered => riskPut[c] = riskWant[c]
          /\ \A b \in riskArgs[c].known : riskUntil[c] >= riskUntil[b]

RowStands(c) ==
    /\ riskPc[c] # "slowreget"
    /\ riskPc[c] = "slowinsert" => riskSlow = None
    /\ riskPc[c] = "slowclear" => ~ Risk!Alive(riskSlow)
    /\ riskPc[c] = "slowupdate" /\ riskSlow # None
          => riskSlow.level = riskSeen[c] /\ riskPut[c] >= riskSeen[c]

RiskDecided == \A c \in Calls : WantsEnough(c) /\ PutsEnough(c) /\ RowStands(c)

\* The fast tier is behind the database only while a bump is between the two.
RiskFast ==
    /\ riskFast # None => Tiered
    /\ Risk!Alive(riskFast) => \A b \in Calls :
          Risk!IsBump(b) /\ riskPc[b] = "done" /\ riskUntil[b] > riskNow
              => riskFast.level >= riskArgs[b].bump
    /\ Risk!Alive(riskFast) /\ Risk!Alive(riskSlow) /\ (\A c \in Calls : riskPc[c] \notin Fasting)
          => riskFast.level >= riskSlow.level

RiskKept ==
    RiskAlone /\ RiskStored /\ RiskMissed /\ RiskDecided /\ RiskFast /\ Risk!Remembered

RiskInv == Risk!TypeOK /\ RiskRoles /\ (riskExcuses = {} => RiskKept)

(* Trust. *)

TrustWriting == {"slowread", "slowinsert", "slowreget", "slowupdate"}
TrustAsking == {"fastask", "slowask", "slowdel"}

\* The steps of a trust() whose write to the database is committed.
TrustWrote(b) == trustPc[b] \in {"fastset", "done"}

\* Who takes which steps, and what a call knows of.
TrustRoles ==
    \A c \in Calls :
        /\ trustPc[c] = "idle" => trustArgs[c] = Trust!NoArgs
        /\ trustPc[c] # "idle" => trustArgs[c].ip \in Ips
        /\ trustPc[c] \in TrustWriting \union {"fastset"} => c \in Trust!Trusts
        /\ trustPc[c] \in TrustAsking => trustArgs[c].kind = "ask"
        /\ trustPc[c] = "fastset" => Tiered
        /\ \A b \in trustArgs[c].known : b \in Trust!Trusts /\ trustPc[b] = "done"
        /\ trustSpan[c].start <= trustNow
        /\ trustPc[c] = "done" => trustSpan[c].end >= trustSpan[c].start

\* Calls of trust() run one after the other.
TrustAlone ==
    \A a, b \in Trust!Trusts : Trust!UnderWay(b) =>
        /\ Trust!UnderWay(a) => a = b
        /\ trustPc[a] = "done" => a \in trustArgs[b].known

\* Between its read and its UPDATE nobody else changes the address.
TrustReads ==
    \A b \in Calls : trustPc[b] = "slowupdate" /\ trustSlow # None
        => trustSlow.ip = trustSeen[b]

\* The row is what the last trust() wrote, and the fast tier what the last one wrote there.
WroteLast(b) == \A a \in Trust!Trusts \ {b} : TrustWrote(a) => a \in trustArgs[b].known
DoneLast(b) == \A a \in Trust!Trusts \ {b} : trustPc[a] = "done" => a \in trustArgs[b].known

TrustLast ==
    Trust!Alive(trustSlow) => \E b \in Trust!Trusts :
        /\ TrustWrote(b) /\ WroteLast(b)
        /\ trustSlow = [ip |-> trustArgs[b].ip, until |-> Trust!Until(b)]

TrustFront ==
    trustFast # None => Tiered /\ \E b \in Trust!Trusts :
        /\ trustPc[b] = "done" /\ DoneLast(b)
        /\ trustFast.ip = trustArgs[b].ip
        /\ trustFast.until <= trustSpan[b].end + Ttl

TrustKept == TrustAlone /\ TrustReads /\ TrustLast /\ TrustFront /\ Trust!TrustIsCurrent

\* After the newest trust() nobody else writes, so the row is its own until the ttl is over.
Stands(b) ==
    /\ trustPc[b] = "slowupdate" /\ trustSlow # None => trustSlow.ip = trustSeen[b]
    /\ TrustWrote(b) /\ Trust!Until(b) > trustNow
          => trustSlow = [ip |-> trustArgs[b].ip, until |-> Trust!Until(b)]
    /\ \A c \in Calls : b \in trustArgs[c].known /\ Trust!Until(b) > trustNow
          => trustPc[c] # "slowdel"

NewestStands == \A b \in Trust!Trusts : Trust!Newest(b, Trust!Trusts) => Stands(b)

TrustInv ==
    /\ Trust!TypeOK
    /\ TrustRoles
    /\ trustExcuses \intersect {"overlap", "fast write"} = {} => TrustKept
    /\ "stale delete" \notin trustExcuses => NewestStands /\ Trust!TrustIsRemembered

(* Movements. *)

\* A run has found something when it is done, and looked at something while under way.
ReplayRoles ==
    \A c \in Runs :
        /\ replayPc[c] = "done" <=> replayOutcome[c] # "none"
        /\ replayArgs[c].at <= replayNow
        /\ replayPc[c] \in {"fetch", "insert", "reget", "renew"} => replayArgs[c].records

\* A row says what some finished run has recorded, or is one of long ago.
RecordedBySomeRun ==
    \A f \in Prints : replayEntry[f] \notin {None, 0} => \E b \in Runs :
        /\ replayArgs[b].records /\ Replay!MoveOf(b) = f
        /\ replayOutcome[b] = "pass" /\ replayUntil[b] = replayEntry[f]

\* What was recorded stays until its ttl is over.
RecordsStay ==
    \A f \in Prints : \A b \in Replay!Recorded(f) :
        replayEntry[f] # None /\ replayEntry[f] >= replayUntil[b]

ReplayInv ==
    /\ Replay!TypeOK
    /\ ReplayRoles
    /\ RecordedBySomeRun
    /\ Replay!RefusedOnlyIfRecent
    /\ replayExcuses = {} => RecordsStay

-----------------------------------------------------------------------------
(* The three of them. *)

IInv == RiskInv /\ TrustInv /\ ReplayInv
-----------------------------------------------------------------------------
LEMMA RiskAssumed ==
    /\ Levels \subseteq Nat /\ None \notin Nat /\ None \notin Levels
    /\ None \notin Risk!Entry
    /\ Ttl \in Nat \ {0} /\ FastTtl \in 1..Ttl /\ MaxTime \in Nat /\ MaxFaults \in Nat
  BY StoresAssumption DEF Risk!RiskAssumption, Risk!Entry

\* The higher of two levels is one of them and no lower than either.
LEMMA HigherLevel ==
    ASSUME NEW a \in Levels \union {None}, NEW b \in Levels
    PROVE  /\ Risk!Higher(a, b) \in Levels
           /\ Risk!Higher(a, b) >= b
           /\ a # None => Risk!Higher(a, b) >= a
           /\ Risk!Higher(a, b) \in {a, b}
  BY RiskAssumed DEF Risk!Higher

\* What a get, or the get in a bump, does with the level it found.
LEMMA KnownType ==
    ASSUME Risk!TypeOK, NEW c \in Calls, NEW l \in Risk!MaybeLevel, Risk!Known(c, l)
    PROVE  /\ riskPc' \in [Calls -> Risk!PCs]
           /\ riskWant' \in [Calls -> Risk!MaybeLevel]
           /\ riskResult' \in [Calls -> Risk!MaybeLevel]
  BY DEF Risk!TypeOK, Risk!Known, Risk!Goto, Risk!Finish, Risk!Higher, Risk!PCs

LEMMA KnownEffect ==
    ASSUME Risk!TypeOK, RiskRoles, NEW c \in Calls, riskPc[c] # "idle",
           NEW l \in Risk!MaybeLevel, Risk!Known(c, l)
    PROVE  /\ Risk!IsBump(c) =>
                 /\ riskPc'[c] = "slowread"
                 /\ riskWant'[c] \in Levels
                 /\ riskWant'[c] >= riskWant[c]
                 /\ l # None => riskWant'[c] >= l
                 /\ riskResult' = riskResult
           /\ ~ Risk!IsBump(c) =>
                 riskPc'[c] = "done" /\ riskResult'[c] = l /\ riskWant' = riskWant
           /\ \A d \in Calls \ {c} : /\ riskPc'[d] = riskPc[d]
                                     /\ riskWant'[d] = riskWant[d]
                                     /\ riskResult'[d] = riskResult[d]
<1>1. CASE Risk!IsBump(c)
  <2>1. riskWant[c] \in Levels
    BY <1>1 DEF RiskRoles, Risk!TypeOK, Risk!MaybeLevel
  <2>2. riskWant' = [riskWant EXCEPT ![c] = Risk!Higher(l, riskWant[c])]
    BY <1>1 DEF Risk!Known
  <2>3. /\ Risk!Higher(l, riskWant[c]) \in Levels
        /\ Risk!Higher(l, riskWant[c]) >= riskWant[c]
        /\ l # None => Risk!Higher(l, riskWant[c]) >= l
    BY <2>1, HigherLevel DEF Risk!MaybeLevel
  <2>. QED BY <1>1, <2>2, <2>3 DEF Risk!Known, Risk!Goto, Risk!TypeOK
<1>2. CASE ~ Risk!IsBump(c)
  BY <1>2 DEF Risk!Known, Risk!Goto, Risk!Finish, Risk!TypeOK
<1>. QED BY <1>1, <1>2

\* A committed write to the slow tier.
LEMMA WrittenEffect ==
    ASSUME Risk!TypeOK, NEW c \in Calls, Risk!Written(c)
    PROVE  /\ riskPc' \in [Calls -> Risk!PCs]
           /\ riskResult' \in [Calls -> Risk!MaybeLevel]
           /\ Tiered => riskPc'[c] = "fastread" /\ riskResult' = riskResult
           /\ ~ Tiered => riskPc'[c] = "done" /\ riskResult'[c] = riskPut[c]
           /\ \A d \in Calls \ {c} : /\ riskPc'[d] = riskPc[d]
                                     /\ riskResult'[d] = riskResult[d]
  BY DEF Risk!Written, Risk!TypeOK, Risk!Goto, Risk!Finish, Risk!PCs

\* Every variable of the risk store keeps its type.
LEMMA RiskTypeStep ==
    ASSUME Risk!TypeOK, RiskRoles, Risk!Next
    PROVE  Risk!TypeOK'
<1>1. ASSUME NEW c \in Calls, NEW level \in Levels \union {None}, Risk!Start(c, level)
      PROVE  Risk!TypeOK'
  BY <1>1 DEF Risk!Start, Risk!Goto, Risk!TypeOK, Risk!MaybeLevel, Risk!PCs,
     Risk!Causes
<1>2. ASSUME NEW c \in Calls, Risk!FastGet(c)
      PROVE  Risk!TypeOK'
  <2>1. CASE Risk!Alive(riskFast)
    BY <1>2, <2>1, KnownType DEF Risk!FastGet, Risk!TypeOK, Risk!Alive,
       Risk!MaybeLevel, Risk!Entry
  <2>2. CASE ~ Risk!Alive(riskFast)
    BY <1>2, <2>2 DEF Risk!FastGet, Risk!TypeOK, Risk!Goto, Risk!PCs
  <2>. QED BY <2>1, <2>2
<1>3. ASSUME NEW c \in Calls, Risk!SlowGet(c)
      PROVE  Risk!TypeOK'
  <2>1. CASE riskSlow = None
    BY <1>3, <2>1, KnownType DEF Risk!SlowGet, Risk!TypeOK, Risk!Alive, Risk!MaybeLevel
  <2>2. CASE Risk!Alive(riskSlow)
    BY <1>3, <2>2, KnownType DEF Risk!SlowGet, Risk!TypeOK, Risk!Alive,
       Risk!MaybeLevel, Risk!Entry
  <2>3. CASE riskSlow # None /\ ~ Risk!Alive(riskSlow)
    BY <1>3, <2>3 DEF Risk!SlowGet, Risk!TypeOK, Risk!Alive, Risk!Goto, Risk!PCs
  <2>. QED BY <2>1, <2>2, <2>3
<1>4. ASSUME NEW c \in Calls, Risk!SlowDelete(c)
      PROVE  Risk!TypeOK'
  <2>1. /\ riskPc' \in [Calls -> Risk!PCs]
        /\ riskWant' \in [Calls -> Risk!MaybeLevel]
        /\ riskResult' \in [Calls -> Risk!MaybeLevel]
    BY <1>4, KnownType, ZenonT(40) DEF Risk!SlowDelete, Risk!Goto, Risk!TypeOK, Risk!PCs,
       Risk!MaybeLevel
  <2>. QED BY <1>4, <2>1 DEF Risk!SlowDelete, Risk!TypeOK, Risk!Causes
<1>5. ASSUME NEW c \in Calls, Risk!SlowRead(c)
      PROVE  Risk!TypeOK'
  <2>1. riskPut' \in [Calls -> Risk!MaybeLevel]
    BY <1>5 DEF Risk!SlowRead, Risk!TypeOK, Risk!Alive, Risk!Entry, Risk!MaybeLevel,
       Risk!Higher
  <2>2. riskSeen' \in [Calls -> Risk!MaybeLevel]
    BY <1>5 DEF Risk!SlowRead, Risk!TypeOK, Risk!Alive, Risk!Entry, Risk!MaybeLevel
  <2>3. riskUntil' \in [Calls -> Nat]
    BY <1>5, RiskAssumed DEF Risk!SlowRead, Risk!TypeOK
  <2>4. riskPc' \in [Calls -> Risk!PCs]
    BY <1>5 DEF Risk!SlowRead, Risk!TypeOK, Risk!Goto, Risk!PCs
  <2>. QED BY <1>5, <2>1, <2>2, <2>3, <2>4 DEF Risk!SlowRead, Risk!TypeOK
<1>6. ASSUME NEW c \in Calls, Risk!SlowUpdate(c)
      PROVE  Risk!TypeOK'
  <2>1. riskSlow' \in Risk!Entry \union {None}
    BY <1>6 DEF Risk!SlowUpdate, RiskRoles, Risk!TypeOK, Risk!Entry, Risk!MaybeLevel
  <2>2. riskPc' \in [Calls -> Risk!PCs] /\ riskResult' \in [Calls -> Risk!MaybeLevel]
    BY <1>6, WrittenEffect DEF Risk!SlowUpdate, Risk!TypeOK, Risk!Goto, Risk!PCs
  <2>. QED BY <1>6, <2>1, <2>2 DEF Risk!SlowUpdate, Risk!TypeOK
<1>7. ASSUME NEW c \in Calls, Risk!SlowInsert(c)
      PROVE  Risk!TypeOK'
  <2>1. riskSlow' \in Risk!Entry \union {None}
    BY <1>7 DEF Risk!SlowInsert, RiskRoles, Risk!TypeOK, Risk!Entry, Risk!MaybeLevel
  <2>2. riskPc' \in [Calls -> Risk!PCs] /\ riskResult' \in [Calls -> Risk!MaybeLevel]
    BY <1>7, WrittenEffect DEF Risk!SlowInsert, Risk!TypeOK, Risk!Goto, Risk!PCs
  <2>. QED BY <1>7, <2>1, <2>2 DEF Risk!SlowInsert, Risk!TypeOK
<1>8. ASSUME NEW c \in Calls, Risk!SlowReget(c)
      PROVE  Risk!TypeOK'
  BY <1>8 DEF Risk!SlowReget, Risk!Goto, Risk!TypeOK, Risk!MaybeLevel, Risk!PCs,
     Risk!Entry
<1>9. ASSUME NEW c \in Calls, Risk!FastRead(c)
      PROVE  Risk!TypeOK'
  <2>1. riskPut' \in [Calls -> Risk!MaybeLevel]
    BY <1>9 DEF Risk!FastRead, Risk!TypeOK, Risk!Alive, Risk!Entry, Risk!MaybeLevel,
       Risk!Higher
  <2>. QED BY <1>9, <2>1 DEF Risk!FastRead, Risk!TypeOK, Risk!Goto, Risk!PCs
<1>10. ASSUME NEW c \in Calls, Risk!FastSet(c)
      PROVE  Risk!TypeOK'
  <2>1. riskFast' \in Risk!Entry
    BY <1>10, RiskAssumed DEF Risk!FastSet, RiskRoles, Risk!TypeOK, Risk!Entry,
       Risk!MaybeLevel
  <2>. QED BY <1>10, <2>1 DEF Risk!FastSet, Risk!TypeOK, Risk!Goto, Risk!Finish, Risk!PCs
<1>11. ASSUME NEW c \in Calls, Risk!FastFault(c)
      PROVE  Risk!TypeOK'
  <2>1. riskResult' \in [Calls -> Risk!MaybeLevel] /\ riskPc' \in [Calls -> Risk!PCs]
    BY <1>11, ZenonT(40) DEF Risk!FastFault, Risk!Goto, Risk!Finish, Risk!TypeOK, Risk!PCs
  <2>2. riskExcuses' \in SUBSET Risk!Causes
    BY <1>11 DEF Risk!FastFault, Risk!TypeOK, Risk!Causes
  <2>3. /\ riskFaults' = riskFaults + 1
        /\ UNCHANGED <<riskNow, riskSlow, riskFast, riskArgs, riskWant, riskPut, riskSeen, riskUntil>>
    BY <1>11 DEF Risk!FastFault
  <2>. QED BY <2>1, <2>2, <2>3 DEF Risk!TypeOK
<1>12. ASSUME NEW c \in Calls, Risk!SlowFault(c)
      PROVE  Risk!TypeOK'
  BY <1>12 DEF Risk!SlowFault, Risk!Goto, Risk!TypeOK, Risk!MaybeLevel, Risk!PCs
<1>13. ASSUME Risk!PurgeExpired
      PROVE  Risk!TypeOK'
  BY <1>13 DEF Risk!PurgeExpired, Risk!TypeOK, Risk!MaybeLevel, Risk!PCs,
     Risk!callVars
<1>14. ASSUME Risk!Tick
      PROVE  Risk!TypeOK'
  BY <1>14 DEF Risk!Tick, Risk!TypeOK, Risk!MaybeLevel, Risk!PCs, Risk!callVars
<1>. QED BY <1>1, <1>2, <1>3, <1>4, <1>5, <1>6, <1>7, <1>8, <1>9, <1>10, <1>11, <1>12,
   <1>13, <1>14 DEF Risk!Next, Risk!Run


LEMMA KnownRoles ==
    ASSUME Risk!TypeOK, RiskRoles, NEW c \in Calls, NEW l \in Risk!MaybeLevel,
           riskPc[c] \in {"fastget", "slowget", "slowdel"}, Risk!Known(c, l),
           UNCHANGED <<riskNow, riskArgs, riskPut, riskUntil>>
    PROVE  RiskRoles'
<1>1. \A d \in Calls \ {c} : riskPc'[d] = riskPc[d] /\ riskWant'[d] = riskWant[d]
  BY KnownEffect
<1>2. CASE Risk!IsBump(c)
  <2>1. /\ riskPc'[c] = "slowread"
        /\ riskWant'[c] # None
        /\ riskWant'[c] >= riskArgs[c].bump
    <3>1. riskWant[c] \in Nat /\ riskArgs[c].bump \in Nat /\ riskWant[c] >= riskArgs[c].bump
      BY <1>2, RiskAssumed DEF RiskRoles, Risk!TypeOK, Risk!MaybeLevel, Risk!IsBump
    <3>2. riskPc'[c] = "slowread" /\ riskWant'[c] \in Nat /\ riskWant'[c] >= riskWant[c]
      BY <1>2, KnownEffect, RiskAssumed
    <3>. QED BY <3>1, <3>2, RiskAssumed
  <2>. QED BY <1>1, <1>2, <2>1 DEF RiskRoles, Risk!IsBump, Risk!TypeOK, Writing, Fasting
<1>3. CASE ~ Risk!IsBump(c)
  <2>1. riskPc'[c] = "done" /\ riskWant'[c] = riskWant[c]
    BY <1>3, KnownEffect
  <2>. QED BY <1>1, <1>3, <2>1 DEF RiskRoles, Risk!IsBump, Risk!TypeOK, Writing, Fasting
<1>. QED BY <1>2, <1>3

\* Calls keep to their kind of steps.
LEMMA RiskRolesStep ==
    ASSUME Risk!TypeOK, RiskRoles, Risk!Next
    PROVE  RiskRoles'
<1>1. ASSUME NEW c \in Calls, NEW level \in Levels \union {None}, Risk!Start(c, level)
      PROVE  RiskRoles'
  BY <1>1, RiskAssumed DEF Risk!Start, Risk!Goto, Risk!TypeOK, RiskRoles,
     Risk!IsBump, Writing, Fasting, Risk!NoArgs
<1>2. ASSUME NEW c \in Calls, Risk!FastGet(c)
      PROVE  RiskRoles'
  <2>1. CASE Risk!Alive(riskFast)
    BY <1>2, <2>1, KnownRoles DEF Risk!FastGet, Risk!TypeOK, Risk!Entry, Risk!Alive,
       Risk!MaybeLevel
  <2>2. CASE ~ Risk!Alive(riskFast)
    BY <1>2, <2>2 DEF Risk!FastGet, Risk!TypeOK, RiskRoles, Risk!IsBump, Risk!Goto,
       Writing, Fasting
  <2>. QED BY <2>1, <2>2
<1>3. ASSUME NEW c \in Calls, Risk!SlowGet(c)
      PROVE  RiskRoles'
  <2>1. CASE Risk!Alive(riskSlow)
    BY <1>3, <2>1, KnownRoles DEF Risk!SlowGet, Risk!TypeOK, Risk!Entry, Risk!Alive,
       Risk!MaybeLevel
  <2>2. CASE riskSlow = None
    BY <1>3, <2>2, KnownRoles DEF Risk!SlowGet, Risk!Alive, Risk!MaybeLevel
  <2>3. CASE riskSlow # None /\ ~ Risk!Alive(riskSlow)
    BY <1>3, <2>3 DEF Risk!SlowGet, Risk!TypeOK, RiskRoles, Risk!IsBump, Risk!Goto,
       Writing, Fasting
  <2>. QED BY <2>1, <2>2, <2>3
<1>4. ASSUME NEW c \in Calls, Risk!SlowDelete(c)
      PROVE  RiskRoles'
  <2>1. CASE riskPc[c] = "slowdel"
    BY <1>4, <2>1, KnownRoles DEF Risk!SlowDelete, Risk!MaybeLevel
  <2>2. CASE riskPc[c] = "slowclear"
    BY <1>4, <2>2, ZenonT(40) DEF Risk!SlowDelete, Risk!TypeOK, RiskRoles, Risk!IsBump, Risk!Goto,
       Writing, Fasting
  <2>. QED BY <1>4, <2>1, <2>2 DEF Risk!SlowDelete
<1>5. ASSUME NEW c \in Calls, Risk!SlowRead(c)
      PROVE  RiskRoles'
  <2>1. riskPut'[c] # None
    <3>1. riskWant[c] \in Levels
      BY <1>5 DEF Risk!SlowRead, RiskRoles, Risk!TypeOK, Risk!MaybeLevel, Writing
    <3>. QED BY <1>5, <3>1, HigherLevel, RiskAssumed
           DEF Risk!SlowRead, Risk!TypeOK, Risk!Alive, Risk!Entry
  <2>. QED BY <1>5, <2>1, RiskAssumed DEF Risk!SlowRead, Risk!Goto, Risk!TypeOK, RiskRoles, Risk!IsBump, Writing, Fasting
<1>6. ASSUME NEW c \in Calls, Risk!SlowUpdate(c)
      PROVE  RiskRoles'
  BY <1>6, RiskAssumed, WrittenEffect DEF Risk!SlowUpdate, Risk!Goto, Risk!TypeOK,
     RiskRoles, Risk!IsBump, Writing, Fasting
<1>7. ASSUME NEW c \in Calls, Risk!SlowInsert(c)
      PROVE  RiskRoles'
  BY <1>7, RiskAssumed, WrittenEffect DEF Risk!SlowInsert, Risk!Goto, Risk!TypeOK,
     RiskRoles, Risk!IsBump, Writing, Fasting
<1>8. ASSUME NEW c \in Calls, Risk!SlowReget(c)
      PROVE  RiskRoles'
  BY <1>8, RiskAssumed DEF Risk!SlowReget, Risk!Goto, Risk!TypeOK, RiskRoles,
     Risk!IsBump, Writing, Fasting
<1>9. ASSUME NEW c \in Calls, Risk!FastRead(c)
      PROVE  RiskRoles'
  <2>1. riskPut'[c] # None
    <3>1. riskWant[c] \in Levels
      BY <1>9 DEF Risk!FastRead, RiskRoles, Risk!TypeOK, Risk!MaybeLevel, Fasting
    <3>. QED BY <1>9, <3>1, HigherLevel, RiskAssumed
           DEF Risk!FastRead, Risk!TypeOK, Risk!Alive, Risk!Entry
  <2>. QED BY <1>9, <2>1, RiskAssumed DEF Risk!FastRead, Risk!Goto, Risk!TypeOK, RiskRoles, Risk!IsBump, Writing, Fasting
<1>10. ASSUME NEW c \in Calls, Risk!FastSet(c)
      PROVE  RiskRoles'
  BY <1>10, RiskAssumed DEF Risk!FastSet, Risk!Goto, Risk!Finish, Risk!TypeOK,
     RiskRoles, Risk!IsBump, Writing, Fasting
<1>11. ASSUME NEW c \in Calls, Risk!FastFault(c)
      PROVE  RiskRoles'
  <2>1. CASE riskPc[c] = "fastget"
    BY <1>11, <2>1 DEF Risk!FastFault, Risk!Goto, Risk!TypeOK, RiskRoles, Risk!IsBump,
       Writing, Fasting
  <2>2. CASE riskPc[c] \in Fasting
    BY <1>11, <2>2, ZenonT(40) DEF Risk!FastFault, Risk!Goto, Risk!Finish, Risk!TypeOK, RiskRoles,
       Risk!IsBump, Writing, Fasting
  <2>. QED BY <1>11, <2>1, <2>2 DEF Risk!FastFault, Fasting
<1>12. ASSUME NEW c \in Calls, Risk!SlowFault(c)
      PROVE  RiskRoles'
  BY <1>12, RiskAssumed DEF Risk!SlowFault, Risk!Goto, Risk!TypeOK, RiskRoles,
     Risk!IsBump, Writing, Fasting
<1>13. ASSUME Risk!PurgeExpired
      PROVE  RiskRoles'
  BY <1>13, RiskAssumed DEF Risk!PurgeExpired, Risk!TypeOK, RiskRoles, Risk!IsBump,
     Writing, Fasting, Risk!callVars
<1>14. ASSUME Risk!Tick
      PROVE  RiskRoles'
  BY <1>14, RiskAssumed DEF Risk!Tick, Risk!TypeOK, RiskRoles, Risk!IsBump, Writing,
     Fasting, Risk!callVars
<1>. QED BY <1>1, <1>2, <1>3, <1>4, <1>5, <1>6, <1>7, <1>8, <1>9, <1>10, <1>11, <1>12,
   <1>13, <1>14 DEF Risk!Next, Risk!Run


\* Whatever step a call takes, the others stay where they are.
LEMMA RiskFrame ==
    ASSUME Risk!TypeOK, RiskRoles, NEW c \in Calls,
           Risk!Run(c) \/ Risk!FastFault(c) \/ Risk!SlowFault(c)
    PROVE  /\ Risk!UnderWay(c)
           /\ riskArgs' = riskArgs /\ riskNow' = riskNow
           /\ \A d \in Calls \ {c} :
                 /\ riskPc'[d] = riskPc[d]
                 /\ riskWant'[d] = riskWant[d]
                 /\ riskPut'[d] = riskPut[d]
                 /\ riskSeen'[d] = riskSeen[d]
                 /\ riskUntil'[d] = riskUntil[d]
                 /\ riskResult'[d] = riskResult[d]
<1>. DEFINE Others == \A d \in Calls \ {c} :
                         /\ riskPc'[d] = riskPc[d]
                         /\ riskWant'[d] = riskWant[d]
                         /\ riskPut'[d] = riskPut[d]
                         /\ riskSeen'[d] = riskSeen[d]
                         /\ riskUntil'[d] = riskUntil[d]
                         /\ riskResult'[d] = riskResult[d]
            Goal == Risk!UnderWay(c) /\ riskArgs' = riskArgs /\ riskNow' = riskNow /\ Others
<1>0. ASSUME NEW l \in Risk!MaybeLevel, Risk!Known(c, l), riskPc[c] # "idle"
      PROVE  \A d \in Calls \ {c} : /\ riskPc'[d] = riskPc[d]
                                    /\ riskWant'[d] = riskWant[d]
                                    /\ riskResult'[d] = riskResult[d]
  BY <1>0, KnownEffect
<1>1. CASE Risk!FastGet(c)
  <2>1. CASE Risk!Alive(riskFast)
    <3>1. riskFast.level \in Risk!MaybeLevel
      BY <2>1 DEF Risk!Alive, Risk!TypeOK, Risk!Entry, Risk!MaybeLevel
    <3>. QED BY <1>0, <1>1, <2>1, <3>1 DEF Risk!FastGet, Risk!UnderWay, Risk!TypeOK
  <2>. QED BY <1>1, <2>1 DEF Risk!FastGet, Risk!Goto, Risk!UnderWay, Risk!TypeOK
<1>2. CASE Risk!SlowGet(c)
  <2>1. CASE Risk!Alive(riskSlow)
    <3>1. riskSlow.level \in Risk!MaybeLevel
      BY <2>1 DEF Risk!Alive, Risk!TypeOK, Risk!Entry, Risk!MaybeLevel
    <3>. QED BY <1>0, <1>2, <2>1, <3>1 DEF Risk!SlowGet, Risk!Alive, Risk!UnderWay, Risk!TypeOK
  <2>2. CASE riskSlow = None
    BY <1>0, <1>2, <2>2 DEF Risk!SlowGet, Risk!MaybeLevel, Risk!Alive, Risk!UnderWay, Risk!TypeOK
  <2>. QED BY <1>2, <2>1, <2>2 DEF Risk!SlowGet, Risk!Goto, Risk!UnderWay, Risk!TypeOK
<1>3. CASE Risk!SlowDelete(c)
  <2>1. CASE riskPc[c] = "slowdel"
    BY <1>0, <1>3, <2>1 DEF Risk!SlowDelete, Risk!MaybeLevel, Risk!UnderWay, Risk!TypeOK
  <2>2. CASE riskPc[c] = "slowclear"
    BY <1>3, <2>2 DEF Risk!SlowDelete, Risk!Goto, Risk!UnderWay, Risk!TypeOK
  <2>. QED BY <1>3, <2>1, <2>2 DEF Risk!SlowDelete
<1>4. CASE Risk!SlowRead(c)
  BY <1>4 DEF Risk!SlowRead, Risk!Goto, Risk!UnderWay, Risk!TypeOK
<1>5. CASE Risk!SlowUpdate(c)
  BY <1>5, WrittenEffect DEF Risk!SlowUpdate, Risk!Goto, Risk!UnderWay, Risk!TypeOK
<1>6. CASE Risk!SlowInsert(c)
  BY <1>6, WrittenEffect DEF Risk!SlowInsert, Risk!Goto, Risk!UnderWay, Risk!TypeOK
<1>7. CASE Risk!SlowReget(c)
  BY <1>7 DEF Risk!SlowReget, Risk!Goto, Risk!UnderWay, Risk!TypeOK
<1>8. CASE Risk!FastRead(c)
  BY <1>8 DEF Risk!FastRead, Risk!Goto, Risk!UnderWay, Risk!TypeOK
<1>9. CASE Risk!FastSet(c)
  BY <1>9 DEF Risk!FastSet, Risk!Goto, Risk!Finish, Risk!UnderWay, Risk!TypeOK
<1>10. CASE Risk!FastFault(c)
  BY <1>10 DEF Risk!FastFault, Risk!Goto, Risk!Finish, Risk!UnderWay, Risk!TypeOK
<1>11. CASE Risk!SlowFault(c)
  BY <1>11 DEF Risk!SlowFault, Risk!Goto, Risk!UnderWay, Risk!TypeOK
<1>. QED BY <1>1, <1>2, <1>3, <1>4, <1>5, <1>6, <1>7, <1>8, <1>9, <1>10, <1>11 DEF Risk!Run

\* What can make the stores forget is not forgotten.
LEMMA RiskExcusesStay ==
    ASSUME Risk!Next, riskExcuses' = {}
    PROVE  riskExcuses = {}
  BY DEF Risk!Next, Risk!Run, Risk!Start, Risk!FastGet, Risk!SlowGet, Risk!SlowDelete,
     Risk!SlowRead, Risk!SlowUpdate, Risk!SlowInsert, Risk!SlowReget, Risk!FastRead,
     Risk!FastSet, Risk!FastFault, Risk!SlowFault, Risk!PurgeExpired, Risk!Tick

\* A bump that starts while none is under way is alone until it ends.
LEMMA RiskAloneStep ==
    ASSUME Risk!TypeOK, RiskRoles, RiskAlone, Risk!Next, riskExcuses' = {}
    PROVE  RiskAlone'
<1>1. ASSUME NEW c \in Calls, NEW level \in Levels \union {None}, Risk!Start(c, level)
      PROVE  RiskAlone'
  <2>1. ~ Risk!IsBump(c) /\ riskPc[c] = "idle"
    BY <1>1 DEF Risk!Start, RiskRoles, Risk!IsBump, Risk!NoArgs
  <2>2. \A d \in Calls \ {c} : riskPc'[d] = riskPc[d] /\ riskArgs'[d] = riskArgs[d]
    BY <1>1 DEF Risk!Start, Risk!Goto, Risk!TypeOK
  <2>3. CASE level = None
    <3>1. ~ Risk!IsBump(c)'
      BY <1>1, <2>3 DEF Risk!Start, Risk!IsBump, Risk!TypeOK
    <3>. QED BY <2>2, <3>1 DEF RiskAlone, Risk!IsBump, Risk!UnderWay
  <2>4. CASE level # None
    <3>1. \A b \in Calls : ~ (Risk!IsBump(b) /\ Risk!UnderWay(b))
      BY <1>1, <2>4 DEF Risk!Start
    <3>2. riskArgs'[c].known = {b \in Calls : Risk!IsBump(b) /\ riskPc[b] = "done"}
      BY <1>1 DEF Risk!Start, Risk!TypeOK
    <3>3. riskPc'[c] # "done"
      BY <1>1 DEF Risk!Start, Risk!Goto, Risk!TypeOK
    <3>. QED BY <2>1, <2>2, <3>1, <3>2, <3>3 DEF RiskAlone, Risk!IsBump, Risk!UnderWay
  <2>. QED BY <2>3, <2>4
<1>2. ASSUME NEW c \in Calls, Risk!Run(c) \/ Risk!FastFault(c) \/ Risk!SlowFault(c)
      PROVE  RiskAlone'
  BY <1>2, RiskFrame DEF RiskAlone, Risk!IsBump, Risk!UnderWay, Risk!TypeOK
<1>3. CASE Risk!PurgeExpired \/ Risk!Tick
  BY <1>3 DEF Risk!PurgeExpired, Risk!Tick, RiskAlone, Risk!IsBump, Risk!UnderWay, Risk!callVars
<1>. QED BY <1>1, <1>2, <1>3 DEF Risk!Next

\* A bump that is under way knows of all that are done, and of no other under way.
LEMMA RiskSole ==
    ASSUME Risk!TypeOK, RiskRoles, RiskAlone, NEW c \in Calls, NEW b \in Calls,
           Risk!IsBump(c), Risk!UnderWay(c), RiskWrote(b), b # c
    PROVE  b \in riskArgs[c].known /\ riskPc[b] = "done"
  BY DEF RiskAlone, RiskWrote, Fasting, Risk!UnderWay

\* A write of the level and time that a bump decided on keeps what was written before.
LEMMA StoredWrite ==
    ASSUME Risk!TypeOK, RiskRoles, RiskAlone, RiskStored, RiskDecided, NEW c \in Calls,
           riskPc[c] \in {"slowinsert", "slowupdate"},
           riskSlow' = [level |-> riskPut[c], until |-> riskUntil[c]],
           \A d \in Calls \ {c} : riskPc'[d] = riskPc[d],
           UNCHANGED <<riskNow, riskArgs, riskUntil>>
    PROVE  RiskStored'
<1>. SUFFICES ASSUME NEW b \in Calls, RiskWrote(b)', riskUntil[b] > riskNow
              PROVE  riskUntil[c] >= riskUntil[b] /\ riskPut[c] >= riskArgs[b].bump
  <2>1. [level |-> riskPut[c], until |-> riskUntil[c]] \in Risk!Entry
    BY DEF RiskRoles, Risk!TypeOK, Risk!MaybeLevel, Risk!Entry
  <2>. QED BY <2>1, RiskAssumed DEF RiskStored
<1>1. CASE b = c
  <2>1. Risk!IsBump(c)
    BY DEF RiskRoles, Writing
  <2>2. riskPut[c] \in Nat /\ riskWant[c] \in Nat /\ riskArgs[c].bump \in Nat /\ riskUntil[c] \in Nat
    BY <2>1, RiskAssumed, ZenonT(40) DEF RiskRoles, Risk!IsBump, Risk!TypeOK, Risk!MaybeLevel
  <2>3. riskPut[c] >= riskWant[c] /\ riskWant[c] >= riskArgs[c].bump
    BY <2>1 DEF RiskRoles, RiskDecided, PutsEnough
  <2>. QED BY <1>1, <2>2, <2>3
<1>2. CASE b # c
  <2>1. b \in riskArgs[c].known
    BY <1>2, RiskSole DEF RiskWrote, Risk!IsBump, Risk!UnderWay, RiskRoles, Writing
  <2>. QED BY <2>1 DEF RiskDecided, PutsEnough, Covers
<1>. QED BY <1>1, <1>2

\* A step that writes nothing, and deletes no more than an expired row, keeps it.
LEMMA StoredQuiet ==
    ASSUME Risk!TypeOK, RiskStored,
           riskSlow' = riskSlow \/ (riskSlow' = None /\ ~ Risk!Alive(riskSlow)),
           riskNow' \in Nat, riskNow' >= riskNow,
           \A b \in Calls : RiskWrote(b)' =>
               RiskWrote(b) /\ riskUntil'[b] = riskUntil[b] /\ riskArgs'[b] = riskArgs[b]
    PROVE  RiskStored'
  BY DEF RiskStored, Risk!TypeOK, Risk!Alive, Risk!Entry

\* A call under way that leaves the row alone, or deletes an expired one, and has
\* written nothing yet.
LEMMA StoredCall ==
    ASSUME Risk!TypeOK, RiskRoles, RiskStored, NEW c \in Calls,
           Risk!Run(c) \/ Risk!FastFault(c) \/ Risk!SlowFault(c),
           riskSlow' = riskSlow \/ (riskSlow' = None /\ ~ Risk!Alive(riskSlow)),
           RiskWrote(c)' => RiskWrote(c) /\ riskUntil'[c] = riskUntil[c]
    PROVE  RiskStored'
<1>1. \A b \in Calls : RiskWrote(b)' =>
          RiskWrote(b) /\ riskUntil'[b] = riskUntil[b] /\ riskArgs'[b] = riskArgs[b]
  BY RiskFrame DEF RiskWrote, Risk!IsBump
<1>2. riskNow' = riskNow
  BY RiskFrame
<1>. QED BY <1>1, <1>2, StoredQuiet DEF Risk!TypeOK

\* What a bump wrote stays in the database until its ttl is over.
LEMMA RiskStoredStep ==
    ASSUME Risk!TypeOK, RiskRoles, RiskAlone, RiskStored, RiskDecided,
       riskExcuses' = {}, Risk!Next
    PROVE  RiskStored'
<1>1. ASSUME NEW c \in Calls, NEW level \in Levels \union {None}, Risk!Start(c, level)
      PROVE  RiskStored'
  <2>1. \A b \in Calls : RiskWrote(b)' =>
            RiskWrote(b) /\ riskUntil'[b] = riskUntil[b] /\ riskArgs'[b] = riskArgs[b]
    BY <1>1 DEF Risk!Start, Risk!Goto, RiskWrote, Fasting, Risk!IsBump, Risk!TypeOK
  <2>. QED BY <1>1, <2>1, StoredQuiet DEF Risk!Start, Risk!TypeOK
<1>2. ASSUME NEW c \in Calls, Risk!FastGet(c)
      PROVE  RiskStored'
  <2>1. RiskWrote(c)' => RiskWrote(c) /\ riskUntil'[c] = riskUntil[c]
    <3>1. riskPc'[c] # "done" \/ ~ Risk!IsBump(c)
      BY <1>2, RiskFrame DEF Risk!FastGet, Risk!Known, Risk!Goto, Risk!TypeOK
    <3>2. riskPc'[c] \notin Fasting
      BY <1>2 DEF Risk!FastGet, Risk!Known, Risk!Goto, Risk!Finish, Risk!TypeOK, Fasting
    <3>. QED BY <1>2, <3>1, <3>2 DEF Risk!FastGet, RiskWrote, Risk!IsBump
  <2>. QED BY <1>2, <2>1, StoredCall DEF Risk!Run, Risk!FastGet
<1>3. ASSUME NEW c \in Calls, Risk!SlowGet(c)
      PROVE  RiskStored'
  <2>1. RiskWrote(c)' => RiskWrote(c) /\ riskUntil'[c] = riskUntil[c]
    <3>1. riskPc'[c] # "done" \/ ~ Risk!IsBump(c)
      BY <1>3, RiskFrame DEF Risk!SlowGet, Risk!Known, Risk!Goto, Risk!TypeOK
    <3>2. riskPc'[c] \notin Fasting
      BY <1>3 DEF Risk!SlowGet, Risk!Known, Risk!Goto, Risk!Finish, Risk!TypeOK, Fasting
    <3>. QED BY <1>3, <3>1, <3>2 DEF Risk!SlowGet, RiskWrote, Risk!IsBump
  <2>. QED BY <1>3, <2>1, StoredCall DEF Risk!Run, Risk!SlowGet
<1>4. ASSUME NEW c \in Calls, Risk!SlowDelete(c)
      PROVE  RiskStored'
  <2>1. RiskWrote(c)' => RiskWrote(c) /\ riskUntil'[c] = riskUntil[c]
    <3>1. riskPc'[c] # "done" \/ ~ Risk!IsBump(c)
      BY <1>4, RiskFrame DEF Risk!SlowDelete, Risk!Known, Risk!Goto, Risk!TypeOK
    <3>2. riskPc'[c] \notin Fasting
      BY <1>4 DEF Risk!SlowDelete, Risk!Known, Risk!Goto, Risk!Finish, Risk!TypeOK,
         Fasting
    <3>. QED BY <1>4, <3>1, <3>2 DEF Risk!SlowDelete, RiskWrote, Risk!IsBump
  <2>. QED BY <1>4, <2>1, StoredCall DEF Risk!Run, Risk!SlowDelete
<1>5. ASSUME NEW c \in Calls, Risk!SlowRead(c)
      PROVE  RiskStored'
  <2>1. RiskWrote(c)' => RiskWrote(c) /\ riskUntil'[c] = riskUntil[c]
    BY <1>5 DEF Risk!SlowRead, Risk!Goto, RiskWrote, Fasting, Risk!IsBump, Risk!TypeOK
  <2>2. riskSlow' = riskSlow
    BY <1>5 DEF Risk!SlowRead
  <2>. QED BY <1>5, <2>1, <2>2, StoredCall DEF Risk!Run
<1>6. ASSUME NEW c \in Calls, Risk!SlowUpdate(c)
      PROVE  RiskStored'
  <2>1. \A d \in Calls \ {c} : riskPc'[d] = riskPc[d]
    BY <1>6, RiskFrame DEF Risk!Run
  <2>2. CASE riskSlow # None
    <3>1. riskSlow' = [level |-> riskPut[c], until |-> riskUntil[c]]
      BY <1>6, <2>2 DEF Risk!SlowUpdate, RiskDecided, RowStands
    <3>. QED BY <1>6, <2>1, <2>2, <3>1, StoredWrite DEF Risk!SlowUpdate
  <2>3. CASE ~ (riskSlow # None)
    <3>1. riskPc'[c] \notin Fasting \union {"done"}
      BY <1>6, <2>3 DEF Risk!SlowUpdate, Risk!Goto, Risk!TypeOK, Fasting
    <3>2. ~ RiskWrote(c)'
      BY <3>1 DEF RiskWrote
    <3>. QED BY <1>6, <2>3, <3>2, StoredCall DEF Risk!Run, Risk!SlowUpdate
  <2>. QED BY <2>2, <2>3
<1>7. ASSUME NEW c \in Calls, Risk!SlowInsert(c)
      PROVE  RiskStored'
  <2>1. \A d \in Calls \ {c} : riskPc'[d] = riskPc[d]
    BY <1>7, RiskFrame DEF Risk!Run
  <2>2. CASE riskSlow = None
    <3>1. riskSlow' = [level |-> riskPut[c], until |-> riskUntil[c]]
      BY <1>7, <2>2 DEF Risk!SlowInsert, RiskDecided, RowStands
    <3>. QED BY <1>7, <2>1, <2>2, <3>1, StoredWrite DEF Risk!SlowInsert
  <2>3. CASE ~ (riskSlow = None)
    <3>1. riskPc'[c] \notin Fasting \union {"done"}
      BY <1>7, <2>3 DEF Risk!SlowInsert, Risk!Goto, Risk!TypeOK, Fasting
    <3>2. ~ RiskWrote(c)'
      BY <3>1 DEF RiskWrote
    <3>. QED BY <1>7, <2>3, <3>2, StoredCall DEF Risk!Run, Risk!SlowInsert
  <2>. QED BY <2>2, <2>3
<1>8. ASSUME NEW c \in Calls, Risk!SlowReget(c)
      PROVE  RiskStored'
  <2>1. RiskWrote(c)' => RiskWrote(c) /\ riskUntil'[c] = riskUntil[c]
    BY <1>8 DEF Risk!SlowReget, Risk!Goto, RiskWrote, Fasting, Risk!IsBump, Risk!TypeOK
  <2>2. riskSlow' = riskSlow
    BY <1>8 DEF Risk!SlowReget
  <2>. QED BY <1>8, <2>1, <2>2, StoredCall DEF Risk!Run
<1>9. ASSUME NEW c \in Calls, Risk!FastRead(c)
      PROVE  RiskStored'
  <2>1. RiskWrote(c)' => RiskWrote(c) /\ riskUntil'[c] = riskUntil[c]
    BY <1>9 DEF Risk!FastRead, Risk!Goto, RiskWrote, Fasting, Risk!IsBump, Risk!TypeOK
  <2>2. riskSlow' = riskSlow
    BY <1>9 DEF Risk!FastRead
  <2>. QED BY <1>9, <2>1, <2>2, StoredCall DEF Risk!Run
<1>10. ASSUME NEW c \in Calls, Risk!FastSet(c)
      PROVE  RiskStored'
  <2>1. RiskWrote(c)' => RiskWrote(c) /\ riskUntil'[c] = riskUntil[c]
    BY <1>10 DEF Risk!FastSet, Risk!Goto, Risk!Finish, RiskWrote, Fasting,
       Risk!IsBump, Risk!TypeOK
  <2>2. riskSlow' = riskSlow
    BY <1>10 DEF Risk!FastSet
  <2>. QED BY <1>10, <2>1, <2>2, StoredCall DEF Risk!Run
<1>11. ASSUME NEW c \in Calls, Risk!FastFault(c)
      PROVE  RiskStored'
  <2>1. RiskWrote(c)' => RiskWrote(c) /\ riskUntil'[c] = riskUntil[c]
    BY <1>11 DEF Risk!FastFault, Risk!Goto, Risk!Finish, RiskWrote, Fasting,
       Risk!IsBump, Risk!TypeOK
  <2>2. riskSlow' = riskSlow
    BY <1>11 DEF Risk!FastFault
  <2>. QED BY <1>11, <2>1, <2>2, StoredCall
<1>12. ASSUME NEW c \in Calls, Risk!SlowFault(c)
      PROVE  RiskStored'
  <2>1. RiskWrote(c)' => RiskWrote(c) /\ riskUntil'[c] = riskUntil[c]
    BY <1>12 DEF Risk!SlowFault, Risk!Goto, RiskWrote, Fasting, Risk!IsBump, Risk!TypeOK
  <2>2. riskSlow' = riskSlow
    BY <1>12 DEF Risk!SlowFault
  <2>. QED BY <1>12, <2>1, <2>2, StoredCall
<1>13. ASSUME Risk!PurgeExpired
      PROVE  RiskStored'
  <2>1. \A b \in Calls : RiskWrote(b)' =>
            RiskWrote(b) /\ riskUntil'[b] = riskUntil[b] /\ riskArgs'[b] = riskArgs[b]
    BY <1>13 DEF Risk!PurgeExpired, Risk!callVars, RiskWrote, Risk!IsBump
  <2>. QED BY <1>13, <2>1, StoredQuiet DEF Risk!PurgeExpired, Risk!TypeOK
<1>14. ASSUME Risk!Tick
      PROVE  RiskStored'
  <2>1. \A b \in Calls : RiskWrote(b)' =>
            RiskWrote(b) /\ riskUntil'[b] = riskUntil[b] /\ riskArgs'[b] = riskArgs[b]
    BY <1>14 DEF Risk!Tick, Risk!callVars, RiskWrote, Risk!IsBump
  <2>. QED BY <1>14, <2>1, StoredQuiet DEF Risk!Tick, Risk!TypeOK
<1>. QED BY <1>1, <1>2, <1>3, <1>4, <1>5, <1>6, <1>7, <1>8, <1>9, <1>10, <1>11, <1>12,
   <1>13, <1>14 DEF Risk!Next, Risk!Run


\* What a call knows of is done, so what its bumps wrote stands still.
LEMMA KnownStand ==
    ASSUME Risk!TypeOK, RiskRoles, NEW c \in Calls,
           Risk!Run(c) \/ Risk!FastFault(c) \/ Risk!SlowFault(c),
           NEW d \in Calls, NEW b \in riskArgs[d].known
    PROVE  b \in Calls /\ riskPc[b] = "done" /\ Risk!IsBump(b) /\ riskUntil'[b] = riskUntil[b]
  BY RiskFrame DEF RiskRoles, Risk!UnderWay, Risk!TypeOK

LEMMA MissedCall ==
    ASSUME Risk!TypeOK, RiskRoles, RiskMissed, NEW c \in Calls,
           Risk!Run(c) \/ Risk!FastFault(c) \/ Risk!SlowFault(c),
           riskPc'[c] = "slowdel" =>
               \A b \in riskArgs[c].known : riskUntil[b] <= riskNow
    PROVE  RiskMissed'
  BY RiskFrame, KnownStand DEF RiskMissed

\* A call is told nothing only when all it knows of has lapsed.
LEMMA RiskMissedStep ==
    ASSUME Risk!TypeOK, RiskRoles, RiskStored, RiskMissed, Risk!Next
    PROVE  RiskMissed'
<1>1. ASSUME NEW c \in Calls, NEW level \in Levels \union {None}, Risk!Start(c, level)
      PROVE  RiskMissed'
  BY <1>1 DEF Risk!Start, Risk!Goto, RiskMissed, Risk!TypeOK
<1>2. ASSUME NEW c \in Calls, Risk!SlowGet(c)
      PROVE  RiskMissed'
  <2>1. CASE riskSlow = None \/ Risk!Alive(riskSlow)
    <3>1. riskPc'[c] # "slowdel"
      BY <1>2, <2>1 DEF Risk!SlowGet, Risk!Known, Risk!Goto, Risk!Finish, Risk!TypeOK, Risk!Alive
    <3>. QED BY <1>2, <3>1, MissedCall DEF Risk!Run
  <2>2. CASE riskSlow # None /\ ~ Risk!Alive(riskSlow)
    <3>1. ASSUME NEW b \in riskArgs[c].known
          PROVE  riskUntil[b] <= riskNow
      <4>1. b \in Calls /\ RiskWrote(b) /\ riskUntil[b] \in Nat
        BY DEF RiskRoles, RiskWrote, Risk!TypeOK
      <4>. QED BY <2>2, <4>1 DEF RiskStored, Risk!Alive, Risk!TypeOK, Risk!Entry
    <3>. QED BY <1>2, <3>1, MissedCall DEF Risk!Run
  <2>. QED BY <2>1, <2>2
<1>3. ASSUME NEW c \in Calls, Risk!Run(c) \/ Risk!FastFault(c) \/ Risk!SlowFault(c),
             ~ Risk!SlowGet(c)
      PROVE  RiskMissed'
  <2>1. riskPc'[c] # "slowdel"
    <3>1. CASE Risk!FastGet(c) \/ Risk!SlowDelete(c)
      BY <3>1 DEF Risk!FastGet, Risk!SlowDelete, Risk!Known, Risk!Goto, Risk!Finish, Risk!TypeOK
    <3>2. CASE Risk!SlowUpdate(c) \/ Risk!SlowInsert(c)
      BY <3>2 DEF Risk!SlowUpdate, Risk!SlowInsert, Risk!Written, Risk!Goto, Risk!Finish, Risk!TypeOK
    <3>3. CASE Risk!SlowRead(c) \/ Risk!SlowReget(c) \/ Risk!FastRead(c) \/ Risk!FastSet(c)
      BY <3>3 DEF Risk!SlowRead, Risk!SlowReget, Risk!FastRead, Risk!FastSet, Risk!Goto,
         Risk!Finish, Risk!TypeOK
    <3>4. CASE Risk!FastFault(c) \/ Risk!SlowFault(c)
      BY <3>4 DEF Risk!FastFault, Risk!SlowFault, Risk!Goto, Risk!Finish, Risk!TypeOK
    <3>. QED BY <1>3, <3>1, <3>2, <3>3, <3>4 DEF Risk!Run
  <2>. QED BY <1>3, <2>1, MissedCall
<1>4. CASE Risk!PurgeExpired
  BY <1>4 DEF Risk!PurgeExpired, Risk!callVars, RiskMissed
<1>5. CASE Risk!Tick
  BY <1>5 DEF Risk!Tick, Risk!callVars, RiskMissed, RiskRoles, Risk!TypeOK
<1>. QED BY <1>1, <1>2, <1>3, <1>4, <1>5 DEF Risk!Next, Risk!Run


\* While one call moves, what the others decided stands.
LEMMA DecidedOthers ==
    ASSUME Risk!TypeOK, RiskRoles, RiskAlone, RiskDecided, NEW c \in Calls,
           Risk!Run(c) \/ Risk!FastFault(c) \/ Risk!SlowFault(c),
           ~ Risk!IsBump(c) =>
               riskSlow' = riskSlow \/ (riskSlow' = None /\ ~ Risk!Alive(riskSlow)),
           NEW d \in Calls \ {c}
    PROVE  (WantsEnough(d) /\ PutsEnough(d) /\ RowStands(d))'
<1>1. CASE riskPc[d] \notin Writing \union Fasting
  BY <1>1, RiskFrame DEF WantsEnough, PutsEnough, RowStands, Writing, Fasting
<1>2. CASE riskPc[d] \in Writing \union Fasting
  <2>1. Risk!IsBump(d) /\ Risk!UnderWay(d)
    BY <1>2 DEF RiskRoles, Writing, Fasting, Risk!UnderWay
  <2>2. ~ Risk!IsBump(c)
    BY <2>1, RiskFrame DEF RiskAlone
  <2>3. \A l : Covers(l, d)' <=> Covers(l, d)
    BY RiskFrame, KnownStand DEF Covers
  <2>4. \A b \in riskArgs[d].known : riskUntil'[b] = riskUntil[b]
    BY KnownStand
  <2>5. /\ riskPc'[d] = riskPc[d] /\ riskWant'[d] = riskWant[d] /\ riskPut'[d] = riskPut[d]
        /\ riskSeen'[d] = riskSeen[d] /\ riskUntil'[d] = riskUntil[d]
        /\ riskArgs' = riskArgs /\ riskNow' = riskNow
    BY RiskFrame
  <2>6. WantsEnough(d)'
    BY <2>2, <2>3, <2>5 DEF RiskDecided, WantsEnough, Risk!Alive
  <2>7. PutsEnough(d)'
    BY <2>3, <2>4, <2>5 DEF RiskDecided, PutsEnough
  <2>8. RowStands(d)'
    BY <2>2, <2>5 DEF RiskDecided, RowStands, Risk!Alive
  <2>. QED BY <2>6, <2>7, <2>8
<1>. QED BY <1>1, <1>2

\* A bump that found a level no lower than what it knows of, and than the row's.
LEMMA DecidedKnown ==
    ASSUME Risk!TypeOK, RiskRoles, NEW c \in Calls, NEW l \in Risk!MaybeLevel,
           riskPc[c] \in {"fastget", "slowget", "slowdel"}, Risk!Known(c, l), Risk!IsBump(c),
           Tiered => \A b \in riskArgs[c].known : riskUntil[b] > riskNow =>
                         l # None /\ l >= riskArgs[b].bump,
           Tiered /\ Risk!Alive(riskSlow)' => l # None /\ l >= riskSlow'.level,
           riskSlow' \in Risk!Entry \union {None},
           UNCHANGED <<riskNow, riskArgs, riskUntil>>
    PROVE  (WantsEnough(c) /\ PutsEnough(c) /\ RowStands(c))'
<1>1. riskPc'[c] = "slowread" /\ riskWant'[c] \in Nat /\ (l # None => l \in Nat /\ riskWant'[c] >= l)
  BY KnownEffect, RiskAssumed DEF Risk!MaybeLevel
<1>2. ASSUME Tiered PROVE Covers(riskWant[c], c)'
  <2>. SUFFICES ASSUME NEW b \in riskArgs[c].known, riskUntil[b] > riskNow
                PROVE  riskWant'[c] >= riskArgs[b].bump
    BY DEF Covers
  <2>1. riskArgs[b].bump \in Nat
    BY RiskAssumed DEF RiskRoles, Risk!IsBump, Risk!TypeOK, Risk!MaybeLevel
  <2>. QED BY <1>1, <1>2, <2>1
<1>3. ASSUME Tiered, Risk!Alive(riskSlow)' PROVE riskWant'[c] >= riskSlow'.level
  <2>1. riskSlow'.level \in Nat
    BY <1>3, RiskAssumed DEF Risk!Alive, Risk!Entry
  <2>. QED BY <1>1, <1>3, <2>1
<1>4. WantsEnough(c)'
  BY <1>2, <1>3 DEF WantsEnough
<1>. QED BY <1>1, <1>4 DEF PutsEnough, RowStands

\* What is stored covers what a call knows of.
LEMMA StoredCovers ==
    ASSUME Risk!TypeOK, RiskRoles, RiskStored, NEW c \in Calls,
           NEW b \in riskArgs[c].known, riskUntil[b] > riskNow
    PROVE  Risk!Alive(riskSlow) /\ riskSlow.level >= riskArgs[b].bump
<1>1. b \in Calls /\ RiskWrote(b)
  BY DEF RiskRoles, RiskWrote, Risk!TypeOK
<1>. QED BY <1>1 DEF RiskStored, Risk!Alive, Risk!TypeOK, Risk!Entry

\* The write of what a bump decided leaves it with a level to say.
LEMMA DecidedWrite ==
    ASSUME Risk!TypeOK, RiskRoles, RiskDecided, NEW c \in Calls,
           riskPc[c] \in {"slowinsert", "slowupdate"}, Risk!Written(c),
           riskSlow' = [level |-> riskPut[c], until |-> riskUntil[c]],
           UNCHANGED <<riskNow, riskArgs, riskUntil, riskWant>>
    PROVE  (WantsEnough(c) /\ PutsEnough(c) /\ RowStands(c))'
<1>1. riskPc'[c] \in {"fastread", "done"}
  BY WrittenEffect, StoresAssumption DEF Risk!RiskAssumption
<1>2. ASSUME Tiered
      PROVE  Covers(riskWant[c], c) /\ riskPut[c] = riskWant[c] /\ riskWant[c] \in Nat
  <2>1. Risk!IsBump(c)
    BY DEF RiskRoles, Writing
  <2>. QED BY <1>2, <2>1, RiskAssumed DEF RiskDecided, WantsEnough, PutsEnough, Writing, RiskRoles,
           Risk!TypeOK, Risk!MaybeLevel
<1>3. Covers(riskWant[c], c)' <=> Covers(riskWant[c], c)
  BY DEF Covers
<1>4. WantsEnough(c)'
  BY <1>2, <1>3 DEF WantsEnough
<1>. QED BY <1>1, <1>4 DEF PutsEnough, RowStands

\* What a bump decides as it reads the row.
LEMMA DecidedRead ==
    ASSUME Risk!TypeOK, RiskRoles, RiskStored, RiskDecided, NEW c \in Calls, Risk!SlowRead(c)
    PROVE  (WantsEnough(c) /\ PutsEnough(c) /\ RowStands(c))'
<1>1. /\ Risk!IsBump(c) /\ riskWant[c] \in Levels /\ riskWant[c] \in Nat
      /\ riskWant' = riskWant /\ riskArgs' = riskArgs /\ riskNow' = riskNow
      /\ riskSlow' = riskSlow
  BY RiskAssumed DEF Risk!SlowRead, RiskRoles, Writing, Risk!TypeOK, Risk!MaybeLevel
<1>2. \/ riskPc'[c] = "slowinsert" /\ riskSlow = None
      \/ riskPc'[c] = "slowclear" /\ ~ Risk!Alive(riskSlow)
      \/ riskPc'[c] = "slowupdate" /\ Risk!Alive(riskSlow) /\ riskSeen'[c] = riskSlow.level
  BY DEF Risk!SlowRead, Risk!Goto, Risk!TypeOK
<1>3. riskUntil'[c] = riskNow + Ttl /\ \A b \in Calls \ {c} : riskUntil'[b] = riskUntil[b]
  BY DEF Risk!SlowRead, Risk!TypeOK
<1>4. /\ riskPut'[c] \in Nat /\ riskPut'[c] >= riskWant[c]
      /\ Risk!Alive(riskSlow) => riskPut'[c] >= riskSlow.level
      /\ Tiered => riskPut'[c] = riskWant[c]
  <2>1. CASE Risk!Alive(riskSlow)
    <3>1. riskSlow.level \in Levels /\ riskSlow.level \in Nat
      BY <2>1, RiskAssumed DEF Risk!Alive, Risk!TypeOK, Risk!Entry
    <3>2. riskPut'[c] = Risk!Higher(riskSlow.level, riskWant[c])
      BY <2>1 DEF Risk!SlowRead, Risk!TypeOK
    <3>3. riskPut'[c] \in Nat /\ riskPut'[c] >= riskWant[c] /\ riskPut'[c] >= riskSlow.level
      BY <1>1, <3>1, <3>2, HigherLevel, RiskAssumed
    <3>4. Tiered => riskWant[c] >= riskSlow.level
      BY <1>1, <2>1 DEF RiskDecided, WantsEnough, Risk!SlowRead, Writing
    <3>5. Tiered => riskPut'[c] = riskWant[c]
      BY <1>1, <3>1, <3>2, <3>4, RiskAssumed DEF Risk!Higher
    <3>. QED BY <3>3, <3>5
  <2>2. CASE ~ Risk!Alive(riskSlow)
    <3>1. riskPut'[c] = riskWant[c]
      BY <2>2 DEF Risk!SlowRead, Risk!TypeOK
    <3>. QED BY <1>1, <2>2, <3>1
  <2>. QED BY <2>1, <2>2
<1>5. ASSUME NEW b \in riskArgs[c].known
      PROVE  /\ b \in Calls /\ riskUntil'[b] = riskUntil[b]
             /\ riskArgs[b].bump \in Nat
             /\ riskUntil[b] <= riskNow + Ttl
  BY <1>1, <1>3, RiskAssumed, ZenonT(40) DEF RiskRoles, Risk!SlowRead, Risk!IsBump, Risk!TypeOK, Risk!MaybeLevel
<1>6. Covers(riskPut[c], c)'
  <2>. SUFFICES ASSUME NEW b \in riskArgs[c].known, riskUntil[b] > riskNow
                PROVE  riskPut'[c] >= riskArgs[b].bump
    BY <1>1, <1>5 DEF Covers
  <2>1. Risk!Alive(riskSlow) /\ riskSlow.level >= riskArgs[b].bump
    BY StoredCovers
  <2>2. riskSlow.level \in Nat
    BY <2>1, RiskAssumed DEF Risk!Alive, Risk!TypeOK, Risk!Entry
  <2>. QED BY <1>4, <1>5, <2>1, <2>2
<1>7. WantsEnough(c)'
  <2>1. Tiered => WantsEnough(c) /\ Covers(riskWant[c], c)
    BY DEF RiskDecided, WantsEnough, Risk!SlowRead, Writing
  <2>2. Tiered => Covers(riskWant[c], c)'
    BY <1>1, <1>5, <2>1 DEF Covers
  <2>. QED BY <1>1, <2>1, <2>2 DEF WantsEnough, Risk!Alive, Risk!SlowRead, Writing
<1>8. PutsEnough(c)'
  <2>1. \A b \in riskArgs'[c].known : riskUntil'[c] >= riskUntil'[b]
    BY <1>1, <1>3, <1>5, RiskAssumed DEF Risk!TypeOK
  <2>. QED BY <1>1, <1>4, <1>6, <2>1 DEF PutsEnough
<1>9. RowStands(c)'
  BY <1>1, <1>2, <1>4 DEF RowStands, Risk!Alive
<1>. QED BY <1>7, <1>8, <1>9


\* Only a bump writes, and without a late DELETE only an expired row is deleted.
LEMMA GetWritesNothing ==
    ASSUME Risk!TypeOK, RiskRoles, NEW c \in Calls, riskExcuses' = {},
           Risk!Run(c) \/ Risk!FastFault(c) \/ Risk!SlowFault(c), ~ Risk!IsBump(c)
    PROVE  riskSlow' = riskSlow \/ (riskSlow' = None /\ ~ Risk!Alive(riskSlow))
<1>1. riskPc[c] \notin Writing \union Fasting
  BY DEF RiskRoles
<1>2. CASE Risk!SlowDelete(c)
  BY <1>2 DEF Risk!SlowDelete
<1>3. CASE ~ Risk!SlowDelete(c)
  BY <1>1, <1>3 DEF Risk!Run, Risk!FastGet, Risk!SlowGet, Risk!SlowRead, Risk!SlowUpdate,
     Risk!SlowInsert, Risk!SlowReget, Risk!FastRead, Risk!FastSet, Risk!FastFault,
     Risk!SlowFault, Writing
<1>. QED BY <1>2, <1>3

\* A bump's own step decides no less than it should.
LEMMA DecidedSelf ==
    ASSUME Risk!TypeOK, RiskRoles, RiskKept, Risk!TypeOK', NEW c \in Calls,
           Risk!Run(c) \/ Risk!FastFault(c) \/ Risk!SlowFault(c),
           Risk!IsBump(c), riskExcuses' = {}
    PROVE  (WantsEnough(c) /\ PutsEnough(c) /\ RowStands(c))'
<1>. USE DEF RiskKept
<1>. DEFINE Goal == (WantsEnough(c) /\ PutsEnough(c) /\ RowStands(c))'
<1>0. Risk!UnderWay(c) /\ riskArgs' = riskArgs /\ riskNow' = riskNow
  BY RiskFrame
<1>q. ASSUME riskPc'[c] \notin Writing \union Fasting
      PROVE  Goal
  BY <1>q DEF WantsEnough, PutsEnough, RowStands, Writing, Fasting
<1>1. CASE Risk!FastGet(c)
  <2>1. CASE ~ Risk!Alive(riskFast)
    <3>1. riskPc'[c] = "slowget"
      BY <1>1, <2>1 DEF Risk!FastGet, Risk!Goto, Risk!TypeOK
    <3>. QED BY <3>1, <1>q DEF Writing, Fasting
  <2>2. CASE Risk!Alive(riskFast)
    <3>1. riskFast.level \in Risk!MaybeLevel /\ riskFast.level # None
      BY <2>2, RiskAssumed DEF Risk!Alive, Risk!TypeOK, Risk!Entry, Risk!MaybeLevel
    <3>2. \A b \in riskArgs[c].known : riskUntil[b] > riskNow =>
              riskFast.level >= riskArgs[b].bump
      BY <2>2 DEF RiskFast, RiskRoles, Risk!TypeOK
    <3>3. ASSUME NEW d \in Calls PROVE riskPc[d] \notin Fasting
      BY <1>0, <1>1 DEF RiskAlone, RiskRoles, Risk!UnderWay, Fasting, Risk!FastGet
    <3>4. Risk!Alive(riskSlow) => riskFast.level >= riskSlow.level
      BY <2>2, <3>3 DEF RiskFast
    <3>. QED BY <1>1, <2>2, <3>1, <3>2, <3>4, DecidedKnown DEF Risk!FastGet, Risk!Alive, Risk!TypeOK
  <2>. QED BY <2>1, <2>2
<1>2. CASE Risk!SlowGet(c)
  <2>1. CASE riskSlow = None
    <3>1. \A b \in riskArgs[c].known : ~ (riskUntil[b] > riskNow)
      BY <2>1, StoredCovers DEF Risk!Alive
    <3>2. Risk!Known(c, None)
      BY <1>2, <2>1 DEF Risk!SlowGet, Risk!Alive
    <3>. QED BY <1>2, <2>1, <3>1, <3>2, DecidedKnown DEF Risk!SlowGet, Risk!Alive, Risk!TypeOK,
             Risk!MaybeLevel
  <2>2. CASE Risk!Alive(riskSlow)
    <3>1. riskSlow.level \in Risk!MaybeLevel /\ riskSlow.level # None /\ riskSlow.level \in Nat
      BY <2>2, RiskAssumed DEF Risk!Alive, Risk!TypeOK, Risk!Entry, Risk!MaybeLevel
    <3>2. Risk!Known(c, riskSlow.level)
      BY <1>2, <2>2 DEF Risk!SlowGet, Risk!Alive
    <3>. QED BY <1>2, <2>2, <3>1, <3>2, StoredCovers, DecidedKnown, SMTT(20) DEF Risk!SlowGet, Risk!TypeOK
  <2>3. CASE riskSlow # None /\ ~ Risk!Alive(riskSlow)
    <3>1. riskPc'[c] = "slowdel"
      BY <1>2, <2>3 DEF Risk!SlowGet, Risk!Goto, Risk!TypeOK
    <3>. QED BY <3>1, <1>q DEF Writing, Fasting
  <2>. QED BY <2>1, <2>2, <2>3
<1>3. CASE Risk!SlowDelete(c)
  <2>0. riskSlow' = None /\ ~ Risk!Alive(riskSlow)'
    BY <1>3 DEF Risk!SlowDelete, Risk!Alive
  <2>1. CASE riskPc[c] = "slowdel"
    <3>1. \A b \in riskArgs[c].known : ~ (riskUntil[b] > riskNow)
      BY <2>1 DEF RiskMissed, RiskRoles, Risk!TypeOK
    <3>2. Risk!Known(c, None)
      BY <1>3, <2>1 DEF Risk!SlowDelete
    <3>. QED BY <1>3, <2>0, <2>1, <3>1, <3>2, DecidedKnown DEF Risk!SlowDelete, Risk!MaybeLevel
  <2>2. CASE riskPc[c] = "slowclear"
    <3>1. /\ riskPc'[c] = "slowinsert"
          /\ UNCHANGED <<riskNow, riskArgs, riskWant, riskPut, riskUntil>>
      BY <1>3, <2>2 DEF Risk!SlowDelete, Risk!Goto, Risk!TypeOK
    <3>2. WantsEnough(c) /\ PutsEnough(c)
      BY DEF RiskDecided
    <3>3. \A l : Covers(l, c)' <=> Covers(l, c)
      BY <3>1 DEF Covers
    <3>4. WantsEnough(c)'
      BY <2>0, <2>2, <3>1, <3>2, <3>3 DEF WantsEnough, Writing
    <3>5. PutsEnough(c)'
      BY <2>2, <3>1, <3>2, <3>3 DEF PutsEnough
    <3>6. RowStands(c)'
      BY <2>0, <3>1 DEF RowStands
    <3>. QED BY <3>4, <3>5, <3>6
  <2>. QED BY <1>3, <2>1, <2>2 DEF Risk!SlowDelete
<1>4. CASE Risk!SlowRead(c)
  BY <1>4, DecidedRead
<1>5. CASE Risk!SlowUpdate(c)
  <2>1. CASE riskSlow = None
    <3>1. riskPc'[c] = "error"
      BY <1>5, <2>1 DEF Risk!SlowUpdate, Risk!Goto, Risk!TypeOK
    <3>. QED BY <3>1, <1>q DEF Writing, Fasting
  <2>2. CASE riskSlow # None
    <3>1. riskSlow' = [level |-> riskPut[c], until |-> riskUntil[c]]
      BY <1>5, <2>2 DEF Risk!SlowUpdate, RiskDecided, RowStands
    <3>. QED BY <1>5, <2>2, <3>1, DecidedWrite DEF Risk!SlowUpdate
  <2>. QED BY <2>1, <2>2
<1>6. CASE Risk!SlowInsert(c)
  <2>1. riskSlow = None
    BY <1>6 DEF Risk!SlowInsert, RiskDecided, RowStands
  <2>. QED BY <1>6, <2>1, DecidedWrite DEF Risk!SlowInsert
<1>7. CASE Risk!SlowReget(c)
  BY <1>7 DEF Risk!SlowReget, RiskDecided, RowStands
<1>8. CASE Risk!FastRead(c)
  <2>1. /\ riskPc'[c] = "fastset"
        /\ UNCHANGED <<riskNow, riskArgs, riskSlow, riskWant, riskUntil>>
        /\ riskWant[c] \in Levels /\ riskWant[c] \in Nat
    BY <1>8, RiskAssumed, ZenonT(40)
      DEF Risk!FastRead, Risk!Goto, RiskRoles, Risk!TypeOK, Risk!MaybeLevel
  <2>2. riskPut'[c] >= riskWant[c]
    <3>1. CASE Risk!Alive(riskFast)
      <4>1. riskFast.level \in Levels
        BY <3>1 DEF Risk!Alive, Risk!TypeOK, Risk!Entry
      <4>2. riskPut'[c] = Risk!Higher(riskFast.level, riskWant[c])
        BY <1>8, <3>1 DEF Risk!FastRead, Risk!TypeOK
      <4>. QED BY <2>1, <4>1, <4>2, HigherLevel
    <3>2. CASE ~ Risk!Alive(riskFast)
      <4>1. riskPut'[c] = riskWant[c]
        BY <1>8, <3>2 DEF Risk!FastRead, Risk!TypeOK
      <4>. QED BY <2>1, <4>1
    <3>. QED BY <3>1, <3>2
  <2>3. Covers(riskWant[c], c)' <=> Covers(riskWant[c], c)
    BY <2>1 DEF Covers
  <2>4. WantsEnough(c)'
    BY <1>8, <2>1, <2>3 DEF RiskDecided, WantsEnough, Risk!FastRead, Fasting, Risk!Alive
  <2>. QED BY <2>1, <2>2, <2>4 DEF PutsEnough, RowStands
<1>9. CASE Risk!FastSet(c) \/ Risk!FastFault(c) \/ Risk!SlowFault(c)
  <2>1. riskPc'[c] \in {"done", "error", "slowget"}
    BY <1>9 DEF Risk!FastSet, Risk!FastFault, Risk!SlowFault, Risk!Goto, Risk!Finish, Risk!TypeOK
  <2>. QED BY <2>1, <1>q DEF Writing, Fasting
<1>. QED BY <1>1, <1>2, <1>3, <1>4, <1>5, <1>6, <1>7, <1>8, <1>9 DEF Risk!Run

\* What bumps decide on covers what they know of and what the row says.
LEMMA RiskDecidedStep ==
    ASSUME Risk!TypeOK, RiskRoles, RiskKept, Risk!TypeOK', RiskRoles', Risk!Next,
           riskExcuses' = {}
    PROVE  RiskDecided'
<1>1. ASSUME NEW c \in Calls, NEW level \in Levels \union {None}, Risk!Start(c, level),
             NEW d \in Calls
      PROVE  (WantsEnough(d) /\ PutsEnough(d) /\ RowStands(d))'
  <2>1. CASE d = c
    <3>1. riskPc'[c] \in {"fastget", "slowget", "slowread"} /\ (Tiered => riskPc'[c] = "fastget")
      BY <1>1 DEF Risk!Start, Risk!Goto, Risk!TypeOK
    <3>. QED BY <2>1, <3>1 DEF WantsEnough, PutsEnough, RowStands, Writing, Fasting
  <2>2. CASE d # c
    <3>1. /\ riskPc'[d] = riskPc[d] /\ riskWant'[d] = riskWant[d] /\ riskArgs'[d] = riskArgs[d]
          /\ UNCHANGED <<riskNow, riskSlow, riskPut, riskSeen, riskUntil>>
      BY <1>1, <2>2 DEF Risk!Start, Risk!Goto, Risk!TypeOK
    <3>2. ASSUME NEW b \in riskArgs[d].known PROVE b \in Calls /\ riskArgs'[b] = riskArgs[b]
      BY <1>1 DEF RiskRoles, Risk!Start, Risk!TypeOK
    <3>3. \A l : Covers(l, d)' <=> Covers(l, d)
      BY <3>1, <3>2 DEF Covers
    <3>4. WantsEnough(d) /\ PutsEnough(d) /\ RowStands(d)
      BY DEF RiskKept, RiskDecided
    <3>5. WantsEnough(d)'
      BY <3>1, <3>3, <3>4 DEF WantsEnough, Risk!Alive
    <3>6. PutsEnough(d)'
      BY <3>1, <3>3, <3>4 DEF PutsEnough
    <3>7. RowStands(d)'
      BY <3>1, <3>4 DEF RowStands, Risk!Alive
    <3>. QED BY <3>5, <3>6, <3>7
  <2>. QED BY <2>1, <2>2
<1>2. ASSUME NEW c \in Calls, Risk!Run(c) \/ Risk!FastFault(c) \/ Risk!SlowFault(c),
             NEW d \in Calls
      PROVE  (WantsEnough(d) /\ PutsEnough(d) /\ RowStands(d))'
  <2>1. CASE d # c
    BY <1>2, <2>1, GetWritesNothing, DecidedOthers DEF RiskKept
  <2>2. CASE d = c /\ Risk!IsBump(c)
    BY <1>2, <2>2, DecidedSelf
  <2>3. CASE d = c /\ ~ Risk!IsBump(c)
    <3>1. riskPc'[c] \notin Writing \union Fasting
      BY <1>2, <2>3, RiskFrame DEF RiskRoles, Risk!IsBump
    <3>. QED BY <2>3, <3>1 DEF WantsEnough, PutsEnough, RowStands, Writing, Fasting
  <2>. QED BY <2>1, <2>2, <2>3
<1>3. ASSUME Risk!PurgeExpired \/ Risk!Tick, NEW d \in Calls
      PROVE  (WantsEnough(d) /\ PutsEnough(d) /\ RowStands(d))'
  <2>1. /\ UNCHANGED Risk!callVars
        /\ riskNow' \in Nat /\ riskNow' >= riskNow
        /\ riskSlow' = riskSlow \/ (riskSlow' = None /\ ~ Risk!Alive(riskSlow))
    BY <1>3 DEF Risk!PurgeExpired, Risk!Tick, Risk!TypeOK
  <2>2. Risk!Alive(riskSlow)' => Risk!Alive(riskSlow) /\ riskSlow' = riskSlow
    BY <2>1 DEF Risk!Alive, Risk!TypeOK, Risk!Entry
  <2>3. \A l : Covers(l, d) => Covers(l, d)'
    BY <2>1 DEF Covers, RiskRoles, Risk!TypeOK, Risk!callVars
  <2>4. WantsEnough(d) /\ PutsEnough(d) /\ RowStands(d)
    BY DEF RiskKept, RiskDecided
  <2>5. WantsEnough(d)'
    BY <2>1, <2>2, <2>3, <2>4 DEF WantsEnough, Risk!callVars
  <2>6. PutsEnough(d)'
    BY <2>1, <2>3, <2>4 DEF PutsEnough, Risk!callVars
  <2>7. RowStands(d)'
    BY <2>1, <2>2, <2>4 DEF RowStands, Risk!callVars
  <2>. QED BY <2>5, <2>6, <2>7
<1>. QED BY <1>1, <1>2, <1>3 DEF Risk!Next, RiskDecided


\* The fast tier stays what it was, and no bump joins those that are done.
LEMMA FastQuiet ==
    ASSUME Risk!TypeOK, RiskFast,
           riskFast' = riskFast, riskNow' \in Nat, riskNow' >= riskNow,
           riskSlow' = riskSlow \/ (riskSlow' = None /\ ~ Risk!Alive(riskSlow)),
           \A b \in Calls : (Risk!IsBump(b) /\ riskPc[b] = "done")' =>
               /\ Risk!IsBump(b) /\ riskPc[b] = "done"
               /\ riskUntil'[b] = riskUntil[b] /\ riskArgs'[b] = riskArgs[b],
           \A b \in Calls : riskPc[b] \in Fasting => riskPc'[b] \in Fasting
    PROVE  RiskFast'
<1>1. Risk!Alive(riskFast)' => Risk!Alive(riskFast)
  BY DEF Risk!Alive, Risk!TypeOK, Risk!Entry
<1>2. Risk!Alive(riskSlow)' => Risk!Alive(riskSlow) /\ riskSlow' = riskSlow
  BY DEF Risk!Alive, Risk!TypeOK, Risk!Entry
<1>3. riskFast' # None => Tiered
  BY DEF RiskFast
<1>4. ASSUME Risk!Alive(riskFast)', NEW b \in Calls, (Risk!IsBump(b) /\ riskPc[b] = "done")',
             riskUntil'[b] > riskNow'
      PROVE  riskFast'.level >= riskArgs'[b].bump
  BY <1>1, <1>4 DEF RiskFast, Risk!TypeOK
<1>5. ASSUME Risk!Alive(riskFast)', Risk!Alive(riskSlow)', \A c \in Calls : riskPc'[c] \notin Fasting
      PROVE  riskFast'.level >= riskSlow'.level
  BY <1>1, <1>2, <1>5 DEF RiskFast
<1>. QED BY <1>3, <1>4, <1>5 DEF RiskFast

LEMMA FastCall ==
    ASSUME Risk!TypeOK, RiskRoles, RiskFast, NEW c \in Calls,
           Risk!Run(c) \/ Risk!FastFault(c) \/ Risk!SlowFault(c),
           riskFast' = riskFast,
           riskSlow' = riskSlow \/ (riskSlow' = None /\ ~ Risk!Alive(riskSlow)),
           riskPc'[c] # "done" \/ ~ Risk!IsBump(c),
           riskPc[c] \in Fasting => riskPc'[c] \in Fasting
    PROVE  RiskFast'
<1>1. \A b \in Calls : (Risk!IsBump(b) /\ riskPc[b] = "done")' =>
               /\ Risk!IsBump(b) /\ riskPc[b] = "done"
               /\ riskUntil'[b] = riskUntil[b] /\ riskArgs'[b] = riskArgs[b]
  BY RiskFrame DEF Risk!IsBump
<1>2. \A b \in Calls : riskPc[b] \in Fasting => riskPc'[b] \in Fasting
  BY RiskFrame
<1>3. riskNow' = riskNow /\ riskNow \in Nat
  BY RiskFrame DEF Risk!TypeOK
<1>. QED BY <1>1, <1>2, <1>3, FastQuiet

\* A write to the row leaves a bump between the tiers, or there is only one tier.
LEMMA FastWrite ==
    ASSUME Risk!TypeOK, RiskRoles, RiskFast, NEW c \in Calls,
           Risk!SlowUpdate(c) \/ Risk!SlowInsert(c), Risk!Written(c)
    PROVE  RiskFast'
<1>1. riskArgs' = riskArgs /\ riskNow' = riskNow /\ riskFast' = riskFast /\ riskUntil' = riskUntil
  BY DEF Risk!SlowUpdate, Risk!SlowInsert
<1>2. CASE Tiered
  <2>1. riskPc'[c] = "fastread" /\ \A d \in Calls \ {c} : riskPc'[d] = riskPc[d]
    BY <1>2, WrittenEffect
  <2>2. Risk!Alive(riskFast)' <=> Risk!Alive(riskFast)
    BY <1>1 DEF Risk!Alive
  <2>3. \A b \in Calls : Risk!IsBump(b)' <=> Risk!IsBump(b)
    BY <1>1 DEF Risk!IsBump
  <2>. QED BY <1>1, <1>2, <2>1, <2>2, <2>3 DEF RiskFast, Fasting
<1>3. CASE ~ Tiered
  BY <1>1, <1>3 DEF RiskFast, Risk!Alive
<1>. QED BY <1>2, <1>3

\* The fast tier is told no less than the row and than all bumps done.
LEMMA FastWritten ==
    ASSUME Risk!TypeOK, RiskRoles, RiskAlone, RiskDecided, RiskFast, NEW c \in Calls,
           Risk!FastSet(c)
    PROVE  RiskFast'
<1>1. /\ Tiered /\ Risk!IsBump(c) /\ Risk!UnderWay(c)
      /\ riskPut[c] \in Nat /\ riskWant[c] \in Nat /\ riskArgs[c].bump \in Nat
      /\ riskPut[c] >= riskWant[c] /\ riskWant[c] >= riskArgs[c].bump
  BY RiskAssumed DEF Risk!FastSet, RiskRoles, RiskDecided, PutsEnough, Risk!UnderWay, Fasting,
     Risk!IsBump, Risk!TypeOK, Risk!MaybeLevel
<1>2. Covers(riskWant[c], c) /\ (Risk!Alive(riskSlow) => riskWant[c] >= riskSlow.level)
  BY <1>1 DEF Risk!FastSet, RiskDecided, WantsEnough, Fasting
<1>3. /\ riskFast'.level = riskPut[c]
      /\ UNCHANGED <<riskNow, riskSlow, riskArgs, riskUntil>>
      /\ \A d \in Calls \ {c} : riskPc'[d] = riskPc[d]
  BY DEF Risk!FastSet, Risk!Finish, Risk!Goto, Risk!TypeOK
<1>4. ASSUME NEW b \in Calls, (Risk!IsBump(b) /\ riskPc[b] = "done")', riskUntil[b] > riskNow
      PROVE  riskPut[c] >= riskArgs[b].bump
  <2>1. CASE b = c
    BY <1>1, <2>1
  <2>2. CASE b # c
    <3>1. b \in riskArgs[c].known
      BY <1>1, <1>3, <1>4, <2>2 DEF RiskAlone, Risk!IsBump
    <3>2. riskWant[c] >= riskArgs[b].bump /\ riskArgs[b].bump \in Nat
      BY <1>2, <1>3, <1>4, <3>1, RiskAssumed DEF Covers, Risk!IsBump, Risk!TypeOK, Risk!MaybeLevel
    <3>. QED BY <1>1, <3>2
  <2>. QED BY <2>1, <2>2
<1>5. Risk!Alive(riskSlow) => riskPut[c] >= riskSlow.level
  <2>1. Risk!Alive(riskSlow) => riskSlow.level \in Nat
    BY RiskAssumed DEF Risk!Alive, Risk!TypeOK, Risk!Entry
  <2>. QED BY <1>1, <1>2, <2>1
<1>6. Risk!Alive(riskSlow)' <=> Risk!Alive(riskSlow)
  BY <1>3 DEF Risk!Alive
<1>. QED BY <1>1, <1>3, <1>4, <1>5, <1>6 DEF RiskFast

\* The fast tier is no lower than the row, unless a bump is between the two.
LEMMA RiskFastStep ==
    ASSUME Risk!TypeOK, RiskRoles, RiskAlone, RiskDecided, RiskFast, riskExcuses'
       = {}, Risk!Next
    PROVE  RiskFast'
<1>1. ASSUME NEW c \in Calls, NEW level \in Levels \union {None}, Risk!Start(c, level)
      PROVE  RiskFast'
  <2>1. \A b \in Calls : (Risk!IsBump(b) /\ riskPc[b] = "done")' =>
                 /\ Risk!IsBump(b) /\ riskPc[b] = "done"
                 /\ riskUntil'[b] = riskUntil[b] /\ riskArgs'[b] = riskArgs[b]
    BY <1>1 DEF Risk!Start, Risk!Goto, Risk!IsBump, Risk!TypeOK
  <2>2. \A b \in Calls : riskPc[b] \in Fasting => riskPc'[b] \in Fasting
    BY <1>1 DEF Risk!Start, Risk!Goto, Risk!TypeOK, Fasting
  <2>. QED BY <1>1, <2>1, <2>2, FastQuiet DEF Risk!TypeOK, Risk!Start
<1>2. ASSUME NEW c \in Calls, Risk!FastGet(c)
      PROVE  RiskFast'
  <2>1. riskPc'[c] # "done" \/ ~ Risk!IsBump(c)
    BY <1>2 DEF Risk!FastGet, Risk!Known, Risk!Goto, Risk!TypeOK
  <2>2. riskPc[c] \in Fasting => riskPc'[c] \in Fasting
    BY <1>2 DEF Risk!FastGet, Risk!Known, Risk!Goto, Risk!TypeOK, Fasting
  <2>. QED BY <1>2, <2>1, <2>2, FastCall DEF Risk!Run, Risk!FastGet
<1>3. ASSUME NEW c \in Calls, Risk!SlowGet(c)
      PROVE  RiskFast'
  <2>1. riskPc'[c] # "done" \/ ~ Risk!IsBump(c)
    BY <1>3 DEF Risk!SlowGet, Risk!Known, Risk!Goto, Risk!TypeOK
  <2>2. riskPc[c] \in Fasting => riskPc'[c] \in Fasting
    BY <1>3 DEF Risk!SlowGet, Risk!Known, Risk!Goto, Risk!TypeOK, Fasting
  <2>. QED BY <1>3, <2>1, <2>2, FastCall DEF Risk!Run, Risk!SlowGet
<1>4. ASSUME NEW c \in Calls, Risk!SlowDelete(c)
      PROVE  RiskFast'
  <2>1. riskPc'[c] # "done" \/ ~ Risk!IsBump(c)
    BY <1>4 DEF Risk!SlowDelete, Risk!Known, Risk!Goto, Risk!TypeOK
  <2>2. riskPc[c] \in Fasting => riskPc'[c] \in Fasting
    BY <1>4 DEF Risk!SlowDelete, Risk!Known, Risk!Goto, Risk!TypeOK, Fasting
  <2>. QED BY <1>4, <2>1, <2>2, FastCall DEF Risk!Run, Risk!SlowDelete
<1>5. ASSUME NEW c \in Calls, Risk!SlowRead(c)
      PROVE  RiskFast'
  <2>1. riskPc'[c] # "done" \/ ~ Risk!IsBump(c)
    BY <1>5 DEF Risk!SlowRead, Risk!Goto, Risk!TypeOK
  <2>2. riskPc[c] \in Fasting => riskPc'[c] \in Fasting
    BY <1>5 DEF Risk!SlowRead, Risk!Goto, Risk!TypeOK, Fasting
  <2>. QED BY <1>5, <2>1, <2>2, FastCall DEF Risk!Run, Risk!SlowRead
<1>6. ASSUME NEW c \in Calls, Risk!SlowUpdate(c)
      PROVE  RiskFast'
  <2>1. CASE riskSlow # None
    BY <1>6, <2>1, FastWrite DEF Risk!SlowUpdate
  <2>2. CASE ~ (riskSlow # None)
    <3>1. riskPc'[c] \in {"error", "slowreget"} /\ riskPc[c] \notin Fasting
      BY <1>6, <2>2 DEF Risk!SlowUpdate, Risk!Goto, Risk!TypeOK, Fasting
    <3>. QED BY <1>6, <2>2, <3>1, FastCall DEF Risk!Run, Risk!SlowUpdate
  <2>. QED BY <2>1, <2>2
<1>7. ASSUME NEW c \in Calls, Risk!SlowInsert(c)
      PROVE  RiskFast'
  <2>1. CASE riskSlow = None
    BY <1>7, <2>1, FastWrite DEF Risk!SlowInsert
  <2>2. CASE ~ (riskSlow = None)
    <3>1. riskPc'[c] \in {"error", "slowreget"} /\ riskPc[c] \notin Fasting
      BY <1>7, <2>2 DEF Risk!SlowInsert, Risk!Goto, Risk!TypeOK, Fasting
    <3>. QED BY <1>7, <2>2, <3>1, FastCall DEF Risk!Run, Risk!SlowInsert
  <2>. QED BY <2>1, <2>2
<1>8. ASSUME NEW c \in Calls, Risk!SlowReget(c)
      PROVE  RiskFast'
  <2>1. riskPc'[c] # "done" \/ ~ Risk!IsBump(c)
    BY <1>8 DEF Risk!SlowReget, Risk!Goto, Risk!TypeOK
  <2>2. riskPc[c] \in Fasting => riskPc'[c] \in Fasting
    BY <1>8 DEF Risk!SlowReget, Risk!Goto, Risk!TypeOK, Fasting
  <2>. QED BY <1>8, <2>1, <2>2, FastCall DEF Risk!Run, Risk!SlowReget
<1>9. ASSUME NEW c \in Calls, Risk!FastRead(c)
      PROVE  RiskFast'
  <2>1. riskPc'[c] # "done" \/ ~ Risk!IsBump(c)
    BY <1>9 DEF Risk!FastRead, Risk!Goto, Risk!TypeOK
  <2>2. riskPc[c] \in Fasting => riskPc'[c] \in Fasting
    BY <1>9 DEF Risk!FastRead, Risk!Goto, Risk!TypeOK, Fasting
  <2>. QED BY <1>9, <2>1, <2>2, FastCall DEF Risk!Run, Risk!FastRead
<1>10. ASSUME NEW c \in Calls, Risk!FastSet(c)
      PROVE  RiskFast'
  BY <1>10, FastWritten
<1>11. ASSUME NEW c \in Calls, Risk!FastFault(c)
      PROVE  RiskFast'
  <2>1. riskPc[c] = "fastget" /\ riskPc'[c] = "slowget"
    BY <1>11 DEF Risk!FastFault, Risk!Goto, Risk!TypeOK
  <2>. QED BY <1>11, <2>1, FastCall DEF Risk!FastFault, Fasting
<1>12. ASSUME NEW c \in Calls, Risk!SlowFault(c)
      PROVE  RiskFast'
  <2>1. riskPc'[c] = "error" /\ riskPc[c] \notin Fasting
    BY <1>12 DEF Risk!SlowFault, Risk!Goto, Risk!TypeOK, Fasting
  <2>. QED BY <1>12, <2>1, FastCall DEF Risk!SlowFault
<1>13. ASSUME Risk!PurgeExpired
      PROVE  RiskFast'
  <2>1. \A b \in Calls : (Risk!IsBump(b) /\ riskPc[b] = "done")' =>
                 /\ Risk!IsBump(b) /\ riskPc[b] = "done"
                 /\ riskUntil'[b] = riskUntil[b] /\ riskArgs'[b] = riskArgs[b]
    BY <1>13 DEF Risk!PurgeExpired, Risk!callVars, Risk!IsBump, Risk!TypeOK
  <2>2. \A b \in Calls : riskPc[b] \in Fasting => riskPc'[b] \in Fasting
    BY <1>13 DEF Risk!PurgeExpired, Risk!callVars, Risk!TypeOK, Fasting
  <2>. QED BY <1>13, <2>1, <2>2, FastQuiet DEF Risk!TypeOK, Risk!PurgeExpired
<1>14. ASSUME Risk!Tick
      PROVE  RiskFast'
  <2>1. \A b \in Calls : (Risk!IsBump(b) /\ riskPc[b] = "done")' =>
                 /\ Risk!IsBump(b) /\ riskPc[b] = "done"
                 /\ riskUntil'[b] = riskUntil[b] /\ riskArgs'[b] = riskArgs[b]
    BY <1>14 DEF Risk!Tick, Risk!callVars, Risk!IsBump, Risk!TypeOK
  <2>2. \A b \in Calls : riskPc[b] \in Fasting => riskPc'[b] \in Fasting
    BY <1>14 DEF Risk!Tick, Risk!callVars, Risk!TypeOK, Fasting
  <2>. QED BY <1>14, <2>1, <2>2, FastQuiet DEF Risk!TypeOK, Risk!Tick
<1>. QED BY <1>1, <1>2, <1>3, <1>4, <1>5, <1>6, <1>7, <1>8, <1>9, <1>10, <1>11, <1>12,
   <1>13, <1>14 DEF Risk!Next, Risk!Run


\* A step that ends no call keeps what calls were told.
LEMMA RememberedQuiet ==
    ASSUME Risk!TypeOK, RiskRoles, Risk!Remembered, riskNow' \in Nat, riskNow' >= riskNow,
           \A c \in Calls : riskPc'[c] = "done" =>
               /\ riskPc[c] = "done" /\ riskResult'[c] = riskResult[c]
               /\ riskArgs'[c] = riskArgs[c]
               /\ \A b \in riskArgs[c].known :
                      riskUntil'[b] = riskUntil[b] /\ riskArgs'[b] = riskArgs[b]
    PROVE  Risk!Remembered'
<1>1. ASSUME NEW c \in Calls, riskPc'[c] = "done", NEW b \in riskArgs'[c].known,
             riskUntil'[b] > riskNow'
      PROVE  riskResult'[c] # None /\ riskResult'[c] >= riskArgs'[b].bump
  <2>1. b \in riskArgs[c].known /\ b \in Calls /\ riskUntil[b] > riskNow
    BY <1>1 DEF Risk!TypeOK
  <2>. QED BY <1>1, <2>1 DEF Risk!Remembered
<1>. QED BY <1>1 DEF Risk!Remembered

\* The call that ends is told enough.
LEMMA RememberedCall ==
    ASSUME Risk!TypeOK, RiskRoles, Risk!Remembered, NEW c \in Calls,
           Risk!Run(c) \/ Risk!FastFault(c) \/ Risk!SlowFault(c),
           riskPc'[c] = "done" =>
               \A b \in riskArgs[c].known : riskUntil[b] > riskNow =>
                   riskResult'[c] # None /\ riskResult'[c] >= riskArgs[b].bump
    PROVE  Risk!Remembered'
  BY RiskFrame, KnownStand DEF Risk!Remembered

\* What a call is told is no less than what was reported before and still counts.
LEMMA RiskRememberedStep ==
    ASSUME Risk!TypeOK, RiskRoles, RiskKept, Risk!Next, riskExcuses' = {}
    PROVE  Risk!Remembered'
<1>. USE DEF RiskKept
<1>1. ASSUME NEW c \in Calls, NEW level \in Levels \union {None}, Risk!Start(c, level)
      PROVE  Risk!Remembered'
  <2>1. riskPc'[c] # "done" /\ riskPc[c] = "idle"
    BY <1>1 DEF Risk!Start, Risk!Goto, Risk!TypeOK
  <2>2. \A d \in Calls \ {c} : riskPc'[d] = riskPc[d] /\ riskArgs'[d] = riskArgs[d]
    BY <1>1 DEF Risk!Start, Risk!Goto, Risk!TypeOK
  <2>3. UNCHANGED <<riskNow, riskUntil, riskResult>>
    BY <1>1 DEF Risk!Start
  <2>4. \A d \in Calls : \A b \in riskArgs[d].known : b \in Calls /\ b # c
    BY <2>1 DEF RiskRoles, Risk!TypeOK
  <2>. QED BY <2>1, <2>2, <2>3, <2>4, RememberedQuiet DEF Risk!TypeOK
<1>2. ASSUME NEW c \in Calls, Risk!Run(c) \/ Risk!FastFault(c) \/ Risk!SlowFault(c)
      PROVE  Risk!Remembered'
  <2>. SUFFICES ASSUME riskPc'[c] = "done", NEW b \in riskArgs[c].known,
                       riskUntil[b] > riskNow
                PROVE  riskResult'[c] # None /\ riskResult'[c] >= riskArgs[b].bump
    BY <1>2, RememberedCall
  <2>0. /\ b \in Calls /\ Risk!IsBump(b) /\ riskPc[b] = "done"
        /\ Risk!Alive(riskSlow) /\ riskSlow.level >= riskArgs[b].bump
    BY StoredCovers DEF RiskRoles, Risk!TypeOK
  <2>t. \A e \in Risk!Entry : e.level # None
    BY RiskAssumed DEF Risk!Entry
  <2>1. CASE Risk!FastGet(c)
    <3>1. Risk!Alive(riskFast) /\ Risk!Known(c, riskFast.level) /\ riskFast.level \in Risk!MaybeLevel
      BY <2>1 DEF Risk!FastGet, Risk!Goto, Risk!TypeOK, Risk!Alive, Risk!Entry, Risk!MaybeLevel
    <3>2. riskResult'[c] = riskFast.level
      BY <2>1, <3>1, KnownEffect DEF Risk!FastGet
    <3>. QED BY <2>0, <2>t, <3>1, <3>2 DEF RiskFast, Risk!Alive, Risk!TypeOK
  <2>2. CASE Risk!SlowGet(c)
    <3>1. Risk!Known(c, riskSlow.level) /\ riskSlow.level \in Risk!MaybeLevel
      BY <2>0, <2>2 DEF Risk!SlowGet, Risk!TypeOK, Risk!Alive, Risk!Entry, Risk!MaybeLevel
    <3>2. riskResult'[c] = riskSlow.level
      BY <2>2, <3>1, KnownEffect DEF Risk!SlowGet
    <3>. QED BY <2>0, <2>t, <3>2 DEF Risk!Alive, Risk!TypeOK
  <2>3. CASE Risk!SlowDelete(c)
    BY <2>0, <2>3 DEF Risk!SlowDelete
  <2>4. CASE Risk!SlowUpdate(c) \/ Risk!SlowInsert(c)
    <3>1. ~ Tiered /\ Risk!Written(c)
      BY <2>4, WrittenEffect DEF Risk!SlowUpdate, Risk!SlowInsert, Risk!Goto, Risk!TypeOK
    <3>2. riskResult'[c] = riskPut[c]
      BY <3>1, WrittenEffect
    <3>. QED BY <2>4, <3>2 DEF RiskDecided, PutsEnough, Covers, RiskRoles, Risk!SlowUpdate, Risk!SlowInsert
  <2>5. CASE Risk!FastSet(c)
    <3>1. riskResult'[c] = riskWant[c] /\ Tiered /\ riskWant[c] # None
      BY <2>5 DEF Risk!FastSet, Risk!Finish, RiskRoles, Fasting, Risk!TypeOK
    <3>. QED BY <2>5, <3>1 DEF RiskDecided, WantsEnough, Covers, Fasting, Risk!FastSet
  <2>6. CASE Risk!SlowRead(c) \/ Risk!SlowReget(c) \/ Risk!FastRead(c) \/ Risk!SlowFault(c)
    BY <2>6 DEF Risk!SlowRead, Risk!SlowReget, Risk!FastRead, Risk!SlowFault, Risk!Goto, Risk!TypeOK
  <2>7. CASE Risk!FastFault(c)
    BY <2>7 DEF Risk!FastFault, Risk!Goto, Risk!TypeOK
  <2>. QED BY <1>2, <2>1, <2>2, <2>3, <2>4, <2>5, <2>6, <2>7 DEF Risk!Run
<1>3. CASE Risk!PurgeExpired \/ Risk!Tick
  <2>1. /\ UNCHANGED Risk!callVars /\ riskNow' \in Nat /\ riskNow' >= riskNow
    BY <1>3 DEF Risk!PurgeExpired, Risk!Tick, Risk!TypeOK
  <2>. QED BY <2>1, RememberedQuiet DEF Risk!callVars
<1>. QED BY <1>1, <1>2, <1>3 DEF Risk!Next

\* The invariant of the risk store is inductive.
LEMMA RiskInvInit == Risk!Init => RiskInv
<1>. SUFFICES ASSUME Risk!Init PROVE RiskInv
  OBVIOUS
<1>1. Risk!TypeOK
  BY RiskAssumed DEF Risk!Init, Risk!TypeOK, Risk!Entry, Risk!MaybeLevel, Risk!PCs, Risk!Causes,
     Risk!NoArgs
<1>2. RiskRoles
  <2>1. \A c \in Calls : /\ riskPc[c] = "idle" /\ riskArgs[c] = Risk!NoArgs
                         /\ riskWant[c] = None /\ riskUntil[c] = 0 /\ riskNow = 0
    BY DEF Risk!Init
  <2>0. Risk!NoArgs.bump = None /\ Risk!NoArgs.known = {}
    BY DEF Risk!NoArgs
  <2>2. \A c \in Calls : riskArgs[c].bump = None /\ riskArgs[c].known = {}
    BY <2>0, <2>1
  <2>3. ASSUME NEW c \in Calls PROVE riskUntil[c] <= riskNow + Ttl
    <3>1. riskUntil[c] = 0 /\ riskNow = 0
      BY <2>1
    <3>. QED BY <3>1, RiskAssumed
  <2>. QED BY <2>1, <2>2, <2>3 DEF RiskRoles, Risk!IsBump, Writing, Fasting
<1>3. RiskAlone /\ RiskStored /\ RiskMissed /\ RiskFast /\ Risk!Remembered
  BY DEF Risk!Init, RiskAlone, RiskStored, RiskMissed, RiskFast, Risk!Remembered, Risk!NoArgs,
     Risk!IsBump, RiskWrote, Risk!Alive
<1>4. RiskDecided
  BY DEF Risk!Init, RiskDecided, WantsEnough, PutsEnough, RowStands, Writing, Fasting
<1>. QED BY <1>1, <1>2, <1>3, <1>4 DEF RiskInv, RiskKept

LEMMA RiskInvStep == RiskInv /\ Risk!Next => RiskInv'
<1>. SUFFICES ASSUME RiskInv, Risk!Next PROVE RiskInv'
  OBVIOUS
<1>1. Risk!TypeOK' /\ RiskRoles'
  BY RiskTypeStep, RiskRolesStep DEF RiskInv
<1>2. ASSUME riskExcuses' = {} PROVE RiskKept'
  <2>1. RiskKept
    BY <1>2, RiskExcusesStay DEF RiskInv
  <2>. QED BY <1>1, <1>2, <2>1, RiskAloneStep, RiskStoredStep, RiskMissedStep, RiskDecidedStep,
           RiskFastStep, RiskRememberedStep DEF RiskInv, RiskKept
<1>. QED BY <1>1, <1>2 DEF RiskInv

-----------------------------------------------------------------------------
(* Trust. *)

LEMMA TrustAssumed ==
    /\ None \notin Trust!Entry
    /\ Tiered \in BOOLEAN /\ Ttl \in Nat \ {0} /\ FastTtl \in 0..Ttl
    /\ MaxTime \in Nat /\ MaxFaults \in Nat
  BY StoresAssumption DEF Trust!TrustAssumption, Trust!Entry

\* The fast tier's time to live is not longer.
LEMMA TrustFastTtl ==
    ASSUME NEW t \in Nat
    PROVE  t + FastTtl <= t + Ttl
<1>1. Ttl \in Nat
  BY TrustAssumed
<1>2. FastTtl \in 0..Ttl
  BY TrustAssumed
<1>. QED BY <1>1, <1>2

\* What is not over later is not over yet.
LEMMA NotOverYet ==
    ASSUME NEW end \in Nat, NEW earlier \in Nat, NEW later \in Nat,
           later >= earlier, end > later
    PROVE  end > earlier
  OBVIOUS

\* Trust of an address until some time is a row.
LEMMA TrustEntry ==
    ASSUME NEW ip \in Ips, NEW t \in Nat
    PROVE  [ip |-> ip, until |-> t] \in Trust!Entry /\ [ip |-> ip, until |-> t] # None
  BY TrustAssumed DEF Trust!Entry


\* A trust lasts until some time.
LEMMA TrustUntil ==
    ASSUME Trust!TypeOK, NEW b \in Calls
    PROVE  Trust!Until(b) \in Nat /\ trustSpan[b].start \in Nat /\ Trust!Until(b) = trustSpan[b].start + Ttl
<1>1. trustSpan[b] \in [start: Nat, end: Nat]
  BY DEF Trust!TypeOK
<1>2. trustSpan[b].start \in Nat /\ Ttl \in Nat
  BY <1>1, TrustAssumed
<1>. QED BY <1>2 DEF Trust!Until

\* While no call takes a step, time passes or an expired row goes.
LEMMA TrustTime ==
    ASSUME Trust!TypeOK, Trust!PurgeExpired \/ Trust!Tick
    PROVE  /\ UNCHANGED Trust!callVars /\ trustFast' = trustFast /\ trustExcuses' = trustExcuses
           /\ trustNow \in Nat /\ trustNow' \in Nat /\ trustNow' >= trustNow
           /\ trustSlow' = trustSlow \/ (trustSlow' = None /\ ~ Trust!Alive(trustSlow))
<1>1. trustNow \in Nat
  BY DEF Trust!TypeOK
<1>2. CASE Trust!PurgeExpired
  BY <1>1, <1>2 DEF Trust!PurgeExpired
<1>3. CASE Trust!Tick
  BY <1>1, <1>3 DEF Trust!Tick
<1>. QED BY <1>2, <1>3

\* A call that ends leaves the others where they are.
LEMMA TrustEnd ==
    ASSUME Trust!TypeOK, NEW c \in Calls, NEW how \in {"done", "error"}, Trust!End(c, how)
    PROVE  /\ trustPc' \in [Calls -> Trust!PCs]
           /\ trustSpan' \in [Calls -> [start: Nat, end: Nat]]
           /\ trustPc'[c] = how /\ trustSpan'[c].end = trustNow
           /\ \A d \in Calls : trustSpan'[d].start = trustSpan[d].start
           /\ \A d \in Calls \ {c} : trustPc'[d] = trustPc[d] /\ trustSpan'[d] = trustSpan[d]
<1>1. trustPc' = [trustPc EXCEPT ![c] = how]
  BY DEF Trust!End, Trust!Goto
<1>2. trustSpan' = [trustSpan EXCEPT ![c] = [start |-> trustSpan[c].start, end |-> trustNow]]
  <2>1. trustSpan' = [trustSpan EXCEPT ![c] = [trustSpan[c] EXCEPT !.end = trustNow]]
    BY DEF Trust!End
  <2>2. trustSpan[c] \in [start: Nat, end: Nat]
    BY DEF Trust!TypeOK
  <2>3. [trustSpan[c] EXCEPT !.end = trustNow] = [start |-> trustSpan[c].start, end |-> trustNow]
    BY <2>2
  <2>. QED BY <2>1, <2>3
<1>3. trustSpan[c] \in [start: Nat, end: Nat] /\ trustNow \in Nat
  BY DEF Trust!TypeOK
<1>. QED BY <1>1, <1>2, <1>3 DEF Trust!TypeOK, Trust!PCs

\* Whatever step a call takes, it was under way, and the others stay where they are.
LEMMA TrustFrame ==
    ASSUME Trust!TypeOK, NEW c \in Calls,
           Trust!Run(c) \/ Trust!FastFault(c) \/ Trust!SlowFault(c)
    PROVE  /\ trustArgs' = trustArgs /\ trustNow' = trustNow
           /\ Trust!UnderWay(c)
           /\ trustPc' \in [Calls -> Trust!PCs]
           /\ trustSpan' \in [Calls -> [start: Nat, end: Nat]]
           /\ trustAnswer' \in [Calls -> BOOLEAN]
           /\ trustPc'[c] \in {"done", "error"} => trustSpan'[c].end = trustNow
           /\ \A d \in Calls : trustSpan'[d].start = trustSpan[d].start
           /\ \A d \in Calls \ {c} :
                 /\ trustPc'[d] = trustPc[d] /\ trustSpan'[d] = trustSpan[d]
                 /\ trustSeen'[d] = trustSeen[d] /\ trustAnswer'[d] = trustAnswer[d]
<1>. DEFINE Frame == /\ trustArgs' = trustArgs /\ trustNow' = trustNow
                     /\ Trust!UnderWay(c)
                     /\ \A d \in Calls \ {c} : trustSeen'[d] = trustSeen[d]
            Ended == \E how \in {"done", "error"} : Trust!End(c, how)
            Gone == /\ \E next \in Trust!PCs \ {"done", "error"} : Trust!Goto(c, next)
                    /\ trustSpan' = trustSpan
            Answers == \/ trustAnswer' = trustAnswer
                       \/ \E yes \in BOOLEAN : trustAnswer' = [trustAnswer EXCEPT ![c] = yes]
<1>1. CASE Trust!FastAsk(c) \/ Trust!SlowAsk(c) \/ Trust!SlowDelete(c)
  <2>1. Frame
    BY <1>1 DEF Trust!FastAsk, Trust!SlowAsk, Trust!SlowDelete, Trust!UnderWay
  <2>2. (Ended \/ Gone) /\ Answers
    <3>1. CASE Trust!FastAsk(c)
      BY <3>1 DEF Trust!FastAsk, Trust!Answer, Trust!PCs
    <3>2. CASE Trust!SlowAsk(c)
      <4>1. (trustSlow # None /\ Trust!Matches(trustArgs[c].ip, trustSlow.ip)) \in BOOLEAN
        BY DEF Trust!Matches
      <4>. QED BY <3>2, <4>1 DEF Trust!SlowAsk, Trust!Answer, Trust!PCs
    <3>3. CASE Trust!SlowDelete(c)
      BY <3>3 DEF Trust!SlowDelete, Trust!Answer
    <3>. QED BY <1>1, <3>1, <3>2, <3>3
  <2>3. /\ trustAnswer' \in [Calls -> BOOLEAN]
        /\ \A d \in Calls \ {c} : trustAnswer'[d] = trustAnswer[d]
    BY <2>2, SMTT(20) DEF Trust!TypeOK
  <2>4. CASE Ended
    BY <2>1, <2>3, <2>4, TrustEnd DEF Trust!TypeOK
  <2>5. CASE Gone
    BY <2>1, <2>3, <2>5 DEF Trust!Goto, Trust!TypeOK
  <2>. QED BY <2>2, <2>4, <2>5
<1>2. CASE Trust!SlowRead(c) \/ Trust!SlowReget(c) \/ Trust!SlowUpdate(c) \/ Trust!SlowInsert(c)
  <2>1. Frame /\ trustAnswer' = trustAnswer
    BY <1>2 DEF Trust!SlowRead, Trust!SlowReget, Trust!SlowUpdate, Trust!SlowInsert,
       Trust!UnderWay, Trust!TypeOK
  <2>2. Ended \/ Gone
    BY <1>2 DEF Trust!SlowRead, Trust!SlowReget, Trust!SlowUpdate, Trust!SlowInsert,
       Trust!Written, Trust!PCs
  <2>. QED BY <2>1, <2>2, TrustEnd DEF Trust!Goto, Trust!TypeOK
<1>3. CASE Trust!FastSet(c) \/ Trust!FastFault(c) \/ Trust!SlowFault(c)
  <2>1. Frame /\ trustAnswer' = trustAnswer
    BY <1>3 DEF Trust!FastSet, Trust!FastFault, Trust!SlowFault, Trust!UnderWay
  <2>2. Ended \/ Gone
    BY <1>3 DEF Trust!FastSet, Trust!FastFault, Trust!SlowFault, Trust!PCs
  <2>. QED BY <2>1, <2>2, TrustEnd DEF Trust!Goto, Trust!TypeOK
<1>. QED BY <1>1, <1>2, <1>3 DEF Trust!Run

\* Every variable of the trust store keeps its type.
LEMMA TrustTypeStep ==
    ASSUME Trust!TypeOK, TrustRoles, Trust!Next
    PROVE  Trust!TypeOK'
<1>1. ASSUME NEW c \in Calls, NEW kind \in {"trust", "ask"}, NEW ip \in Ips,
   Trust!Start(c, kind, ip)
      PROVE  Trust!TypeOK'
  <2>1. trustPc' \in [Calls -> Trust!PCs] /\ trustSpan' \in [Calls -> [start: Nat, end: Nat]]
    BY <1>1 DEF Trust!Start, Trust!Goto, Trust!TypeOK, Trust!PCs
  <2>2. trustArgs' \in [Calls -> [kind: {"none", "trust", "ask"}, ip: Ips \union {None}, known: SUBSET Calls]]
    BY <1>1 DEF Trust!Start, Trust!Trusts, Trust!TypeOK
  <2>. QED BY <1>1, <2>1, <2>2 DEF Trust!Start, Trust!TypeOK, Trust!Causes
<1>2. ASSUME NEW c \in Calls, Trust!FastAsk(c)
      PROVE  Trust!TypeOK'
  <2>1. /\ trustPc' \in [Calls -> Trust!PCs] /\ trustAnswer' \in [Calls -> BOOLEAN]
        /\ trustSpan' \in [Calls -> [start: Nat, end: Nat]]
    BY <1>2, TrustFrame DEF Trust!Run
  <2>. QED BY <1>2, <2>1 DEF Trust!FastAsk, Trust!TypeOK
<1>3. ASSUME NEW c \in Calls, Trust!SlowAsk(c)
      PROVE  Trust!TypeOK'
  <2>1. /\ trustPc' \in [Calls -> Trust!PCs] /\ trustAnswer' \in [Calls -> BOOLEAN]
        /\ trustSpan' \in [Calls -> [start: Nat, end: Nat]]
    BY <1>3, TrustFrame DEF Trust!Run
  <2>. QED BY <1>3, <2>1 DEF Trust!SlowAsk, Trust!TypeOK
<1>4. ASSUME NEW c \in Calls, Trust!SlowDelete(c)
      PROVE  Trust!TypeOK'
  <2>1. /\ trustPc' \in [Calls -> Trust!PCs] /\ trustAnswer' \in [Calls -> BOOLEAN]
        /\ trustSpan' \in [Calls -> [start: Nat, end: Nat]]
    BY <1>4, TrustFrame DEF Trust!Run
  <2>. QED BY <1>4, <2>1 DEF Trust!SlowDelete, Trust!TypeOK, Trust!Causes
<1>5. ASSUME NEW c \in Calls, Trust!SlowRead(c)
      PROVE  Trust!TypeOK'
  BY <1>5, TrustAssumed DEF Trust!SlowRead, Trust!Goto, Trust!TypeOK, Trust!PCs,
     Trust!Entry
<1>6. ASSUME NEW c \in Calls, Trust!SlowUpdate(c)
      PROVE  Trust!TypeOK'
  <2>1. trustPc' \in [Calls -> Trust!PCs] /\ trustSpan' \in [Calls -> [start: Nat, end: Nat]]
    BY <1>6, TrustFrame DEF Trust!Run
  <2>2. trustSlow' \in Trust!Entry \union {None}
    BY <1>6, TrustAssumed DEF Trust!SlowUpdate, Trust!TypeOK, Trust!Entry,
       Trust!Until, TrustRoles, TrustWriting
  <2>. QED BY <1>6, <2>1, <2>2 DEF Trust!SlowUpdate, Trust!TypeOK
<1>7. ASSUME NEW c \in Calls, Trust!SlowInsert(c)
      PROVE  Trust!TypeOK'
  <2>1. trustPc' \in [Calls -> Trust!PCs] /\ trustSpan' \in [Calls -> [start: Nat, end: Nat]]
    BY <1>7, TrustFrame DEF Trust!Run
  <2>2. trustSlow' \in Trust!Entry \union {None}
    BY <1>7, TrustAssumed DEF Trust!SlowInsert, Trust!TypeOK, Trust!Entry,
       Trust!Until, TrustRoles, TrustWriting
  <2>. QED BY <1>7, <2>1, <2>2 DEF Trust!SlowInsert, Trust!TypeOK
<1>8. ASSUME NEW c \in Calls, Trust!SlowReget(c)
      PROVE  Trust!TypeOK'
  <2>1. /\ trustPc' \in [Calls -> Trust!PCs] /\ trustAnswer' \in [Calls -> BOOLEAN]
        /\ trustSpan' \in [Calls -> [start: Nat, end: Nat]]
    BY <1>8, TrustFrame DEF Trust!Run
  <2>. QED BY <1>8, <2>1 DEF Trust!SlowReget, Trust!TypeOK, Trust!Entry
<1>9. ASSUME NEW c \in Calls, Trust!FastSet(c)
      PROVE  Trust!TypeOK'
  <2>1. trustPc' \in [Calls -> Trust!PCs] /\ trustSpan' \in [Calls -> [start: Nat, end: Nat]]
    BY <1>9, TrustFrame DEF Trust!Run
  <2>2. trustFast' \in Trust!Entry \union {None}
    BY <1>9, TrustAssumed DEF Trust!FastSet, Trust!TypeOK, Trust!Entry, TrustRoles
  <2>. QED BY <1>9, <2>1, <2>2 DEF Trust!FastSet, Trust!TypeOK
<1>10. ASSUME NEW c \in Calls, Trust!FastFault(c)
      PROVE  Trust!TypeOK'
  <2>1. trustPc' \in [Calls -> Trust!PCs] /\ trustSpan' \in [Calls -> [start: Nat, end: Nat]]
    BY <1>10, TrustFrame
  <2>2. trustExcuses' \in SUBSET Trust!Causes
    BY <1>10 DEF Trust!FastFault, Trust!TypeOK, Trust!Causes
  <2>3. /\ trustFaults' = trustFaults + 1
        /\ UNCHANGED <<trustNow, trustSlow, trustFast, trustArgs, trustSeen, trustAnswer>>
    BY <1>10 DEF Trust!FastFault
  <2>. QED BY <2>1, <2>2, <2>3 DEF Trust!TypeOK
<1>11. ASSUME NEW c \in Calls, Trust!SlowFault(c)
      PROVE  Trust!TypeOK'
  <2>1. /\ trustPc' \in [Calls -> Trust!PCs] /\ trustAnswer' \in [Calls -> BOOLEAN]
        /\ trustSpan' \in [Calls -> [start: Nat, end: Nat]]
    BY <1>11, TrustFrame
  <2>. QED BY <1>11, <2>1 DEF Trust!SlowFault, Trust!TypeOK
<1>12. ASSUME Trust!PurgeExpired
      PROVE  Trust!TypeOK'
  BY <1>12, TrustAssumed DEF Trust!PurgeExpired, Trust!TypeOK, Trust!PCs,
     Trust!callVars
<1>13. ASSUME Trust!Tick
      PROVE  Trust!TypeOK'
  BY <1>13, TrustAssumed DEF Trust!Tick, Trust!TypeOK, Trust!PCs, Trust!callVars
<1>. QED BY <1>1, <1>2, <1>3, <1>4, <1>5, <1>6, <1>7, <1>8, <1>9, <1>10, <1>11, <1>12,
   <1>13 DEF Trust!Next, Trust!Run


\* A trust() takes the steps of a trust() until it ends, an is_trusted() those of its own;
\* a call deletes what it found expired, and updates what it read.
LEMMA TrustPath ==
    ASSUME Trust!TypeOK, TrustRoles, NEW c \in Calls,
           Trust!Run(c) \/ Trust!FastFault(c) \/ Trust!SlowFault(c)
    PROVE  /\ trustPc[c] \in TrustWriting \union {"fastset"}
                 => trustPc'[c] \in TrustWriting \union {"fastset", "done", "error"}
           /\ trustPc[c] \in TrustAsking => trustPc'[c] \in TrustAsking \union {"done", "error"}
           /\ trustPc'[c] = "fastset" => Tiered
           /\ trustPc[c] = "fastset" => trustPc'[c] = "done"
           /\ trustPc'[c] = "slowdel" => trustSlow # None /\ ~ Trust!Alive(trustSlow)
           /\ trustPc'[c] = "slowupdate" => trustSlow' = trustSlow /\ trustSeen'[c] = trustSlow.ip
<1>1. CASE Trust!FastAsk(c) \/ Trust!SlowAsk(c) \/ Trust!SlowDelete(c)
  BY <1>1 DEF Trust!FastAsk, Trust!SlowAsk, Trust!SlowDelete, Trust!Answer, Trust!End, Trust!Goto,
     Trust!TypeOK, TrustWriting, TrustAsking
<1>2. CASE Trust!SlowRead(c) \/ Trust!SlowReget(c)
  BY <1>2 DEF Trust!SlowRead, Trust!SlowReget, Trust!End, Trust!Goto, Trust!TypeOK,
     TrustWriting, TrustAsking
<1>3. CASE Trust!SlowUpdate(c) \/ Trust!SlowInsert(c)
  BY <1>3 DEF Trust!SlowUpdate, Trust!SlowInsert, Trust!Written, Trust!End, Trust!Goto,
     Trust!TypeOK, TrustWriting, TrustAsking
<1>4. CASE Trust!FastSet(c) \/ Trust!FastFault(c) \/ Trust!SlowFault(c)
  BY <1>4 DEF Trust!FastSet, Trust!FastFault, Trust!SlowFault, Trust!End, Trust!Goto,
     Trust!TypeOK, TrustWriting, TrustAsking
<1>. QED BY <1>1, <1>2, <1>3, <1>4 DEF Trust!Run

\* Calls keep to their kind of steps.
LEMMA TrustRolesStep ==
    ASSUME Trust!TypeOK, TrustRoles, Trust!Next
    PROVE  TrustRoles'
<1>1. ASSUME NEW c \in Calls, NEW kind \in {"trust", "ask"}, NEW ip \in Ips, Trust!Start(c, kind, ip)
      PROVE  TrustRoles'
  <2>1. /\ trustPc[c] = "idle" /\ trustArgs[c].kind = "none" /\ trustNow' = trustNow
        /\ trustArgs'[c].kind = kind /\ trustArgs'[c].ip = ip
        /\ trustArgs'[c].known = {b \in Trust!Trusts : trustPc[b] = "done"}
        /\ trustSpan'[c].start = trustNow
        /\ trustPc'[c] \in {"slowread", "fastask", "slowask"}
        /\ trustPc'[c] = "slowread" <=> kind = "trust"
    BY <1>1 DEF Trust!Start, Trust!Goto, Trust!TypeOK, TrustRoles, Trust!NoArgs
  <2>2. \A d \in Calls \ {c} : /\ trustPc'[d] = trustPc[d] /\ trustArgs'[d] = trustArgs[d]
                               /\ trustSpan'[d] = trustSpan[d]
    BY <1>1 DEF Trust!Start, Trust!Goto, Trust!TypeOK
  <2>3. \A b \in Calls : b \in Trust!Trusts /\ trustPc[b] = "done" =>
            b \in Trust!Trusts' /\ trustPc'[b] = "done"
    BY <2>1, <2>2 DEF Trust!Trusts
  <2>4. \A d \in Calls : \A b \in trustArgs'[d].known : b \in Trust!Trusts' /\ trustPc'[b] = "done"
    BY <2>1, <2>2, <2>3 DEF TrustRoles, Trust!Trusts
  <2>. QED BY <2>1, <2>2, <2>4 DEF TrustRoles, Trust!Trusts, Trust!TypeOK, TrustWriting, TrustAsking
<1>2. ASSUME NEW c \in Calls, Trust!Run(c) \/ Trust!FastFault(c) \/ Trust!SlowFault(c)
      PROVE  TrustRoles'
  <2>1. Trust!Trusts' = Trust!Trusts
    BY <1>2, TrustFrame DEF Trust!Trusts
  <2>2. \A d \in Calls : \A b \in trustArgs[d].known : b # c /\ b \in Calls
    BY <1>2, TrustFrame DEF TrustRoles, Trust!UnderWay, Trust!Trusts
  <2>3. \A d \in Calls : \A b \in trustArgs'[d].known : b \in Trust!Trusts' /\ trustPc'[b] = "done"
    BY <1>2, <2>1, <2>2, TrustFrame DEF TrustRoles
  <2>4. \A d \in Calls : /\ trustSpan'[d].start <= trustNow'
                         /\ trustPc'[d] = "done" => trustSpan'[d].end >= trustSpan'[d].start
    BY <1>2, TrustFrame DEF TrustRoles, Trust!TypeOK
  <2>5. trustPc[c] \in TrustWriting \union TrustAsking \union {"fastset"}
    BY <1>2, TrustFrame DEF Trust!UnderWay, Trust!TypeOK, Trust!PCs, TrustWriting, TrustAsking
  <2>6. ASSUME NEW d \in Calls \ {c}
        PROVE  trustPc'[d] = trustPc[d] /\ trustArgs'[d] = trustArgs[d]
    BY <1>2, TrustFrame
  <2>7. /\ trustPc'[c] # "idle" /\ trustArgs' = trustArgs /\ trustArgs[c].ip \in Ips
        /\ trustPc'[c] \in TrustWriting \union {"fastset"} => c \in Trust!Trusts
        /\ trustPc'[c] \in TrustAsking => trustArgs[c].kind = "ask"
        /\ trustPc'[c] = "fastset" => Tiered
    BY <1>2, <2>5, TrustPath, TrustFrame DEF TrustRoles, TrustWriting, TrustAsking
  <2>. QED BY <2>1, <2>3, <2>4, <2>6, <2>7 DEF TrustRoles
<1>3. CASE Trust!PurgeExpired \/ Trust!Tick
  <2>1. UNCHANGED Trust!callVars /\ trustNow' \in Nat /\ trustNow' >= trustNow
    BY <1>3 DEF Trust!PurgeExpired, Trust!Tick, Trust!TypeOK
  <2>. QED BY <2>1 DEF TrustRoles, Trust!callVars, Trust!Trusts, Trust!TypeOK
<1>. QED BY <1>1, <1>2, <1>3 DEF Trust!Next


\* A call leaves the row alone, or is an is_trusted() that deletes it, or a trust() that
\* writes it.
LEMMA RowSteps ==
    ASSUME Trust!TypeOK, TrustRoles, NEW c \in Calls,
           Trust!Run(c) \/ Trust!FastFault(c) \/ Trust!SlowFault(c)
    PROVE  \/ trustSlow' = trustSlow /\ (c \in Trust!Trusts /\ TrustWrote(c)' => TrustWrote(c))
           \/ /\ trustSlow' = None /\ c \notin Trust!Trusts
              /\ "stale delete" \notin trustExcuses' => ~ Trust!Alive(trustSlow)
           \/ /\ c \in Trust!Trusts /\ trustPc[c] \in {"slowupdate", "slowinsert"} /\ TrustWrote(c)'
              /\ trustPc[c] = "slowupdate" => trustSlow # None
              /\ (trustPc[c] = "slowupdate" => trustSlow.ip = trustSeen[c]) =>
                     trustSlow' = [ip |-> trustArgs[c].ip, until |-> Trust!Until(c)]
<1>1. CASE Trust!FastAsk(c) \/ Trust!SlowAsk(c)
  <2>1. c \notin Trust!Trusts
    BY <1>1 DEF Trust!FastAsk, Trust!SlowAsk, TrustRoles, TrustAsking, Trust!Trusts
  <2>. QED BY <1>1, <2>1 DEF Trust!FastAsk, Trust!SlowAsk
<1>2. CASE Trust!SlowDelete(c)
  BY <1>2 DEF Trust!SlowDelete, TrustRoles, TrustAsking, Trust!Trusts
<1>3. CASE Trust!SlowRead(c) \/ Trust!SlowReget(c) \/ Trust!SlowFault(c)
  BY <1>3 DEF Trust!SlowRead, Trust!SlowReget, Trust!SlowFault, Trust!End, Trust!Goto,
     Trust!TypeOK, TrustWrote
<1>4. CASE Trust!FastSet(c) \/ Trust!FastFault(c)
  <2>1. trustSlow' = trustSlow /\ (TrustWrote(c) \/ trustPc'[c] = "slowask")
    BY <1>4 DEF Trust!FastSet, Trust!FastFault, Trust!Goto, Trust!TypeOK, TrustWrote
  <2>. QED BY <2>1 DEF TrustWrote
<1>5. CASE Trust!SlowUpdate(c)
  <2>0. c \in Trust!Trusts
    BY <1>5 DEF Trust!SlowUpdate, TrustRoles, TrustWriting
  <2>1. CASE trustSlow = None
    BY <1>5, <2>1 DEF Trust!SlowUpdate, Trust!End, Trust!Goto, Trust!TypeOK, TrustWrote
  <2>2. CASE trustSlow # None
    <3>1. TrustWrote(c)'
      BY <1>5, <2>2 DEF Trust!SlowUpdate, Trust!Written, Trust!End, Trust!Goto, Trust!TypeOK, TrustWrote
    <3>. QED BY <1>5, <2>0, <2>2, <3>1 DEF Trust!SlowUpdate
  <2>. QED BY <2>1, <2>2
<1>6. CASE Trust!SlowInsert(c)
  <2>0. c \in Trust!Trusts
    BY <1>6 DEF Trust!SlowInsert, TrustRoles, TrustWriting
  <2>1. CASE trustSlow = None
    <3>1. TrustWrote(c)'
      BY <1>6, <2>1 DEF Trust!SlowInsert, Trust!Written, Trust!End, Trust!Goto, Trust!TypeOK, TrustWrote
    <3>. QED BY <1>6, <2>0, <2>1, <3>1 DEF Trust!SlowInsert
  <2>2. CASE trustSlow # None
    BY <1>6, <2>2 DEF Trust!SlowInsert, Trust!Goto, Trust!TypeOK, TrustWrote
  <2>. QED BY <2>1, <2>2
<1>. QED BY <1>1, <1>2, <1>3, <1>4, <1>5, <1>6 DEF Trust!Run

\* How an is_trusted() ends with an answer.
LEMMA AskEnds ==
    ASSUME Trust!TypeOK, TrustRoles, NEW c \in Calls, trustArgs[c].kind = "ask",
           Trust!Run(c) \/ Trust!FastFault(c) \/ Trust!SlowFault(c), trustPc'[c] = "done"
    PROVE  \/ /\ trustAnswer'[c] /\ Trust!Alive(trustFast)
              /\ Trust!Matches(trustArgs[c].ip, trustFast.ip)
           \/ /\ trustPc[c] = "slowask" /\ ~ (trustSlow # None /\ ~ Trust!Alive(trustSlow))
              /\ trustAnswer'[c] =
                     (trustSlow # None /\ Trust!Matches(trustArgs[c].ip, trustSlow.ip))
           \/ trustPc[c] = "slowdel" /\ trustAnswer'[c] = FALSE
<1>0. trustPc[c] \notin TrustWriting \union {"fastset"}
  BY DEF TrustRoles, Trust!Trusts
<1>1. CASE Trust!FastAsk(c)
  BY <1>1 DEF Trust!FastAsk, Trust!Answer, Trust!Goto, Trust!TypeOK
<1>2. CASE Trust!SlowAsk(c)
  BY <1>2 DEF Trust!SlowAsk, Trust!Answer, Trust!Goto, Trust!TypeOK
<1>3. CASE Trust!SlowDelete(c)
  BY <1>3 DEF Trust!SlowDelete, Trust!Answer, Trust!TypeOK
<1>4. CASE Trust!FastFault(c) \/ Trust!SlowFault(c)
  BY <1>0, <1>4 DEF Trust!FastFault, Trust!SlowFault, Trust!End, Trust!Goto, Trust!TypeOK
<1>5. CASE Trust!SlowRead(c) \/ Trust!SlowReget(c) \/ Trust!SlowUpdate(c) \/ Trust!SlowInsert(c)
           \/ Trust!FastSet(c)
  BY <1>0, <1>5 DEF Trust!SlowRead, Trust!SlowReget, Trust!SlowUpdate, Trust!SlowInsert,
     Trust!FastSet, TrustWriting
<1>. QED BY <1>1, <1>2, <1>3, <1>4, <1>5 DEF Trust!Run

\* The call that starts was idle; its step touches no other and no store.
LEMMA TrustStart ==
    ASSUME Trust!TypeOK, TrustRoles, NEW c \in Calls, NEW kind \in {"trust", "ask"},
           NEW ip \in Ips, Trust!Start(c, kind, ip)
    PROVE  /\ trustPc[c] = "idle" /\ c \notin Trust!Trusts
           /\ trustPc'[c] \in {"slowread", "fastask", "slowask"}
           /\ trustArgs'[c].kind = kind
           /\ trustArgs'[c].known = {b \in Trust!Trusts : trustPc[b] = "done"}
           /\ \A d \in Calls \ {c} : /\ trustPc'[d] = trustPc[d] /\ trustArgs'[d] = trustArgs[d]
                                     /\ trustSpan'[d] = trustSpan[d]
           /\ \A d \in Calls : c \notin trustArgs'[d].known
           /\ Trust!Trusts' = IF kind = "trust" THEN Trust!Trusts \union {c} ELSE Trust!Trusts
           /\ UNCHANGED <<trustNow, trustSlow, trustFast, trustSeen, trustAnswer>>
<1>1. trustPc[c] = "idle" /\ trustArgs[c].kind = "none"
  BY DEF Trust!Start, TrustRoles, Trust!NoArgs
<1>2. /\ trustPc'[c] \in {"slowread", "fastask", "slowask"}
      /\ trustArgs'[c].kind = kind
      /\ trustArgs'[c].known = {b \in Trust!Trusts : trustPc[b] = "done"}
      /\ \A d \in Calls \ {c} : /\ trustPc'[d] = trustPc[d] /\ trustArgs'[d] = trustArgs[d]
                                /\ trustSpan'[d] = trustSpan[d]
      /\ UNCHANGED <<trustNow, trustSlow, trustFast, trustSeen, trustAnswer>>
  BY DEF Trust!Start, Trust!Goto, Trust!TypeOK
<1>3. \A d \in Calls : c \notin trustArgs'[d].known
  BY <1>1, <1>2 DEF TrustRoles
<1>4. Trust!Trusts' = IF kind = "trust" THEN Trust!Trusts \union {c} ELSE Trust!Trusts
  BY <1>1, <1>2 DEF Trust!Trusts
<1>. QED BY <1>1, <1>2, <1>3, <1>4 DEF Trust!Trusts

\* What can make the stores wrong is not forgotten.
LEMMA TrustExcusesStay ==
    ASSUME Trust!Next
    PROVE  trustExcuses \subseteq trustExcuses'
  BY DEF Trust!Next, Trust!Run, Trust!Start, Trust!FastAsk, Trust!SlowAsk, Trust!SlowDelete,
     Trust!SlowRead, Trust!SlowUpdate, Trust!SlowInsert, Trust!SlowReget, Trust!FastSet,
     Trust!FastFault, Trust!SlowFault, Trust!PurgeExpired, Trust!Tick

\* A trust() that starts while none is under way is alone until it ends.
LEMMA TrustAloneStep ==
    ASSUME Trust!TypeOK, TrustRoles, TrustAlone, Trust!Next, "overlap" \notin trustExcuses'
    PROVE  TrustAlone'
<1>1. ASSUME NEW c \in Calls, NEW kind \in {"trust", "ask"}, NEW ip \in Ips, Trust!Start(c, kind, ip)
      PROVE  TrustAlone'
  <2>1. kind = "trust" => \A b \in Trust!Trusts : ~ Trust!UnderWay(b)
    BY <1>1 DEF Trust!Start
  <2>2. \A b \in Trust!Trusts : b \in Calls /\ b # c
    BY <1>1, TrustStart DEF Trust!Trusts
  <2>3. \A b \in Trust!Trusts : (Trust!UnderWay(b)' <=> Trust!UnderWay(b))
                                /\ trustPc'[b] = trustPc[b] /\ trustArgs'[b] = trustArgs[b]
    BY <1>1, <2>2, TrustStart DEF Trust!UnderWay
  <2>4. \A a, b \in Trust!Trusts : Trust!UnderWay(b) =>
            (Trust!UnderWay(a) => a = b) /\ (trustPc[a] = "done" => a \in trustArgs[b].known)
    BY DEF TrustAlone
  <2>5. CASE kind = "ask"
    <3>1. Trust!Trusts' = Trust!Trusts
      BY <1>1, <2>5, TrustStart
    <3>. QED BY <2>3, <2>4, <3>1 DEF TrustAlone
  <2>6. CASE kind = "trust"
    <3>1. /\ Trust!Trusts' = Trust!Trusts \union {c} /\ trustPc'[c] # "done"
          /\ trustArgs'[c].known = {b \in Trust!Trusts : trustPc[b] = "done"}
      BY <1>1, <2>6, TrustStart
    <3>. QED BY <2>1, <2>3, <2>6, <3>1 DEF TrustAlone
  <2>. QED BY <2>5, <2>6
<1>2. ASSUME NEW c \in Calls, Trust!Run(c) \/ Trust!FastFault(c) \/ Trust!SlowFault(c)
      PROVE  TrustAlone'
  <2>1. Trust!Trusts' = Trust!Trusts /\ Trust!Trusts \subseteq Calls
    BY <1>2, TrustFrame DEF Trust!Trusts
  <2>2. /\ trustArgs' = trustArgs /\ Trust!UnderWay(c)
        /\ \A d \in Calls \ {c} : trustPc'[d] = trustPc[d]
    BY <1>2, TrustFrame
  <2>. QED BY <2>1, <2>2 DEF TrustAlone, Trust!UnderWay
<1>3. CASE Trust!PurgeExpired \/ Trust!Tick
  BY <1>3 DEF Trust!PurgeExpired, Trust!Tick, TrustAlone, Trust!Trusts, Trust!UnderWay, Trust!callVars
<1>. QED BY <1>1, <1>2, <1>3 DEF Trust!Next

\* Without an overlap nobody writes between a trust()'s read and its UPDATE.
LEMMA TrustReadsStep ==
    ASSUME Trust!TypeOK, TrustRoles, TrustAlone, TrustReads, Trust!Next
    PROVE  TrustReads'
<1>1. ASSUME NEW c \in Calls, NEW kind \in {"trust", "ask"}, NEW ip \in Ips, Trust!Start(c, kind, ip)
      PROVE  TrustReads'
  BY <1>1, TrustStart DEF TrustReads
<1>2. ASSUME NEW c \in Calls, Trust!Run(c) \/ Trust!FastFault(c) \/ Trust!SlowFault(c),
             NEW b \in Calls, trustPc'[b] = "slowupdate", trustSlow' # None
      PROVE  trustSlow'.ip = trustSeen'[b]
  <2>1. CASE b = c
    BY <1>2, <2>1, TrustPath
  <2>2. CASE b # c
    <3>1. /\ trustPc[b] = "slowupdate" /\ trustSeen'[b] = trustSeen[b]
          /\ b \in Trust!Trusts /\ Trust!UnderWay(b) /\ Trust!UnderWay(c)
      BY <1>2, <2>2, TrustFrame DEF TrustRoles, TrustWriting, Trust!UnderWay
    <3>2. c \notin Trust!Trusts
      BY <2>2, <3>1 DEF TrustAlone
    <3>3. trustSlow' = trustSlow
      BY <1>2, <3>2, RowSteps
    <3>. QED BY <1>2, <3>1, <3>3 DEF TrustReads
  <2>. QED BY <2>1, <2>2
<1>3. CASE Trust!PurgeExpired \/ Trust!Tick
  BY <1>3 DEF Trust!PurgeExpired, Trust!Tick, TrustReads, Trust!callVars
<1>. QED BY <1>1, <1>2, <1>3 DEF Trust!Next, TrustReads


\* The last writer stays the last while the row is untouched.
LEMMA LastQuiet ==
    ASSUME Trust!TypeOK, TrustLast, trustNow' >= trustNow, trustNow' \in Nat,
           trustSlow' = trustSlow \/ trustSlow' = None,
           \A b \in Trust!Trusts : /\ b \in Trust!Trusts' /\ trustArgs'[b] = trustArgs[b]
                                   /\ Trust!Until(b)' = Trust!Until(b)
                                   /\ TrustWrote(b) => TrustWrote(b)',
           \A a \in Trust!Trusts' : TrustWrote(a)' => a \in Trust!Trusts /\ TrustWrote(a)
    PROVE  TrustLast'
<1>. SUFFICES ASSUME Trust!Alive(trustSlow)'
              PROVE  \E b \in Trust!Trusts' :
                        /\ TrustWrote(b)' /\ WroteLast(b)'
                        /\ trustSlow' = [ip |-> trustArgs'[b].ip, until |-> Trust!Until(b)']
  BY DEF TrustLast
<1>1. trustSlow' = trustSlow /\ Trust!Alive(trustSlow)
  BY DEF Trust!Alive, Trust!TypeOK, Trust!Entry
<1>2. PICK b \in Trust!Trusts : /\ TrustWrote(b) /\ WroteLast(b)
                                /\ trustSlow = [ip |-> trustArgs[b].ip, until |-> Trust!Until(b)]
  BY <1>1 DEF TrustLast
<1>3. WroteLast(b)'
  BY <1>2 DEF WroteLast
<1>. QED BY <1>1, <1>2, <1>3

\* The row that counts is what the last trust() wrote.
LEMMA TrustLastStep ==
    ASSUME Trust!TypeOK, TrustRoles, TrustAlone, TrustReads, TrustLast, Trust!Next
    PROVE  TrustLast'
<1>1. ASSUME NEW c \in Calls, NEW kind \in {"trust", "ask"}, NEW ip \in Ips, Trust!Start(c, kind, ip)
      PROVE  TrustLast'
  <2>1. \A b \in Trust!Trusts : b \in Calls /\ b # c
    BY <1>1, TrustStart DEF Trust!Trusts
  <2>2. \A b \in Trust!Trusts : /\ b \in Trust!Trusts' /\ trustArgs'[b] = trustArgs[b]
                                /\ Trust!Until(b)' = Trust!Until(b)
                                /\ TrustWrote(b) => TrustWrote(b)'
    BY <1>1, <2>1, TrustStart DEF Trust!Until, TrustWrote
  <2>3. \A a \in Trust!Trusts' : TrustWrote(a)' => a \in Trust!Trusts /\ TrustWrote(a)
    BY <1>1, <2>1, TrustStart DEF TrustWrote
  <2>4. trustNow' >= trustNow /\ trustNow' \in Nat /\ trustSlow' = trustSlow
    BY <1>1, TrustStart DEF Trust!TypeOK
  <2>. QED BY <2>2, <2>3, <2>4, LastQuiet
<1>2. ASSUME NEW c \in Calls, Trust!Run(c) \/ Trust!FastFault(c) \/ Trust!SlowFault(c)
      PROVE  TrustLast'
  <2>1. /\ Trust!Trusts' = Trust!Trusts /\ Trust!Trusts \subseteq Calls
        /\ trustArgs' = trustArgs /\ trustNow' = trustNow /\ trustNow \in Nat
        /\ \A b \in Calls : Trust!Until(b)' = Trust!Until(b)
        /\ \A b \in Calls \ {c} : trustPc'[b] = trustPc[b]
    BY <1>2, TrustFrame DEF Trust!Trusts, Trust!Until, Trust!TypeOK
  <2>2. TrustWrote(c) => TrustWrote(c)'
    BY <1>2, TrustFrame, TrustPath DEF TrustWrote, Trust!UnderWay
  <2>3. \A b \in Trust!Trusts : TrustWrote(b) => TrustWrote(b)'
    BY <2>1, <2>2 DEF TrustWrote
  <2>4. ASSUME trustSlow' = trustSlow \/ trustSlow' = None,
               c \in Trust!Trusts /\ TrustWrote(c)' => TrustWrote(c)
        PROVE  TrustLast'
    <3>1. \A a \in Trust!Trusts' : TrustWrote(a)' => a \in Trust!Trusts /\ TrustWrote(a)
      BY <2>1, <2>4 DEF TrustWrote
    <3>2. \A b \in Trust!Trusts : /\ b \in Trust!Trusts' /\ trustArgs'[b] = trustArgs[b]
                                  /\ Trust!Until(b)' = Trust!Until(b)
      BY <2>1
    <3>3. trustNow' >= trustNow /\ trustNow' \in Nat
      BY <2>1
    <3>. QED BY <2>3, <2>4, <3>1, <3>2, <3>3, LastQuiet
  <2>5. ASSUME c \in Trust!Trusts, trustPc[c] \in {"slowupdate", "slowinsert"}, TrustWrote(c)',
               trustSlow' = [ip |-> trustArgs[c].ip, until |-> Trust!Until(c)]
        PROVE  TrustLast'
    <3>1. ASSUME NEW a \in Trust!Trusts \ {c}, TrustWrote(a)'
          PROVE  a \in trustArgs[c].known
      <4>1. TrustWrote(a) /\ Trust!UnderWay(c)
        BY <2>1, <2>5, <3>1 DEF TrustWrote, Trust!UnderWay
      <4>2. trustPc[a] = "done"
        BY <2>5, <4>1 DEF TrustAlone, TrustWrote, Trust!UnderWay
      <4>. QED BY <2>5, <4>1, <4>2 DEF TrustAlone
    <3>2. WroteLast(c)'
      BY <2>1, <3>1 DEF WroteLast
    <3>. QED BY <2>1, <2>5, <3>2 DEF TrustLast
  <2>. QED BY <1>2, <2>4, <2>5, RowSteps DEF TrustReads
<1>3. CASE Trust!PurgeExpired \/ Trust!Tick
  <2>1. /\ UNCHANGED Trust!callVars /\ trustNow' \in Nat /\ trustNow' >= trustNow
        /\ trustSlow' = trustSlow \/ trustSlow' = None
    BY <1>3 DEF Trust!PurgeExpired, Trust!Tick, Trust!TypeOK
  <2>2. /\ Trust!Trusts' = Trust!Trusts /\ trustArgs' = trustArgs /\ trustPc' = trustPc
        /\ \A b : Trust!Until(b)' = Trust!Until(b)
    BY <2>1 DEF Trust!callVars, Trust!Trusts, Trust!Until
  <2>. QED BY <2>1, <2>2, LastQuiet DEF TrustWrote
<1>. QED BY <1>1, <1>2, <1>3 DEF Trust!Next

\* What the fast tier says is what the last finished trust() put there.
LEMMA FrontQuiet ==
    ASSUME TrustFront, trustFast' = trustFast,
           \A b \in Trust!Trusts : trustPc[b] = "done" =>
               /\ b \in Trust!Trusts' /\ trustArgs'[b] = trustArgs[b]
               /\ trustSpan'[b] = trustSpan[b] /\ trustPc'[b] = "done",
           Tiered => \A a \in Trust!Trusts' : trustPc'[a] = "done" =>
                         a \in Trust!Trusts /\ trustPc[a] = "done"
    PROVE  TrustFront'
<1>. SUFFICES ASSUME trustFast # None
              PROVE  Tiered /\ \E b \in Trust!Trusts' :
                        /\ trustPc'[b] = "done" /\ DoneLast(b)'
                        /\ trustFast.ip = trustArgs'[b].ip
                        /\ trustFast.until <= trustSpan'[b].end + Ttl
  BY DEF TrustFront
<1>1. PICK b \in Trust!Trusts : /\ Tiered /\ trustPc[b] = "done" /\ DoneLast(b)
                                /\ trustFast.ip = trustArgs[b].ip
                                /\ trustFast.until <= trustSpan[b].end + Ttl
  BY DEF TrustFront
<1>2. DoneLast(b)'
  BY <1>1 DEF DoneLast
<1>. QED BY <1>1, <1>2

LEMMA TrustFrontStep ==
    ASSUME Trust!TypeOK, TrustRoles, TrustAlone, TrustFront, Trust!Next,
           "fast write" \notin trustExcuses'
    PROVE  TrustFront'
<1>1. ASSUME NEW c \in Calls, NEW kind \in {"trust", "ask"}, NEW ip \in Ips, Trust!Start(c, kind, ip)
      PROVE  TrustFront'
  <2>1. \A b \in Trust!Trusts : b \in Calls /\ b # c
    BY <1>1, TrustStart, ZenonT(40) DEF Trust!Trusts
  <2>2. \A b \in Trust!Trusts : /\ b \in Trust!Trusts' /\ trustArgs'[b] = trustArgs[b]
                                /\ trustSpan'[b] = trustSpan[b] /\ trustPc'[b] = trustPc[b]
    BY <1>1, <2>1, TrustStart
  <2>3. trustPc'[c] # "done" /\ trustFast' = trustFast
    BY <1>1, TrustStart
  <2>4. \A a \in Trust!Trusts' : a = c \/ a \in Trust!Trusts
    <3>1. Trust!Trusts' = IF kind = "trust" THEN Trust!Trusts \union {c} ELSE Trust!Trusts
      BY <1>1, TrustStart
    <3>. QED BY <3>1
  <2>. QED BY <2>2, <2>3, <2>4, FrontQuiet
<1>2. ASSUME NEW c \in Calls, Trust!Run(c) \/ Trust!FastFault(c) \/ Trust!SlowFault(c)
      PROVE  TrustFront'
  <2>1. /\ Trust!Trusts' = Trust!Trusts /\ Trust!Trusts \subseteq Calls
        /\ trustArgs' = trustArgs /\ trustNow' = trustNow /\ Trust!UnderWay(c)
        /\ \A b \in Calls \ {c} : trustPc'[b] = trustPc[b] /\ trustSpan'[b] = trustSpan[b]
    BY <1>2, TrustFrame DEF Trust!Trusts
  <2>2. CASE Trust!FastSet(c)
    <3>1. /\ c \in Trust!Trusts /\ Tiered /\ trustPc'[c] = "done" /\ trustSpan'[c].end = trustNow
          /\ trustNow \in Nat
      BY <1>2, <2>2, TrustPath, TrustFrame DEF Trust!FastSet, TrustRoles, Trust!TypeOK
    <3>2. CASE FastTtl = 0
      BY <2>2, <3>2 DEF Trust!FastSet, TrustFront
    <3>3. CASE FastTtl # 0
      <4>1. trustFast' = [ip |-> trustArgs[c].ip, until |-> trustNow + FastTtl]
        BY <2>2, <3>3 DEF Trust!FastSet
      <4>2. trustFast'.until <= trustSpan'[c].end + Ttl
        <5>1. trustFast'.until = trustNow + FastTtl
          BY <4>1
        <5>2. trustSpan'[c].end = trustNow /\ trustNow \in Nat
          BY <3>1
        <5>. QED BY <5>1, <5>2, TrustFastTtl
      <4>3. DoneLast(c)'
        BY <2>1, <3>1 DEF DoneLast, TrustAlone
      <4>. QED BY <2>1, <3>1, <4>1, <4>2, <4>3 DEF TrustFront
    <3>. QED BY <3>2, <3>3
  <2>3. CASE ~ Trust!FastSet(c)
    <3>1. trustFast' = trustFast
      BY <1>2, <2>3 DEF Trust!Run, Trust!FastAsk, Trust!SlowAsk, Trust!SlowDelete, Trust!SlowRead,
         Trust!SlowUpdate, Trust!SlowInsert, Trust!SlowReget, Trust!FastFault, Trust!SlowFault
    <3>2. ASSUME Tiered, c \in Trust!Trusts PROVE trustPc'[c] # "done"
      <4>1. CASE Trust!FastAsk(c) \/ Trust!SlowAsk(c) \/ Trust!SlowDelete(c)
        BY <3>2, <4>1 DEF Trust!FastAsk, Trust!SlowAsk, Trust!SlowDelete, TrustRoles, TrustAsking,
           Trust!Trusts
      <4>2. CASE Trust!SlowRead(c) \/ Trust!SlowReget(c) \/ Trust!SlowFault(c)
        BY <4>2 DEF Trust!SlowRead, Trust!SlowReget, Trust!SlowFault, Trust!End, Trust!Goto,
           Trust!TypeOK
      <4>3. CASE Trust!SlowUpdate(c) \/ Trust!SlowInsert(c)
        BY <3>2, <4>3 DEF Trust!SlowUpdate, Trust!SlowInsert, Trust!Written, Trust!End, Trust!Goto,
           Trust!TypeOK
      <4>4. CASE Trust!FastFault(c)
        BY <4>4 DEF Trust!FastFault, Trust!Goto, Trust!TypeOK
      <4>. QED BY <1>2, <2>3, <4>1, <4>2, <4>3, <4>4 DEF Trust!Run
    <3>3. \A b \in Trust!Trusts : trustPc[b] = "done" => b # c /\ b \in Calls
      BY <2>1 DEF Trust!UnderWay
    <3>4. Tiered => \A a \in Trust!Trusts' : trustPc'[a] = "done" =>
                         a \in Trust!Trusts /\ trustPc[a] = "done"
      BY <2>1, <3>2
    <3>. QED BY <2>1, <3>1, <3>3, <3>4, FrontQuiet
  <2>. QED BY <2>2, <2>3
<1>3. CASE Trust!PurgeExpired \/ Trust!Tick
  BY <1>3, FrontQuiet DEF Trust!PurgeExpired, Trust!Tick, Trust!callVars, Trust!Trusts
<1>. QED BY <1>1, <1>2, <1>3 DEF Trust!Next

\* A trust() keeps accounting for an answer, and one that ends later does so too.
LEMMA AccountsStay ==
    ASSUME Trust!TypeOK, TrustRoles, NEW c \in Calls,
           Trust!Run(c) \/ Trust!FastFault(c) \/ Trust!SlowFault(c),
           NEW b \in Calls, NEW d \in Calls, Trust!Accounts(b, d)
    PROVE  Trust!Accounts(b, d)'
<1>1. /\ trustArgs' = trustArgs /\ trustNow' = trustNow /\ Trust!UnderWay(c)
      /\ trustPc' \in [Calls -> Trust!PCs]
      /\ trustPc'[c] \in {"done", "error"} => trustSpan'[c].end = trustNow
      /\ trustSpan'[d].start = trustSpan[d].start
      /\ b # c => trustPc'[b] = trustPc[b] /\ trustSpan'[b] = trustSpan[b]
  BY TrustFrame
<1>2. trustSpan[d].start <= trustNow /\ trustSpan[d].start \in Nat /\ trustNow \in Nat
  BY DEF TrustRoles, Trust!TypeOK
<1>3. trustPc[c] # "idle" /\ (trustPc[c] \in TrustWriting \union TrustAsking \union {"fastset"})
  BY <1>1 DEF Trust!UnderWay, Trust!TypeOK, Trust!PCs, TrustWriting, TrustAsking
<1>4. trustPc'[c] # "idle"
  BY <1>3, TrustPath DEF TrustWriting, TrustAsking
<1>5. ~ Trust!UnderWay(b)' => trustSpan'[b].end + Ttl > trustSpan'[d].start
  <2>1. CASE b = c
    BY <1>1, <1>2, <1>4, <2>1, TrustAssumed DEF Trust!UnderWay
  <2>2. CASE b # c
    BY <1>1, <2>2 DEF Trust!Accounts, Trust!UnderWay
  <2>. QED BY <2>1, <2>2
<1>6. b \in trustArgs'[d].known => Trust!Newest(b, trustArgs[d].known)'
  BY <1>1 DEF Trust!Accounts, Trust!Newest
<1>. QED BY <1>1, <1>5, <1>6 DEF Trust!Accounts, Trust!Matches

\* A visitor is told to be trusted on account of the last trust().
LEMMA TrustIsCurrentStep ==
    ASSUME Trust!TypeOK, TrustRoles, TrustKept, Trust!Next
    PROVE  Trust!TrustIsCurrent'
<1>. USE DEF TrustKept
<1>1. ASSUME NEW c \in Calls, NEW kind \in {"trust", "ask"}, NEW ip \in Ips, Trust!Start(c, kind, ip),
             NEW d \in Trust!Asked', trustAnswer'[d]
      PROVE  \E b \in Trust!Trusts' : Trust!Accounts(b, d)'
  <2>1. /\ d # c /\ d \in Trust!Asked /\ trustAnswer[d] /\ d \in Calls
        /\ trustArgs'[d] = trustArgs[d] /\ trustSpan'[d] = trustSpan[d]
    BY <1>1, TrustStart DEF Trust!Asked
  <2>2. PICK b \in Trust!Trusts : Trust!Accounts(b, d)
    BY <2>1 DEF Trust!TrustIsCurrent
  <2>3. /\ b # c /\ b \in Trust!Trusts' /\ trustArgs'[b] = trustArgs[b]
        /\ trustSpan'[b] = trustSpan[b] /\ trustPc'[b] = trustPc[b]
    BY <1>1, TrustStart DEF Trust!Trusts
  <2>. QED BY <2>1, <2>2, <2>3 DEF Trust!Accounts, Trust!Newest, Trust!UnderWay
<1>2. ASSUME NEW c \in Calls, Trust!Run(c) \/ Trust!FastFault(c) \/ Trust!SlowFault(c),
             NEW d \in Trust!Asked', trustAnswer'[d]
      PROVE  \E b \in Trust!Trusts' : Trust!Accounts(b, d)'
  <2>. SUFFICES \E b \in Trust!Trusts : Trust!Accounts(b, d)
    <3>1. Trust!Trusts' = Trust!Trusts /\ Trust!Trusts \subseteq Calls
      BY <1>2, TrustFrame DEF Trust!Trusts
    <3>2. d \in Calls
      BY DEF Trust!Asked
    <3>. QED BY <1>2, <3>1, <3>2, AccountsStay
  <2>1. CASE d # c
    <3>1. d \in Trust!Asked /\ trustAnswer[d]
      BY <1>2, <2>1, TrustFrame DEF Trust!Asked
    <3>. QED BY <3>1 DEF Trust!TrustIsCurrent
  <2>2. CASE d = c
    <3>1. trustArgs[c].kind = "ask" /\ trustPc'[c] = "done"
      BY <1>2, <2>2, TrustFrame DEF Trust!Asked
    <3>2. trustSpan[c].start <= trustNow /\ trustSpan[c].start \in Nat /\ trustNow \in Nat
      BY DEF TrustRoles, Trust!TypeOK
    <3>3. \A b \in trustArgs[c].known : b \in Trust!Trusts /\ trustPc[b] = "done"
      BY DEF TrustRoles
    <3>4. CASE Trust!Alive(trustFast) /\ Trust!Matches(trustArgs[c].ip, trustFast.ip)
      <4>1. PICK b \in Trust!Trusts : /\ trustPc[b] = "done" /\ DoneLast(b)
                                      /\ trustFast.ip = trustArgs[b].ip
                                      /\ trustFast.until <= trustSpan[b].end + Ttl
        BY <3>4 DEF TrustFront, Trust!Alive
      <4>2. Trust!Newest(b, trustArgs[c].known)
        BY <3>3, <4>1 DEF Trust!Newest, DoneLast
      <4>3. trustSpan[b].end + Ttl > trustSpan[c].start
        <5>1. trustSpan[b].end \in Nat /\ trustFast.until \in Nat /\ trustFast.until > trustNow
          BY <3>4 DEF Trust!Alive, Trust!TypeOK, Trust!Entry, Trust!Trusts
        <5>. QED BY <3>2, <4>1, <5>1, TrustAssumed
      <4>. QED BY <2>2, <3>4, <4>1, <4>2, <4>3 DEF Trust!Accounts
    <3>5. CASE Trust!Alive(trustSlow) /\ Trust!Matches(trustArgs[c].ip, trustSlow.ip)
      <4>1. PICK b \in Trust!Trusts :
                /\ TrustWrote(b) /\ WroteLast(b)
                /\ trustSlow = [ip |-> trustArgs[b].ip, until |-> Trust!Until(b)]
        BY <3>5 DEF TrustLast
      <4>2. Trust!Newest(b, trustArgs[c].known)
        BY <3>3, <4>1 DEF Trust!Newest, WroteLast, TrustWrote
      <4>3. ~ Trust!UnderWay(b) => trustSpan[b].end + Ttl > trustSpan[c].start
        <5>1. /\ trustSpan[b].end \in Nat /\ trustSpan[b].start \in Nat
              /\ trustSpan[b].start + Ttl > trustNow
          BY <3>5, <4>1 DEF Trust!Alive, Trust!Until, Trust!TypeOK, Trust!Trusts
        <5>2. ~ Trust!UnderWay(b) => trustSpan[b].end >= trustSpan[b].start
          BY <4>1 DEF TrustRoles, TrustWrote, Trust!UnderWay, Trust!Trusts
        <5>. QED BY <3>2, <5>1, <5>2, TrustAssumed
      <4>4. trustSlow.ip = trustArgs[b].ip
        BY <4>1
      <4>. QED BY <2>2, <3>5, <4>1, <4>2, <4>3, <4>4 DEF Trust!Accounts
    <3>. QED BY <1>2, <2>2, <3>1, <3>4, <3>5, AskEnds
  <2>. QED BY <2>1, <2>2
<1>3. ASSUME Trust!PurgeExpired \/ Trust!Tick, NEW d \in Trust!Asked', trustAnswer'[d]
      PROVE  \E b \in Trust!Trusts' : Trust!Accounts(b, d)'
  <2>1. UNCHANGED Trust!callVars
    BY <1>3 DEF Trust!PurgeExpired, Trust!Tick
  <2>. QED BY <1>3, <2>1 DEF Trust!callVars, Trust!TrustIsCurrent, Trust!Accounts, Trust!Newest,
           Trust!UnderWay, Trust!Asked, Trust!Trusts
<1>. QED BY <1>1, <1>2, <1>3 DEF Trust!Next, Trust!TrustIsCurrent


\* What is true of the newest trust() was true before the step.
LEMMA NewestBefore ==
    ASSUME Trust!TypeOK, TrustRoles, Trust!Next, NEW b \in Trust!Trusts,
           b \in Trust!Trusts', Trust!Newest(b, Trust!Trusts)'
    PROVE  Trust!Newest(b, Trust!Trusts)
<1>1. Trust!Trusts \subseteq Trust!Trusts' /\ trustArgs'[b] = trustArgs[b]
  <2>1. ASSUME NEW c \in Calls, NEW kind \in {"trust", "ask"}, NEW ip \in Ips, Trust!Start(c, kind, ip)
        PROVE  Trust!Trusts \subseteq Trust!Trusts' /\ trustArgs'[b] = trustArgs[b]
    BY <2>1, TrustStart DEF Trust!Trusts
  <2>2. ASSUME NEW c \in Calls, Trust!Run(c) \/ Trust!FastFault(c) \/ Trust!SlowFault(c)
        PROVE  Trust!Trusts \subseteq Trust!Trusts' /\ trustArgs'[b] = trustArgs[b]
    BY <2>2, TrustFrame DEF Trust!Trusts
  <2>3. CASE Trust!PurgeExpired \/ Trust!Tick
    BY <2>3 DEF Trust!PurgeExpired, Trust!Tick, Trust!callVars, Trust!Trusts
  <2>. QED BY <2>1, <2>2, <2>3 DEF Trust!Next
<1>. QED BY <1>1 DEF Trust!Newest

\* All but the newest trust() have ended.
LEMMA NewestAlone ==
    ASSUME TrustRoles, NEW b \in Trust!Trusts, Trust!Newest(b, Trust!Trusts),
           NEW c \in Trust!Trusts, Trust!UnderWay(c)
    PROVE  c = b
  BY DEF Trust!Newest, TrustRoles, Trust!Trusts, Trust!UnderWay

\* The newest trust() has the row to itself.
LEMMA NewestStandsStep ==
    ASSUME Trust!TypeOK, TrustRoles, NewestStands, TrustRoles', Trust!Next,
           "stale delete" \notin trustExcuses'
    PROVE  NewestStands'
<1>. SUFFICES ASSUME NEW b \in Trust!Trusts', Trust!Newest(b, Trust!Trusts)'
              PROVE  Stands(b)'
  BY DEF NewestStands
<1>0. b \in Calls
  BY DEF Trust!Trusts
<1>1. ASSUME NEW c \in Calls, NEW kind \in {"trust", "ask"}, NEW ip \in Ips, Trust!Start(c, kind, ip)
      PROVE  Stands(b)'
  <2>1. CASE b = c
    BY <1>1, <2>1, TrustStart DEF Stands, TrustWrote
  <2>2. CASE b # c
    <3>1. b \in Trust!Trusts /\ Stands(b)
      <4>1. b \in Trust!Trusts
        <5>1. Trust!Trusts' = IF kind = "trust" THEN Trust!Trusts \union {c} ELSE Trust!Trusts
          BY <1>1, TrustStart
        <5>. QED BY <2>2, <5>1
      <4>. QED BY <4>1, NewestBefore DEF NewestStands
    <3>2. /\ trustPc'[b] = trustPc[b] /\ trustArgs'[b] = trustArgs[b]
          /\ Trust!Until(b)' = Trust!Until(b)
          /\ UNCHANGED <<trustNow, trustSlow, trustSeen>>
      BY <1>0, <1>1, <2>2, TrustStart, ZenonT(40) DEF Trust!Until
    <3>3. ASSUME NEW d \in Calls, b \in trustArgs'[d].known, Trust!Until(b) > trustNow
          PROVE  trustPc'[d] # "slowdel"
      BY <1>1, <3>1, <3>3, TrustStart, ZenonT(40) DEF Stands
    <3>. QED BY <3>1, <3>2, <3>3 DEF Stands, TrustWrote
  <2>. QED BY <2>1, <2>2
<1>2. ASSUME NEW c \in Calls, Trust!Run(c) \/ Trust!FastFault(c) \/ Trust!SlowFault(c)
      PROVE  Stands(b)'
  <2>1. /\ Trust!Trusts' = Trust!Trusts /\ trustArgs' = trustArgs /\ trustNow' = trustNow
        /\ trustNow \in Nat /\ Trust!UnderWay(c)
        /\ Trust!Until(b)' = Trust!Until(b)
        /\ \A d \in Calls \ {c} : trustPc'[d] = trustPc[d] /\ trustSeen'[d] = trustSeen[d]
    BY <1>0, <1>2, TrustFrame DEF Trust!Trusts, Trust!Until, Trust!TypeOK
  <2>2. Trust!Newest(b, Trust!Trusts) /\ Stands(b)
    BY <2>1, NewestBefore DEF NewestStands
  <2>3. c \in Trust!Trusts => c = b
    BY <2>1, <2>2, NewestAlone
  <2>4. ASSUME trustPc'[b] = "slowupdate", trustSlow' # None
        PROVE  trustSlow'.ip = trustSeen'[b]
    <3>1. CASE b = c
      BY <1>2, <2>4, <3>1, TrustPath
    <3>2. CASE b # c
      <4>1. trustSlow' = trustSlow
        BY <1>2, <2>3, <2>4, <3>2, RowSteps
      <4>. QED BY <1>0, <2>1, <2>2, <2>4, <3>2, <4>1 DEF Stands
    <3>. QED BY <3>1, <3>2
  <2>5. ASSUME TrustWrote(b), Trust!Until(b) > trustNow
        PROVE  /\ trustSlow = [ip |-> trustArgs[b].ip, until |-> Trust!Until(b)]
               /\ Trust!Alive(trustSlow)
    <3>1. trustSlow = [ip |-> trustArgs[b].ip, until |-> Trust!Until(b)]
      BY <2>2, <2>5 DEF Stands
    <3>2. trustArgs[b].ip \in Ips
      BY <1>0, <2>5 DEF TrustRoles, TrustWrote
    <3>4. Trust!Until(b) \in Nat
      BY <1>0, TrustUntil
    <3>3. trustSlow # None
      BY <3>1, <3>2, <3>4, TrustEntry
    <3>. QED BY <2>5, <3>1, <3>3 DEF Trust!Alive
  <2>6. ASSUME TrustWrote(b)', Trust!Until(b) > trustNow
        PROVE  trustSlow' = [ip |-> trustArgs[b].ip, until |-> Trust!Until(b)]
    <3>1. CASE trustSlow' = trustSlow /\ (c \in Trust!Trusts /\ TrustWrote(c)' => TrustWrote(c))
      <4>1. TrustWrote(b)
        BY <1>0, <2>1, <2>6, <3>1 DEF TrustWrote
      <4>. QED BY <2>5, <2>6, <3>1, <4>1
    <3>2. CASE trustSlow' = None /\ c \notin Trust!Trusts /\ ~ Trust!Alive(trustSlow)
      <4>1. TrustWrote(b)
        BY <1>0, <2>1, <2>6, <3>2 DEF TrustWrote
      <4>. QED BY <2>5, <2>6, <3>2, <4>1
    <3>3. CASE /\ c \in Trust!Trusts /\ trustPc[c] \in {"slowupdate", "slowinsert"}
               /\ trustPc[c] = "slowupdate" => trustSlow # None
               /\ (trustPc[c] = "slowupdate" => trustSlow.ip = trustSeen[c]) =>
                     trustSlow' = [ip |-> trustArgs[c].ip, until |-> Trust!Until(c)]
      <4>1. c = b /\ (trustPc[c] = "slowupdate" => trustSlow.ip = trustSeen[c])
        BY <2>2, <2>3, <3>3 DEF Stands
      <4>. QED BY <3>3, <4>1
    <3>. QED BY <1>2, <3>1, <3>2, <3>3, RowSteps
  <2>7. ASSUME NEW d \in Calls, b \in trustArgs[d].known, Trust!Until(b) > trustNow
        PROVE  trustPc'[d] # "slowdel"
    <3>1. CASE d # c
      BY <2>1, <2>2, <2>7, <3>1 DEF Stands
    <3>2. CASE d = c
      <4>1. TrustWrote(b)
        BY <2>7 DEF TrustRoles, TrustWrote
      <4>. QED BY <1>2, <2>5, <2>7, <3>2, <4>1, TrustPath
    <3>. QED BY <3>1, <3>2
  <2>. QED BY <2>1, <2>4, <2>6, <2>7 DEF Stands
<1>3. CASE Trust!PurgeExpired \/ Trust!Tick
  <2>1. /\ UNCHANGED Trust!callVars /\ trustNow \in Nat /\ trustNow' \in Nat /\ trustNow' >= trustNow
        /\ trustSlow' = trustSlow \/ (trustSlow' = None /\ ~ Trust!Alive(trustSlow))
    BY <1>3, TrustTime
  <2>2. /\ Trust!Trusts' = Trust!Trusts /\ trustArgs' = trustArgs /\ trustPc' = trustPc
        /\ trustSeen' = trustSeen /\ Trust!Until(b)' = Trust!Until(b)
    BY <2>1 DEF Trust!callVars, Trust!Trusts, Trust!Until
  <2>3. Stands(b)
    BY <2>2, NewestBefore DEF NewestStands
  <2>4. Trust!Until(b) \in Nat /\ (Trust!Until(b) > trustNow' => Trust!Until(b) > trustNow)
    <3>1. Trust!Until(b) \in Nat
      BY <1>0, TrustUntil
    <3>. QED BY <2>1, <3>1, NotOverYet
  <2>5. ASSUME TrustWrote(b), Trust!Until(b) > trustNow
        PROVE  Trust!Alive(trustSlow)
    <3>1. trustSlow = [ip |-> trustArgs[b].ip, until |-> Trust!Until(b)]
      BY <2>3, <2>5 DEF Stands
    <3>2. trustArgs[b].ip \in Ips
      BY <1>0, <2>5 DEF TrustRoles, TrustWrote
    <3>3. trustSlow # None
      BY <2>4, <3>1, <3>2, TrustEntry
    <3>. QED BY <2>5, <3>1, <3>3 DEF Trust!Alive
  <2>. QED BY <2>1, <2>2, <2>3, <2>4, <2>5 DEF Stands, TrustWrote
<1>. QED BY <1>1, <1>2, <1>3 DEF Trust!Next

\* A visitor trusted last, at that address, is found trusted.
LEMMA TrustIsRememberedStep ==
    ASSUME Trust!TypeOK, TrustRoles, NewestStands, Trust!TrustIsRemembered, Trust!Next,
           "stale delete" \notin trustExcuses'
    PROVE  Trust!TrustIsRemembered'
<1>. SUFFICES ASSUME NEW d \in Trust!Asked', NEW b \in Trust!Trusts',
                     b \in trustArgs'[d].known, Trust!Newest(b, Trust!Trusts)',
                     Trust!Matches(trustArgs'[d].ip, trustArgs'[b].ip), Trust!Until(b)' > trustNow'
              PROVE  trustAnswer'[d]
  BY DEF Trust!TrustIsRemembered, Trust!Matches
<1>0. d \in Calls /\ b \in Calls /\ trustArgs'[d].kind = "ask" /\ trustPc'[d] = "done"
  BY DEF Trust!Asked, Trust!Trusts
<1>1. ASSUME NEW c \in Calls, NEW kind \in {"trust", "ask"}, NEW ip \in Ips, Trust!Start(c, kind, ip)
      PROVE  trustAnswer'[d]
  <2>0. /\ trustPc'[c] # "done" /\ c \notin trustArgs'[d].known
        /\ Trust!Trusts' = IF kind = "trust" THEN Trust!Trusts \union {c} ELSE Trust!Trusts
        /\ \A e \in Calls \ {c} : /\ trustPc'[e] = trustPc[e] /\ trustArgs'[e] = trustArgs[e]
                                  /\ trustSpan'[e] = trustSpan[e]
        /\ trustNow' = trustNow /\ trustAnswer' = trustAnswer
    BY <1>0, <1>1, TrustStart, ZenonT(40)
  <2>1. d # c /\ b # c /\ b \in Trust!Trusts /\ trustArgs'[d] = trustArgs[d]
        /\ trustArgs'[b] = trustArgs[b] /\ trustSpan'[b] = trustSpan[b] /\ trustPc'[d] = trustPc[d]
        /\ trustNow' = trustNow /\ trustAnswer' = trustAnswer
    BY <1>0, <2>0
  <2>2. d \in Trust!Asked /\ Trust!Newest(b, Trust!Trusts) /\ Trust!Until(b) > trustNow
    BY <1>0, <2>1, NewestBefore DEF Trust!Asked, Trust!Until
  <2>. QED BY <2>1, <2>2 DEF Trust!TrustIsRemembered
<1>2. ASSUME NEW c \in Calls, Trust!Run(c) \/ Trust!FastFault(c) \/ Trust!SlowFault(c)
      PROVE  trustAnswer'[d]
  <2>1. /\ Trust!Trusts' = Trust!Trusts /\ trustArgs' = trustArgs /\ trustNow' = trustNow
        /\ Trust!Until(b)' = Trust!Until(b)
    BY <1>0, <1>2, TrustFrame DEF Trust!Trusts, Trust!Until
  <2>2. Trust!Newest(b, Trust!Trusts) /\ Stands(b)
    BY <2>1, NewestBefore DEF NewestStands
  <2>3. CASE d # c
    <3>1. d \in Trust!Asked /\ trustAnswer'[d] = trustAnswer[d]
      BY <1>0, <1>2, <2>1, <2>3, TrustFrame DEF Trust!Asked
    <3>. QED BY <2>1, <2>2, <3>1 DEF Trust!TrustIsRemembered
  <2>4. CASE d = c
    <3>1. TrustWrote(b)
      BY <1>0, <2>1 DEF TrustRoles, TrustWrote
    <3>2. trustSlow = [ip |-> trustArgs[b].ip, until |-> Trust!Until(b)]
      BY <2>1, <2>2, <3>1 DEF Stands
    <3>3. trustSlow # None /\ trustSlow.ip = trustArgs[b].ip
      <4>1. trustArgs[b].ip \in Ips
        BY <1>0, <3>1 DEF TrustRoles, TrustWrote
      <4>2. Trust!Until(b) \in Nat
        BY <1>0, TrustUntil
      <4>. QED BY <3>2, <4>1, <4>2, TrustEntry
    <3>4. trustPc[c] # "slowdel"
      BY <1>0, <2>1, <2>2, <2>4 DEF Stands
    <3>5. Trust!Matches(trustArgs[c].ip, trustSlow.ip)
      BY <2>1, <2>4, <3>3
    <3>. QED BY <1>0, <1>2, <2>1, <2>4, <3>3, <3>4, <3>5, AskEnds
  <2>. QED BY <2>3, <2>4
<1>3. CASE Trust!PurgeExpired \/ Trust!Tick
  <2>1. /\ UNCHANGED Trust!callVars /\ trustNow \in Nat /\ trustNow' \in Nat /\ trustNow' >= trustNow
    BY <1>3, TrustTime
  <2>2. /\ Trust!Trusts' = Trust!Trusts /\ trustArgs' = trustArgs /\ Trust!Asked' = Trust!Asked
        /\ trustAnswer' = trustAnswer /\ Trust!Until(b)' = Trust!Until(b)
    BY <2>1 DEF Trust!callVars, Trust!Trusts, Trust!Asked, Trust!Until
  <2>3. Trust!Until(b) > trustNow
    <3>1. Trust!Until(b) \in Nat
      BY <1>0, TrustUntil
    <3>2. Trust!Until(b) > trustNow'
      BY <2>2
    <3>. QED BY <2>1, <3>1, <3>2, NotOverYet
  <2>4. Trust!Newest(b, Trust!Trusts)
    BY <2>2, NewestBefore
  <2>. QED BY <2>2, <2>3, <2>4 DEF Trust!TrustIsRemembered
<1>. QED BY <1>1, <1>2, <1>3 DEF Trust!Next

\* The invariant of the trust store is inductive.
LEMMA TrustInvInit == Trust!Init => TrustInv
<1>. SUFFICES ASSUME Trust!Init PROVE TrustInv
  OBVIOUS
<1>0. ASSUME NEW c \in Calls
      PROVE  /\ trustPc[c] = "idle" /\ trustArgs[c] = Trust!NoArgs
             /\ trustArgs[c].kind = "none" /\ trustArgs[c].known = {}
             /\ trustSpan[c].start = 0 /\ trustNow = 0 /\ trustSpan[c].start <= trustNow
  BY DEF Trust!Init, Trust!NoArgs
<1>1. Trust!TypeOK
  BY DEF Trust!Init, Trust!TypeOK, Trust!Entry, Trust!PCs, Trust!Causes, Trust!NoArgs
<1>2. TrustRoles
  BY <1>0 DEF TrustRoles, TrustWriting, TrustAsking
<1>3. Trust!Trusts = {} /\ Trust!Asked = {} /\ trustFast = None /\ ~ Trust!Alive(trustSlow)
  BY <1>0 DEF Trust!Init, Trust!Trusts, Trust!Asked, Trust!Alive
<1>4. TrustKept
  BY <1>0, <1>3 DEF TrustKept, TrustAlone, TrustReads, TrustLast, TrustFront, Trust!TrustIsCurrent
<1>5. NewestStands /\ Trust!TrustIsRemembered
  BY <1>3 DEF NewestStands, Trust!TrustIsRemembered
<1>. QED BY <1>1, <1>2, <1>4, <1>5 DEF TrustInv

LEMMA TrustInvStep == TrustInv /\ Trust!Next => TrustInv'
<1>. SUFFICES ASSUME TrustInv, Trust!Next PROVE TrustInv'
  OBVIOUS
<1>1. Trust!TypeOK' /\ TrustRoles'
  BY TrustTypeStep, TrustRolesStep DEF TrustInv
<1>2. ASSUME trustExcuses' \intersect {"overlap", "fast write"} = {} PROVE TrustKept'
  <2>1. /\ trustExcuses \intersect {"overlap", "fast write"} = {}
        /\ "overlap" \notin trustExcuses' /\ "fast write" \notin trustExcuses'
    BY <1>2, TrustExcusesStay
  <2>2. TrustKept
    BY <2>1 DEF TrustInv
  <2>. QED BY <2>1, <2>2, TrustAloneStep, TrustReadsStep, TrustLastStep, TrustFrontStep,
           TrustIsCurrentStep DEF TrustInv, TrustKept
<1>3. ASSUME "stale delete" \notin trustExcuses' PROVE (NewestStands /\ Trust!TrustIsRemembered)'
  <2>1. "stale delete" \notin trustExcuses
    BY <1>3, TrustExcusesStay
  <2>. QED BY <1>1, <1>3, <2>1, NewestStandsStep, TrustIsRememberedStep DEF TrustInv
<1>. QED BY <1>1, <1>2, <1>3 DEF TrustInv

-----------------------------------------------------------------------------
(* Movements. *)

LEMMA ReplayAssumed == None \notin Prints /\ None \notin Nat /\ Ttl \in Nat
  BY StoresAssumption DEF Replay!ReplayAssumption

\* The run that starts had not; its step touches no other and no row, and it records
\* nothing.
LEMMA ReplayStart ==
    ASSUME Replay!TypeOK, ReplayRoles, NEW c \in Runs, NEW f \in Prints \union {None},
           NEW records \in BOOLEAN, Replay!Start(c, f, records)
    PROVE  /\ replayPc[c] = "idle" /\ replayOutcome[c] = "none"
           /\ replayArgs' \in [Runs -> Replay!RunType]
           /\ replayArgs'[c].print = f /\ replayArgs'[c].at = replayNow
           /\ \/ replayPc'[c] = "look" /\ replayOutcome'[c] = "none" /\ f \in Prints
              \/ replayPc'[c] = "done" /\ replayOutcome'[c] = "pass" /\ f = None
           /\ replayPc' \in [Runs -> Replay!PCs] /\ replayOutcome' \in [Runs -> Replay!Outcomes]
           /\ \A d \in Runs \ {c} : /\ replayPc'[d] = replayPc[d] /\ replayArgs'[d] = replayArgs[d]
                                    /\ replayOutcome'[d] = replayOutcome[d]
           /\ UNCHANGED <<replayNow, replayEntry, replayUntil, replayFaults, replayExcuses>>
<1>1. replayPc[c] = "idle" /\ replayOutcome[c] = "none"
  BY DEF Replay!Start, ReplayRoles
<1>2. /\ replayArgs' = [replayArgs EXCEPT ![c] =
                          [print |-> f, records |-> records, at |-> replayNow]]
      /\ [print |-> f, records |-> records, at |-> replayNow] \in Replay!RunType
      /\ UNCHANGED <<replayNow, replayEntry, replayUntil, replayFaults, replayExcuses>>
  BY DEF Replay!Start, Replay!TypeOK, Replay!RunType
<1>3. CASE f = None
  BY <1>1, <1>2, <1>3 DEF Replay!Start, Replay!Finish, Replay!TypeOK, Replay!PCs, Replay!Outcomes
<1>4. CASE f # None
  BY <1>1, <1>2, <1>4 DEF Replay!Start, Replay!Goto, Replay!TypeOK, Replay!PCs, Replay!Outcomes
<1>. QED BY <1>3, <1>4

\* Whatever step a run takes, it was under way, and the others stay where they are.
LEMMA ReplayFrame ==
    ASSUME Replay!TypeOK, ReplayRoles, NEW c \in Runs, Replay!Run(c) \/ Replay!Fault(c)
    PROVE  /\ replayArgs' = replayArgs /\ replayNow' = replayNow
           /\ replayPc[c] \notin {"idle", "done"} /\ replayOutcome[c] = "none"
           /\ Replay!MoveOf(c) \in Prints
           /\ replayPc' \in [Runs -> Replay!PCs] /\ replayOutcome' \in [Runs -> Replay!Outcomes]
           /\ replayUntil' \in [Runs -> Nat]
           /\ \A d \in Runs \ {c} : /\ replayPc'[d] = replayPc[d]
                                    /\ replayUntil'[d] = replayUntil[d]
                                    /\ replayOutcome'[d] = replayOutcome[d]
           /\ \/ /\ replayPc'[c] \in {"forget", "fetch", "insert", "reget", "renew"}
                 /\ replayOutcome'[c] = "none"
              \/ replayPc'[c] = "done" /\ replayOutcome'[c] \in {"pass", "repeat", "error"}
           /\ replayPc'[c] \in {"fetch", "insert", "reget", "renew"} => replayArgs[c].records
<1>. DEFINE Gone == \E next \in {"forget", "fetch", "insert", "reget", "renew"} :
                        /\ Replay!Goto(c, next)
                        /\ next # "forget" => replayArgs[c].records
            Finished == \E found \in {"pass", "repeat", "error"} : Replay!Finish(c, found)
<1>1. /\ replayArgs' = replayArgs /\ replayNow' = replayNow
      /\ replayPc[c] \notin {"idle", "done"}
  BY DEF Replay!Run, Replay!Look, Replay!Forget, Replay!Fetch, Replay!Insert, Replay!Reget,
     Replay!Renew, Replay!Fault
<1>2. replayOutcome[c] = "none" /\ Replay!MoveOf(c) \in Prints
  BY <1>1 DEF ReplayRoles, Replay!TypeOK
<1>3. /\ replayUntil' \in [Runs -> Nat]
      /\ \A d \in Runs \ {c} : replayUntil'[d] = replayUntil[d]
  <2>1. CASE Replay!Fetch(c)
    <3>1. replayNow + Ttl \in Nat
      BY ReplayAssumed DEF Replay!TypeOK
    <3>. QED BY <2>1, <3>1 DEF Replay!Fetch, Replay!TypeOK
  <2>2. CASE ~ Replay!Fetch(c)
    BY <2>2 DEF Replay!Run, Replay!Look, Replay!Forget, Replay!Insert, Replay!Reget,
       Replay!Renew, Replay!Fault, Replay!TypeOK
  <2>. QED BY <2>1, <2>2
<1>4. Gone \/ Finished
  <2>1. CASE Replay!Look(c) \/ Replay!Forget(c)
    BY <2>1 DEF Replay!Look, Replay!Forget, Replay!Unseen
  <2>2. CASE Replay!Fetch(c)
    BY <2>2 DEF Replay!Fetch, ReplayRoles
  <2>3. CASE Replay!Insert(c) \/ Replay!Reget(c) \/ Replay!Renew(c)
    BY <2>3 DEF Replay!Insert, Replay!Reget, Replay!Renew, ReplayRoles
  <2>4. CASE Replay!Fault(c)
    BY <2>4 DEF Replay!Fault
  <2>. QED BY <2>1, <2>2, <2>3, <2>4 DEF Replay!Run
<1>5. CASE Gone
  BY <1>1, <1>2, <1>3, <1>5 DEF Replay!Goto, Replay!TypeOK, Replay!PCs
<1>6. CASE Finished
  BY <1>1, <1>2, <1>3, <1>6 DEF Replay!Finish, Replay!TypeOK, Replay!PCs, Replay!Outcomes
<1>. QED BY <1>4, <1>5, <1>6

\* A run leaves the row of its fingerprint alone, or deletes it, or records it.
LEMMA EntrySteps ==
    ASSUME Replay!TypeOK, ReplayRoles, NEW c \in Runs, Replay!Run(c) \/ Replay!Fault(c)
    PROVE  LET f == Replay!MoveOf(c)
               passes == replayOutcome'[c] = "pass" /\ replayArgs[c].records
           IN  /\ \A g \in Prints \ {f} : replayEntry'[g] = replayEntry[g]
               /\ \/ replayEntry'[f] = replayEntry[f] /\ ~ passes
                  \/ /\ replayEntry'[f] = None /\ ~ passes
                     /\ Replay!Live(f) => replayExcuses' # {}
                  \/ /\ replayEntry'[f] = replayUntil[c] /\ replayUntil'[c] = replayUntil[c]
                     /\ replayArgs[c].records /\ replayOutcome'[c] = "pass"
                     /\ \/ replayEntry[f] = None
                        \/ replayEntry[f] \in Nat /\ replayUntil[c] >= replayEntry[f]
                        \/ replayExcuses' # {}
               /\ replayOutcome'[c] = "repeat" => Replay!Live(f)
               /\ replayEntry' \in [Prints -> Nat \union {None}]
               /\ replayExcuses \subseteq replayExcuses' /\ replayExcuses' \in SUBSET Replay!Causes
               /\ replayFaults' \in Nat
<1>0. /\ replayOutcome[c] = "none" /\ Replay!MoveOf(c) \in Prints
      /\ replayOutcome \in [Runs -> Replay!Outcomes] /\ replayPc \in [Runs -> Replay!PCs]
      /\ replayEntry \in [Prints -> Nat \union {None}] /\ replayUntil[c] \in Nat
      /\ replayUntil \in [Runs -> Nat] /\ replayFaults \in Nat
      /\ replayExcuses \in SUBSET Replay!Causes
  BY ReplayFrame DEF Replay!TypeOK
<1>1. CASE Replay!Look(c)
  BY <1>0, <1>1 DEF Replay!Look, Replay!Unseen, Replay!Goto, Replay!Finish
<1>2. CASE Replay!Forget(c)
  BY <1>0, <1>2 DEF Replay!Forget, Replay!Unseen, Replay!Goto, Replay!Finish, Replay!Causes
<1>3. CASE Replay!Fetch(c) \/ Replay!Reget(c)
  BY <1>0, <1>3 DEF Replay!Fetch, Replay!Reget, Replay!Goto, Replay!Finish
<1>4. CASE Replay!Insert(c)
  <2>1. replayArgs[c].records
    BY <1>4 DEF Replay!Insert, ReplayRoles
  <2>. QED BY <1>0, <1>4, <2>1 DEF Replay!Insert, Replay!Goto, Replay!Finish
<1>5. CASE Replay!Renew(c)
  <2>1. replayArgs[c].records
    BY <1>5 DEF Replay!Renew, ReplayRoles
  <2>2. CASE replayEntry[Replay!MoveOf(c)] = None
    BY <1>0, <1>5, <2>2 DEF Replay!Renew, Replay!Finish
  <2>3. CASE replayEntry[Replay!MoveOf(c)] # None
    <3>1. /\ replayEntry' = [replayEntry EXCEPT ![Replay!MoveOf(c)] = replayUntil[c]]
          /\ replayOutcome' = [replayOutcome EXCEPT ![c] = "pass"]
          /\ replayUntil' = replayUntil /\ replayFaults' = replayFaults
          /\ replayExcuses' = IF replayUntil[c] < replayEntry[Replay!MoveOf(c)]
                              THEN replayExcuses \union {"late write"} ELSE replayExcuses
      BY <1>5, <2>3 DEF Replay!Renew, Replay!Finish
    <3>2. replayEntry[Replay!MoveOf(c)] \in Nat
      BY <1>0, <2>3
    <3>3. /\ replayExcuses \subseteq replayExcuses' /\ replayExcuses' \in SUBSET Replay!Causes
          /\ replayUntil[c] >= replayEntry[Replay!MoveOf(c)] \/ replayExcuses' # {}
      <4>1. CASE replayUntil[c] < replayEntry[Replay!MoveOf(c)]
        BY <1>0, <3>1, <4>1 DEF Replay!Causes
      <4>2. CASE ~ (replayUntil[c] < replayEntry[Replay!MoveOf(c)])
        BY <1>0, <3>1, <3>2, <4>2
      <4>. QED BY <4>1, <4>2
    <3>. QED BY <1>0, <2>1, <3>1, <3>2, <3>3
  <2>. QED BY <2>2, <2>3
<1>6. CASE Replay!Fault(c)
  BY <1>0, <1>6 DEF Replay!Fault, Replay!Finish
<1>. QED BY <1>1, <1>2, <1>3, <1>4, <1>5, <1>6 DEF Replay!Run

\* While no run takes a step, time passes or expired rows go.
LEMMA ReplayTime ==
    ASSUME Replay!TypeOK, Replay!PurgeExpired \/ Replay!Tick
    PROVE  /\ UNCHANGED Replay!runVars
           /\ replayFaults' = replayFaults /\ replayExcuses' = replayExcuses
           /\ replayNow \in Nat /\ replayNow' \in Nat /\ replayNow' >= replayNow
           /\ replayEntry' \in [Prints -> Nat \union {None}]
           /\ \A f \in Prints : \/ replayEntry'[f] = replayEntry[f]
                                \/ replayEntry'[f] = None /\ ~ Replay!Live(f)
<1>1. replayNow \in Nat /\ replayEntry \in [Prints -> Nat \union {None}]
  BY DEF Replay!TypeOK
<1>2. CASE Replay!PurgeExpired
  BY <1>1, <1>2 DEF Replay!PurgeExpired
<1>3. CASE Replay!Tick
  BY <1>1, <1>3 DEF Replay!Tick
<1>. QED BY <1>2, <1>3


\* Every variable of the replay guard keeps its type.
LEMMA ReplayTypeStep ==
    ASSUME Replay!TypeOK, ReplayRoles, Replay!Next
    PROVE  Replay!TypeOK'
<1>1. ASSUME NEW c \in Runs, NEW f \in Prints \union {None}, NEW records \in BOOLEAN,
             Replay!Start(c, f, records)
      PROVE  Replay!TypeOK'
  <2>1. \A d \in Runs : replayPc'[d] \notin {"idle", "done"} => replayArgs'[d].print \in Prints
    <3>1. replayArgs'[c].print = f /\ (replayPc'[c] = "done" \/ f \in Prints)
      BY <1>1, ReplayStart
    <3>2. \A d \in Runs \ {c} : replayPc'[d] = replayPc[d] /\ replayArgs'[d] = replayArgs[d]
      BY <1>1, ReplayStart
    <3>3. \A d \in Runs : replayPc[d] \notin {"idle", "done"} => replayArgs[d].print \in Prints
      BY DEF Replay!TypeOK, Replay!MoveOf
    <3>. QED BY <3>1, <3>2, <3>3
  <2>2. UNCHANGED <<replayNow, replayEntry, replayUntil, replayFaults, replayExcuses>>
    BY <1>1, ReplayStart
  <2>3. /\ replayArgs' \in [Runs -> Replay!RunType]
        /\ replayPc' \in [Runs -> Replay!PCs] /\ replayOutcome' \in [Runs -> Replay!Outcomes]
    BY <1>1, ReplayStart
  <2>. QED BY <2>1, <2>2, <2>3 DEF Replay!TypeOK, Replay!MoveOf
<1>2. ASSUME NEW c \in Runs, Replay!Run(c) \/ Replay!Fault(c)
      PROVE  Replay!TypeOK'
  <2>1. \A d \in Runs : replayPc'[d] \notin {"idle", "done"} => replayArgs'[d].print \in Prints
    BY <1>2, ReplayFrame DEF Replay!TypeOK, Replay!MoveOf
  <2>. QED BY <1>2, <2>1, ReplayFrame, EntrySteps DEF Replay!TypeOK, Replay!MoveOf
<1>3. CASE Replay!PurgeExpired \/ Replay!Tick
  BY <1>3, ReplayTime DEF Replay!TypeOK, Replay!MoveOf, Replay!runVars
<1>. QED BY <1>1, <1>2, <1>3 DEF Replay!Next

\* Runs keep to their kind of steps.
LEMMA ReplayRolesStep ==
    ASSUME Replay!TypeOK, ReplayRoles, Replay!Next
    PROVE  ReplayRoles'
<1>1. ASSUME NEW c \in Runs, NEW f \in Prints \union {None}, NEW records \in BOOLEAN,
             Replay!Start(c, f, records)
      PROVE  ReplayRoles'
  <2>1. replayNow \in Nat
    BY DEF Replay!TypeOK
  <2>. QED BY <1>1, <2>1, ReplayStart DEF ReplayRoles
<1>2. ASSUME NEW c \in Runs, Replay!Run(c) \/ Replay!Fault(c)
      PROVE  ReplayRoles'
  BY <1>2, ReplayFrame DEF ReplayRoles
<1>3. CASE Replay!PurgeExpired \/ Replay!Tick
  <2>1. \A c \in Runs : replayArgs[c].at \in Nat
    BY DEF Replay!TypeOK, Replay!RunType
  <2>2. /\ replayArgs' = replayArgs /\ replayPc' = replayPc /\ replayOutcome' = replayOutcome
        /\ replayNow \in Nat /\ replayNow' \in Nat /\ replayNow' >= replayNow
    BY <1>3, ReplayTime DEF Replay!runVars
  <2>. QED BY <2>1, <2>2 DEF ReplayRoles
<1>. QED BY <1>1, <1>2, <1>3 DEF Replay!Next

\* What a row says was recorded by some run.
LEMMA RecordedStep ==
    ASSUME Replay!TypeOK, ReplayRoles, RecordedBySomeRun, Replay!Next
    PROVE  RecordedBySomeRun'
<1>. SUFFICES ASSUME NEW g \in Prints, replayEntry'[g] \notin {None, 0}
              PROVE  \E b \in Runs :
                        /\ replayArgs'[b].records /\ replayArgs'[b].print = g
                        /\ replayOutcome'[b] = "pass" /\ replayUntil'[b] = replayEntry'[g]
  BY DEF RecordedBySomeRun, Replay!MoveOf
<1>1. ASSUME replayEntry'[g] = replayEntry[g]
      PROVE  \E b \in Runs :
                /\ replayArgs[b].records /\ replayArgs[b].print = g
                /\ replayOutcome[b] = "pass" /\ replayUntil[b] = replayEntry'[g]
  BY <1>1 DEF RecordedBySomeRun, Replay!MoveOf
<1>2. ASSUME NEW c \in Runs, NEW f \in Prints \union {None}, NEW records \in BOOLEAN,
             Replay!Start(c, f, records)
      PROVE  \E b \in Runs :
                /\ replayArgs'[b].records /\ replayArgs'[b].print = g
                /\ replayOutcome'[b] = "pass" /\ replayUntil'[b] = replayEntry'[g]
  <2>1. PICK b \in Runs : /\ replayArgs[b].records /\ replayArgs[b].print = g
                          /\ replayOutcome[b] = "pass" /\ replayUntil[b] = replayEntry'[g]
    BY <1>1, <1>2, ReplayStart
  <2>2. b # c
    BY <1>2, <2>1, ReplayStart
  <2>3. replayArgs'[b] = replayArgs[b] /\ replayOutcome'[b] = replayOutcome[b]
        /\ replayUntil'[b] = replayUntil[b]
    BY <1>2, <2>2, ReplayStart
  <2>. QED BY <2>1, <2>3
<1>3. ASSUME NEW c \in Runs, Replay!Run(c) \/ Replay!Fault(c)
      PROVE  \E b \in Runs :
                /\ replayArgs'[b].records /\ replayArgs'[b].print = g
                /\ replayOutcome'[b] = "pass" /\ replayUntil'[b] = replayEntry'[g]
  <2>1. CASE replayEntry'[g] = replayEntry[g]
    <3>1. PICK b \in Runs : /\ replayArgs[b].records /\ replayArgs[b].print = g
                            /\ replayOutcome[b] = "pass" /\ replayUntil[b] = replayEntry'[g]
      BY <1>1, <2>1
    <3>2. b # c
      BY <1>3, <3>1, ReplayFrame
    <3>. QED BY <1>3, <3>1, <3>2, ReplayFrame
  <2>2. CASE replayEntry'[g] # replayEntry[g]
    <3>1. /\ g = Replay!MoveOf(c) /\ replayArgs[c].records /\ replayOutcome'[c] = "pass"
          /\ replayEntry'[g] = replayUntil[c] /\ replayUntil'[c] = replayUntil[c]
      BY <1>3, <2>2, EntrySteps
    <3>. QED BY <1>3, <3>1, ReplayFrame DEF Replay!MoveOf
  <2>. QED BY <2>1, <2>2
<1>4. CASE Replay!PurgeExpired \/ Replay!Tick
  <2>1. /\ replayEntry'[g] = replayEntry[g]
        /\ replayArgs' = replayArgs /\ replayOutcome' = replayOutcome /\ replayUntil' = replayUntil
    BY <1>4, ReplayTime DEF Replay!runVars
  <2>. QED BY <1>1, <2>1
<1>. QED BY <1>2, <1>3, <1>4 DEF Replay!Next

\* A movement that is refused has been recorded.
LEMMA RefusedStep ==
    ASSUME Replay!TypeOK, ReplayRoles, RecordedBySomeRun, Replay!RefusedOnlyIfRecent, Replay!Next
    PROVE  Replay!RefusedOnlyIfRecent'
<1>. SUFFICES ASSUME NEW d \in Runs, replayOutcome'[d] = "repeat"
              PROVE  \E b \in Runs \ {d} :
                        /\ replayArgs'[b].records /\ replayArgs'[b].print = replayArgs'[d].print
                        /\ replayOutcome'[b] = "pass" /\ replayUntil'[b] > replayArgs'[d].at
  BY DEF Replay!RefusedOnlyIfRecent, Replay!MoveOf
<1>1. ASSUME replayOutcome[d] = "repeat"
      PROVE  \E b \in Runs \ {d} :
                /\ replayArgs[b].records /\ replayArgs[b].print = replayArgs[d].print
                /\ replayOutcome[b] = "pass" /\ replayUntil[b] > replayArgs[d].at
  BY <1>1 DEF Replay!RefusedOnlyIfRecent, Replay!MoveOf
<1>2. ASSUME NEW c \in Runs, NEW f \in Prints \union {None}, NEW records \in BOOLEAN,
             Replay!Start(c, f, records)
      PROVE  \E b \in Runs \ {d} :
                /\ replayArgs'[b].records /\ replayArgs'[b].print = replayArgs'[d].print
                /\ replayOutcome'[b] = "pass" /\ replayUntil'[b] > replayArgs'[d].at
  <2>1. d # c /\ replayOutcome[d] = "repeat"
    BY <1>2, ReplayStart
  <2>2. PICK b \in Runs \ {d} :
                /\ replayArgs[b].records /\ replayArgs[b].print = replayArgs[d].print
                /\ replayOutcome[b] = "pass" /\ replayUntil[b] > replayArgs[d].at
    BY <1>1, <2>1
  <2>3. b # c
    BY <1>2, <2>2, ReplayStart
  <2>. QED BY <1>2, <2>1, <2>2, <2>3, ReplayStart
<1>3. ASSUME NEW c \in Runs, Replay!Run(c) \/ Replay!Fault(c)
      PROVE  \E b \in Runs \ {d} :
                /\ replayArgs'[b].records /\ replayArgs'[b].print = replayArgs'[d].print
                /\ replayOutcome'[b] = "pass" /\ replayUntil'[b] > replayArgs'[d].at
  <2>1. PICK b \in Runs \ {d} :
                /\ replayArgs[b].records /\ replayArgs[b].print = replayArgs[d].print
                /\ replayOutcome[b] = "pass" /\ replayUntil[b] > replayArgs[d].at
    <3>1. CASE d # c
      BY <1>1, <1>3, <3>1, ReplayFrame
    <3>2. CASE d = c
      <4>1. Replay!Live(Replay!MoveOf(c)) /\ Replay!MoveOf(c) \in Prints
        BY <1>3, <3>2, ReplayFrame, EntrySteps
      <4>2. replayEntry[Replay!MoveOf(c)] \in Nat /\ replayNow \in Nat
            /\ replayEntry[Replay!MoveOf(c)] > replayNow
        BY <4>1 DEF Replay!Live, Replay!TypeOK
      <4>3. replayEntry[Replay!MoveOf(c)] \notin {None, 0}
        BY <4>2, ReplayAssumed
      <4>4. PICK b \in Runs : /\ replayArgs[b].records /\ Replay!MoveOf(b) = Replay!MoveOf(c)
                              /\ replayOutcome[b] = "pass"
                              /\ replayUntil[b] = replayEntry[Replay!MoveOf(c)]
        BY <4>1, <4>3 DEF RecordedBySomeRun
      <4>5. b # c
        BY <1>3, <4>4, ReplayFrame
      <4>6. replayArgs[c].at <= replayNow /\ replayArgs[c].at \in Nat
        BY DEF ReplayRoles, Replay!TypeOK, Replay!RunType
      <4>7. replayUntil[b] > replayArgs[c].at
        BY <4>2, <4>4, <4>6
      <4>. QED BY <3>2, <4>4, <4>5, <4>7 DEF Replay!MoveOf
    <3>. QED BY <3>1, <3>2
  <2>2. b # c
    BY <1>3, <2>1, ReplayFrame
  <2>. QED BY <1>3, <2>1, <2>2, ReplayFrame
<1>4. CASE Replay!PurgeExpired \/ Replay!Tick
  <2>1. /\ replayArgs' = replayArgs /\ replayOutcome' = replayOutcome /\ replayUntil' = replayUntil
    BY <1>4, ReplayTime DEF Replay!runVars
  <2>. QED BY <1>1, <2>1
<1>. QED BY <1>2, <1>3, <1>4 DEF Replay!Next

\* A recorded fingerprint has a row that lives as long.
LEMMA RecordsLive ==
    ASSUME Replay!TypeOK, RecordsStay, NEW f \in Prints, NEW b \in Replay!Recorded(f)
    PROVE  /\ replayEntry[f] \in Nat /\ replayUntil[b] \in Nat
           /\ replayEntry[f] >= replayUntil[b] /\ Replay!Live(f)
<1>1. b \in Runs /\ replayUntil[b] > replayNow
  BY DEF Replay!Recorded
<1>2. replayEntry[f] # None /\ replayEntry[f] >= replayUntil[b]
  BY DEF RecordsStay
<1>3. replayEntry[f] \in Nat /\ replayUntil[b] \in Nat /\ replayNow \in Nat
  BY <1>1, <1>2 DEF Replay!TypeOK
<1>4. replayEntry[f] > replayNow
  BY <1>1, <1>2, <1>3
<1>. QED BY <1>2, <1>3, <1>4 DEF Replay!Live

\* What was recorded stays until its ttl is over.
LEMMA RecordsStayStep ==
    ASSUME Replay!TypeOK, ReplayRoles, RecordsStay, Replay!Next, replayExcuses' = {}
    PROVE  RecordsStay'
<1>. SUFFICES ASSUME NEW g \in Prints, NEW b \in Runs,
                     replayArgs'[b].records, replayArgs'[b].print = g,
                     replayOutcome'[b] = "pass", replayUntil'[b] > replayNow'
              PROVE  replayEntry'[g] # None /\ replayEntry'[g] >= replayUntil'[b]
  BY DEF RecordsStay, Replay!Recorded, Replay!MoveOf
<1>1. ASSUME replayArgs[b].records, replayArgs[b].print = g,
             replayOutcome[b] = "pass", replayUntil[b] > replayNow
      PROVE  /\ replayEntry[g] \in Nat /\ replayUntil[b] \in Nat
             /\ replayEntry[g] >= replayUntil[b] /\ Replay!Live(g)
  <2>1. b \in Replay!Recorded(g)
    BY <1>1 DEF Replay!Recorded, Replay!MoveOf
  <2>. QED BY <2>1, RecordsLive
<1>2. ASSUME NEW c \in Runs, NEW f \in Prints \union {None}, NEW records \in BOOLEAN,
             Replay!Start(c, f, records)
      PROVE  replayEntry'[g] # None /\ replayEntry'[g] >= replayUntil'[b]
  <2>1. b # c
    BY <1>2, ReplayStart, ReplayAssumed
  <2>2. /\ replayArgs'[b] = replayArgs[b] /\ replayOutcome'[b] = replayOutcome[b]
        /\ replayUntil' = replayUntil /\ replayNow' = replayNow /\ replayEntry' = replayEntry
    BY <1>2, <2>1, ReplayStart
  <2>. QED BY <1>1, <2>2, ReplayAssumed
<1>3. ASSUME NEW c \in Runs, Replay!Run(c) \/ Replay!Fault(c)
      PROVE  replayEntry'[g] # None /\ replayEntry'[g] >= replayUntil'[b]
  <2>1. CASE b = c
    <3>1. /\ replayEntry'[g] = replayUntil[c] /\ replayUntil'[c] = replayUntil[c]
          /\ replayUntil[c] \in Nat
      BY <1>3, <2>1, ReplayFrame, EntrySteps DEF Replay!MoveOf, Replay!TypeOK
    <3>. QED BY <2>1, <3>1, ReplayAssumed
  <2>2. CASE b # c
    <3>1. /\ replayArgs'[b] = replayArgs[b] /\ replayOutcome'[b] = replayOutcome[b]
          /\ replayUntil'[b] = replayUntil[b] /\ replayNow' = replayNow
      BY <1>3, <2>2, ReplayFrame
    <3>2. /\ replayEntry[g] \in Nat /\ replayUntil[b] \in Nat
          /\ replayEntry[g] >= replayUntil[b] /\ Replay!Live(g)
      BY <1>1, <3>1
    <3>3. \/ replayEntry'[g] = replayEntry[g]
          \/ replayEntry'[g] = replayUntil[c] /\ replayUntil[c] >= replayEntry[g]
      BY <1>3, <3>2, EntrySteps, ReplayAssumed
    <3>4. replayUntil[c] \in Nat
      BY DEF Replay!TypeOK
    <3>. QED BY <3>1, <3>2, <3>3, <3>4, ReplayAssumed
  <2>. QED BY <2>1, <2>2
<1>4. CASE Replay!PurgeExpired \/ Replay!Tick
  <2>1. /\ replayArgs' = replayArgs /\ replayOutcome' = replayOutcome /\ replayUntil' = replayUntil
    BY <1>4, ReplayTime DEF Replay!runVars
  <2>2. replayNow \in Nat /\ replayNow' \in Nat /\ replayNow' >= replayNow /\ replayUntil[b] \in Nat
    BY <1>4, ReplayTime DEF Replay!TypeOK
  <2>3. replayUntil[b] > replayNow
    BY <2>1, <2>2, NotOverYet
  <2>4. replayEntry'[g] = replayEntry[g]
    BY <1>1, <1>4, <2>1, <2>3, ReplayTime
  <2>. QED BY <1>1, <2>1, <2>3, <2>4, ReplayAssumed
<1>. QED BY <1>2, <1>3, <1>4 DEF Replay!Next

\* The invariant of the replay guard is inductive.
LEMMA ReplayInvInit == Replay!Init => ReplayInv
<1>. SUFFICES ASSUME Replay!Init PROVE ReplayInv
  OBVIOUS
<1>1. ASSUME NEW c \in Runs
      PROVE  /\ replayPc[c] = "idle" /\ replayOutcome[c] = "none"
             /\ replayArgs[c].at = 0 /\ replayNow = 0 /\ replayArgs[c].at <= replayNow
  BY DEF Replay!Init, Replay!NoRun
<1>2. Replay!TypeOK
  BY <1>1 DEF Replay!Init, Replay!TypeOK, Replay!RunType, Replay!NoRun, Replay!PCs, Replay!Outcomes,
     Replay!Causes
<1>3. ReplayRoles /\ Replay!RefusedOnlyIfRecent
  BY <1>1 DEF ReplayRoles, Replay!RefusedOnlyIfRecent
<1>4. RecordedBySomeRun
  BY DEF Replay!Init, RecordedBySomeRun
<1>5. RecordsStay
  BY <1>1 DEF RecordsStay, Replay!Recorded
<1>. QED BY <1>2, <1>3, <1>4, <1>5 DEF ReplayInv

LEMMA ReplayInvStep == ReplayInv /\ Replay!Next => ReplayInv'
<1>. SUFFICES ASSUME ReplayInv, Replay!Next PROVE ReplayInv'
  OBVIOUS
<1>1. Replay!TypeOK' /\ ReplayRoles' /\ RecordedBySomeRun' /\ Replay!RefusedOnlyIfRecent'
  BY ReplayTypeStep, ReplayRolesStep, RecordedStep, RefusedStep DEF ReplayInv
<1>2. ASSUME replayExcuses' = {} PROVE RecordsStay'
  <2>1. replayExcuses \subseteq replayExcuses'
    <3>1. ASSUME NEW c \in Runs, NEW f \in Prints \union {None}, NEW records \in BOOLEAN,
                 Replay!Start(c, f, records)
          PROVE  replayExcuses \subseteq replayExcuses'
      BY <3>1 DEF Replay!Start
    <3>2. ASSUME NEW c \in Runs, Replay!Run(c) \/ Replay!Fault(c)
          PROVE  replayExcuses \subseteq replayExcuses'
      BY <3>2, EntrySteps DEF ReplayInv
    <3>3. CASE Replay!PurgeExpired \/ Replay!Tick
      BY <3>3, ReplayTime DEF ReplayInv
    <3>. QED BY <3>1, <3>2, <3>3 DEF Replay!Next
  <2>. QED BY <1>2, <2>1, RecordsStayStep DEF ReplayInv
<1>. QED BY <1>1, <1>2 DEF ReplayInv

\* A step that looks up a live record finds it, while nothing is to blame.
LEMMA ReplayCatches ==
    ASSUME ReplayInv, Replay!Next, NEW c \in Runs, Replay!Missed(c)
    PROVE  replayExcuses # {}
<1>. SUFFICES ASSUME replayExcuses = {} PROVE FALSE
  OBVIOUS
<1>1. /\ Replay!TypeOK /\ ReplayRoles /\ RecordsStay
      /\ replayPc[c] = "look" /\ replayPc'[c] # "look" /\ replayOutcome'[c] # "repeat"
      /\ replayFaults' = replayFaults /\ replayFaults \in Nat
  BY DEF ReplayInv, Replay!Missed, Replay!TypeOK
<1>2. Replay!Live(Replay!MoveOf(c))
  <2>1. Replay!MoveOf(c) \in Prints
    BY <1>1 DEF Replay!TypeOK
  <2>2. PICK b \in Replay!Recorded(Replay!MoveOf(c)) : TRUE
    BY DEF Replay!Missed
  <2>. QED BY <1>1, <2>1, <2>2, RecordsLive
<1>3. ASSUME NEW d \in Runs, NEW f \in Prints \union {None}, NEW records \in BOOLEAN,
             Replay!Start(d, f, records)
      PROVE  FALSE
  BY <1>1, <1>3, ReplayStart
<1>4. ASSUME NEW d \in Runs, Replay!Run(d) \/ Replay!Fault(d)
      PROVE  FALSE
  <2>1. d = c
    BY <1>1, <1>4, ReplayFrame
  <2>2. Replay!Look(c)
    <3>1. ~ Replay!Fault(c)
      <4>1. replayFaults + 1 # replayFaults
        BY <1>1
      <4>. QED BY <1>1, <4>1 DEF Replay!Fault
    <3>2. /\ ~ Replay!Forget(c) /\ ~ Replay!Fetch(c) /\ ~ Replay!Insert(c) /\ ~ Replay!Reget(c)
          /\ ~ Replay!Renew(c)
      BY <1>1 DEF Replay!Forget, Replay!Fetch, Replay!Insert, Replay!Reget, Replay!Renew
    <3>. QED BY <1>4, <2>1, <3>1, <3>2 DEF Replay!Run
  <2>3. Replay!Finish(c, "repeat")
    BY <1>2, <2>2 DEF Replay!Look, Replay!Live
  <2>. QED BY <1>1, <2>3 DEF Replay!Finish, Replay!TypeOK
<1>5. CASE Replay!PurgeExpired \/ Replay!Tick
  BY <1>1, <1>5, ReplayTime DEF Replay!runVars
<1>. QED BY <1>3, <1>4, <1>5 DEF Replay!Next

-----------------------------------------------------------------------------
(* The three stores together. *)

\* The invariant of a store speaks of that store alone.
LEMMA RiskRests == RiskInv /\ UNCHANGED riskVars => RiskInv'
<1>. SUFFICES ASSUME RiskInv, UNCHANGED riskVars PROVE RiskInv'
  OBVIOUS
<1>. USE DEF riskVars
<1>1. Risk!TypeOK'
  BY DEF RiskInv, Risk!TypeOK
<1>2. RiskRoles'
  BY DEF RiskInv, RiskRoles, Risk!IsBump
<1>3. ASSUME RiskKept PROVE RiskKept'
  <2>1. RiskAlone' /\ RiskStored' /\ RiskMissed'
    BY <1>3 DEF RiskKept, RiskAlone, RiskStored, RiskMissed, RiskWrote, Risk!IsBump, Risk!UnderWay
  <2>2. RiskDecided'
    BY <1>3 DEF RiskKept, RiskDecided, WantsEnough, PutsEnough, RowStands, Covers, Risk!Alive
  <2>3. RiskFast'
    BY <1>3 DEF RiskKept, RiskFast, Risk!Alive, Risk!IsBump
  <2>4. Risk!Remembered'
    BY <1>3 DEF RiskKept, Risk!Remembered, Risk!IsBump
  <2>. QED BY <2>1, <2>2, <2>3, <2>4 DEF RiskKept
<1>. QED BY <1>1, <1>2, <1>3 DEF RiskInv

LEMMA TrustRests == TrustInv /\ UNCHANGED trustVars => TrustInv'
<1>. SUFFICES ASSUME TrustInv, UNCHANGED trustVars PROVE TrustInv'
  OBVIOUS
<1>. USE DEF trustVars
<1>1. Trust!TypeOK'
  BY DEF TrustInv, Trust!TypeOK
<1>2. TrustRoles'
  BY DEF TrustInv, TrustRoles, Trust!Trusts
<1>3. ASSUME TrustKept PROVE TrustKept'
  <2>1. TrustAlone' /\ TrustReads'
    BY <1>3 DEF TrustKept, TrustAlone, TrustReads, Trust!Trusts, Trust!UnderWay
  <2>2. TrustLast' /\ TrustFront'
    BY <1>3 DEF TrustKept, TrustLast, TrustFront, TrustWrote, WroteLast, DoneLast, Trust!Alive,
       Trust!Trusts, Trust!Until
  <2>3. Trust!TrustIsCurrent'
    BY <1>3 DEF TrustKept, Trust!TrustIsCurrent, Trust!Asked, Trust!Trusts, Trust!Accounts,
       Trust!Newest, Trust!UnderWay, Trust!Matches
  <2>. QED BY <2>1, <2>2, <2>3 DEF TrustKept
<1>4. ASSUME NewestStands PROVE NewestStands'
  BY <1>4 DEF NewestStands, Stands, TrustWrote, Trust!Trusts, Trust!Newest, Trust!Until
<1>5. ASSUME Trust!TrustIsRemembered PROVE Trust!TrustIsRemembered'
  BY <1>5 DEF Trust!TrustIsRemembered, Trust!Asked, Trust!Trusts, Trust!Newest, Trust!Matches,
     Trust!Until
<1>. QED BY <1>1, <1>2, <1>3, <1>4, <1>5 DEF TrustInv

LEMMA ReplayRests == ReplayInv /\ UNCHANGED replayVars => ReplayInv'
<1>. SUFFICES ASSUME ReplayInv, UNCHANGED replayVars PROVE ReplayInv'
  OBVIOUS
<1>. USE DEF replayVars
<1>1. Replay!TypeOK' /\ ReplayRoles'
  BY DEF ReplayInv, Replay!TypeOK, ReplayRoles, Replay!MoveOf
<1>2. RecordedBySomeRun' /\ Replay!RefusedOnlyIfRecent'
  BY DEF ReplayInv, RecordedBySomeRun, Replay!RefusedOnlyIfRecent, Replay!MoveOf
<1>3. ASSUME RecordsStay PROVE RecordsStay'
  BY <1>3 DEF RecordsStay, Replay!Recorded, Replay!MoveOf
<1>. QED BY <1>1, <1>2, <1>3 DEF ReplayInv

\* The invariants of the three hold of every behaviour.
LEMMA Invariance == Spec => []IInv
<1>1. Init => IInv
  BY RiskInvInit, TrustInvInit, ReplayInvInit DEF Init, IInv
<1>2. IInv /\ [Next]_vars => IInv'
  <2>. SUFFICES ASSUME IInv, [Next]_vars PROVE IInv'
    OBVIOUS
  <2>1. CASE MoveRisk
    BY <2>1, RiskInvStep, TrustRests, ReplayRests DEF MoveRisk, IInv
  <2>2. CASE MoveTrust
    BY <2>2, RiskRests, TrustInvStep, ReplayRests DEF MoveTrust, IInv
  <2>3. CASE MoveReplay
    BY <2>3, RiskRests, TrustRests, ReplayInvStep DEF MoveReplay, IInv
  <2>4. CASE UNCHANGED vars
    BY <2>4, RiskRests, TrustRests, ReplayRests DEF vars, IInv
  <2>. QED BY <2>1, <2>2, <2>3, <2>4 DEF Next
<1>. QED BY <1>1, <1>2, PTL DEF Spec

\* No call or run of the three stores is ever in a step the code does not have.
THEOREM TypeCorrect == Spec => [](Risk!TypeOK /\ Trust!TypeOK /\ Replay!TypeOK)
<1>1. IInv => Risk!TypeOK /\ Trust!TypeOK /\ Replay!TypeOK
  BY DEF IInv, RiskInv, TrustInv, ReplayInv
<1>. QED BY <1>1, Invariance, PTL

\* However calls, expiry, purges and failures of the database interleave, a level that a
\* bump() has reported is what every later get() reports at least, until its ttl is
\* over; or two bumps overlapped, a write to the fast tier was lost, or a DELETE came late.
THEOREM RemembersLevels == Spec => []LevelRemembered
<1>1. IInv => LevelRemembered
  BY DEF IInv, RiskInv, RiskKept, LevelRemembered, Risk!RememberedUnlessExcused
<1>. QED BY <1>1, Invariance, PTL

\* A level in the capped fast tier is not below the level in the database while no bump is
\* between the two; or one of the three is to blame.
THEOREM HidesNoLevel == Spec => []FastLevelHidesNothing
<1>1. IInv => FastLevelHidesNothing
  <2>. SUFFICES ASSUME IInv PROVE FastLevelHidesNothing
    OBVIOUS
  <2>1. RiskRoles /\ (riskExcuses = {} => RiskFast)
    BY DEF IInv, RiskInv, RiskKept
  <2>. QED BY <2>1 DEF FastLevelHidesNothing, Risk!FastHidesNothing, RiskFast, RiskRoles,
           Risk!UnderWay, Fasting
<1>. QED BY <1>1, Invariance, PTL

\* Whoever is told to be trusted was trusted, at that address, by the last verification
\* and within its ttl, in whatever order calls, expiry, purges and failures of the
\* database come; or two trust() calls overlapped or a write to the fast tier was lost.
THEOREM TrustsOnlyTheCurrent == Spec => []TrustIsCurrent
<1>1. IInv => TrustIsCurrent
  BY DEF IInv, TrustInv, TrustKept, TrustIsCurrent, Trust!CurrentUnlessExcused
<1>. QED BY <1>1, Invariance, PTL

\* Whoever was verified last, after every other trust(), is found trusted at that address
\* until the ttl is over, unless a DELETE of an expired row came late.
THEOREM RemembersTrust == Spec => []TrustRemembered
<1>1. IInv => TrustRemembered
  BY DEF IInv, TrustInv, TrustRemembered, Trust!RememberedUnlessExcused
<1>. QED BY <1>1, Invariance, PTL

\* A movement is refused only when another run has recorded it and its ttl was not over.
THEOREM RefusesOnlyTheRecent == Spec => []RefusedOnlyForRecent
<1>1. IInv => RefusedOnlyForRecent
  BY DEF IInv, ReplayInv, RefusedOnlyForRecent
<1>. QED BY <1>1, Invariance, PTL

\* A look-up made after some run recorded the same movement, and within its ttl, finds it,
\* whatever other runs do meanwhile; or a DELETE or an UPDATE came late.
THEOREM CatchesReplays == Spec => ReplayCaught
<1>1. IInv /\ [Next]_vars
        => [\A c \in Runs : Replay!Missed(c) => replayExcuses # {}]_(Replay!vars)
  <2>. SUFFICES ASSUME IInv, [Next]_vars
                PROVE  [\A c \in Runs : Replay!Missed(c) => replayExcuses # {}]_(Replay!vars)
    OBVIOUS
  <2>1. CASE Replay!Next
    BY <2>1, ReplayCatches DEF IInv
  <2>2. CASE UNCHANGED replayVars
    BY <2>2 DEF replayVars, Replay!vars, Replay!runVars
  <2>. QED BY <2>1, <2>2 DEF Next, MoveRisk, MoveTrust, MoveReplay, vars
<1>. QED BY <1>1, Invariance, PTL DEF Spec, ReplayCaught, Replay!CaughtUnlessExcused
=============================================================================
