---------------------------- MODULE ReplayGuard ----------------------------
(***************************************************************************)
(* Replay detection: replay_guard.py's RepeatedMovementCheck and risk.py's *)
(* ReplayRiskSignal over sql.py's SQLTrajectoryFingerprintStore, run by    *)
(* any number of verifications and risk assessments at once.  Each         *)
(* database transaction is a step.  Over MemoryTrajectoryFingerprintStore  *)
(* a check never suspends, so its behaviours are those below in which no   *)
(* two runs overlap.                                                       *)
(***************************************************************************)
EXTENDS Naturals

CONSTANTS
    Runs,       \* runs of the check or of the signal
    Prints,     \* fingerprints of mouse trajectories
    None,       \* no usable trajectory, no row
    Ttl,        \* RepeatedMovementCheck.ttl, in clock ticks
    MaxTime,    \* bound on the clock
    MaxFaults   \* bound on failed operations

ReplayAssumption ==
    /\ None \notin Prints \union Nat
    /\ Ttl \in Nat \ {0}
    /\ MaxTime \in Nat
    /\ MaxFaults \in Nat

VARIABLES
    now,        \* datetime.now(UTC)
    entry,      \* expires_at of each fingerprint's row, None if there is none
    args,       \* what each run looks at: see RunType
    pc,         \* where each run is
    until,      \* expires_at as computed by each run that records
    outcome,    \* what each run found
    faults,
    excuses     \* what happened so far that can make the store forget

runVars == <<args, pc, until, outcome>>
vars == <<now, entry, runVars, faults, excuses>>

\* `records`: a RepeatedMovementCheck; a ReplayRiskSignal only looks.
RunType == [print: Prints \union {None}, records: BOOLEAN, at: Nat]
NoRun == [print |-> None, records |-> FALSE, at |-> 0]
PCs == {"idle", "look", "forget", "fetch", "insert", "reget", "renew", "done"}
Outcomes == {"none", "pass", "repeat", "error"}
Causes == {"stale delete", "late write"}

MoveOf(c) == args[c].print
Live(f) == entry[f] # None /\ entry[f] > now

\* There may be expired rows, left by movements of long ago.
Init ==
    /\ now = 0
    /\ entry \in [Prints -> {None, 0}]
    /\ args = [c \in Runs |-> NoRun]
    /\ pc = [c \in Runs |-> "idle"]
    /\ until = [c \in Runs |-> 0]
    /\ outcome = [c \in Runs |-> "none"]
    /\ faults = 0
    /\ excuses = {}

-----------------------------------------------------------------------------
\* The definitions named ..._Mut are broken variants of the definition that follows
\* them, each a slip somebody could make in that code; the properties below are
\* checked to catch them.

Goto(c, next) ==
    /\ pc' = [pc EXCEPT ![c] = next]
    /\ UNCHANGED outcome

Finish(c, found) ==
    /\ pc' = [pc EXCEPT ![c] = "done"]
    /\ outcome' = [outcome EXCEPT ![c] = found]

\* run() or assess(): without a usable trajectory, or for touch and pen, it passes.
Start(c, f, records) ==
    /\ pc[c] = "idle"
    /\ args' = [args EXCEPT ![c] = [print |-> f, records |-> records, at |-> now]]
    /\ IF f = None THEN Finish(c, "pass") ELSE Goto(c, "look")
    /\ UNCHANGED <<now, entry, until, faults, excuses>>

\* What follows a fingerprint not seen: the check records it.
Unseen(c) == IF args[c].records THEN Goto(c, "fetch") ELSE Finish(c, "pass")

Look_MutNoExpiry(c) ==
    /\ pc[c] = "look"
    /\ IF entry[MoveOf(c)] = None THEN Unseen(c) ELSE Finish(c, "repeat")
    /\ UNCHANGED <<now, entry, args, until, faults, excuses>>

\* seen_recently: the read.
Look(c) ==
    LET f == MoveOf(c)
    IN  /\ pc[c] = "look"
        /\ \/ entry[f] = None /\ Unseen(c)
           \/ Live(f) /\ Finish(c, "repeat")
           \/ entry[f] # None /\ ~ Live(f) /\ Goto(c, "forget")
        /\ UNCHANGED <<now, entry, args, until, faults, excuses>>

\* seen_recently: the lazy DELETE of the row found expired, by primary key.
Forget(c) ==
    LET f == MoveOf(c)
    IN  /\ pc[c] = "forget"
        /\ entry' = [entry EXCEPT ![f] = None]
        /\ excuses' = IF Live(f) THEN excuses \union {"stale delete"} ELSE excuses
        /\ Unseen(c)
        /\ UNCHANGED <<now, args, until, faults>>

\* record: the read of the row.
Fetch(c) ==
    /\ pc[c] = "fetch"
    /\ until' = [until EXCEPT ![c] = now + Ttl]
    /\ Goto(c, IF entry[MoveOf(c)] = None THEN "insert" ELSE "renew")
    /\ UNCHANGED <<now, entry, args, faults, excuses>>

\* _commit_upsert of a new row: the INSERT, or a rollback if there is one by now.
Insert(c) ==
    LET f == MoveOf(c)
    IN  /\ pc[c] = "insert"
        /\ IF entry[f] = None
           THEN entry' = [entry EXCEPT ![f] = until[c]] /\ Finish(c, "pass")
           ELSE Goto(c, "reget") /\ UNCHANGED entry
        /\ UNCHANGED <<now, args, until, faults, excuses>>

\* ... after which get_existing must find it.
Reget(c) ==
    /\ pc[c] = "reget"
    /\ IF entry[MoveOf(c)] = None THEN Finish(c, "error") ELSE Goto(c, "renew")
    /\ UNCHANGED <<now, entry, args, until, faults, excuses>>

Renew_MutFirstWins(c) ==
    LET f == MoveOf(c)
    IN  /\ pc[c] = "renew"
        /\ IF entry[f] = None THEN Finish(c, "error") ELSE Finish(c, "pass")
        /\ UNCHANGED <<now, entry, args, until, faults, excuses>>

\* The UPDATE of expires_at: an error if the row is gone (StaleDataError).
Renew(c) ==
    LET f == MoveOf(c)
    IN  /\ pc[c] = "renew"
        /\ \/ entry[f] = None /\ Finish(c, "error") /\ UNCHANGED <<entry, excuses>>
           \/ /\ entry[f] # None
              /\ entry' = [entry EXCEPT ![f] = until[c]]
              /\ excuses' = IF until[c] < entry[f]
                            THEN excuses \union {"late write"} ELSE excuses
              /\ Finish(c, "pass")
        /\ UNCHANGED <<now, args, until, faults>>

-----------------------------------------------------------------------------
\* A database operation raises: so does the check.  The engine takes a raising
\* signal for an abstention.
Fault(c) ==
    /\ faults < MaxFaults
    /\ faults' = faults + 1
    /\ pc[c] \notin {"idle", "done"}
    /\ Finish(c, IF args[c].records THEN "error" ELSE "pass")
    /\ UNCHANGED <<now, entry, args, until, excuses>>

\* SQLTrajectoryFingerprintStore.purge_expired, run by the deployment's scheduler.
PurgeExpired ==
    /\ \E f \in Prints : entry[f] # None /\ ~ Live(f)
    /\ entry' = [f \in Prints |-> IF Live(f) THEN entry[f] ELSE None]
    /\ UNCHANGED <<now, runVars, faults, excuses>>

Tick ==
    /\ now < MaxTime
    /\ now' = now + 1
    /\ UNCHANGED <<entry, runVars, faults, excuses>>

Run(c) ==
    \/ Look(c) \/ Forget(c)
    \/ Fetch(c) \/ Insert(c) \/ Reget(c) \/ Renew(c)

Next ==
    \/ \E c \in Runs, f \in Prints \union {None}, records \in BOOLEAN : Start(c, f, records)
    \/ \E c \in Runs : Run(c) \/ Fault(c)
    \/ PurgeExpired
    \/ Tick

Spec == Init /\ [][Next]_vars

-----------------------------------------------------------------------------
(* Properties *)

TypeOK ==
    /\ now \in Nat
    /\ entry \in [Prints -> Nat \union {None}]
    /\ args \in [Runs -> RunType]
    /\ \A c \in Runs : pc[c] \notin {"idle", "done"} => MoveOf(c) \in Prints
    /\ pc \in [Runs -> PCs]
    /\ until \in [Runs -> Nat]
    /\ outcome \in [Runs -> Outcomes]
    /\ faults \in Nat
    /\ excuses \in SUBSET Causes

\* The runs that passed and recorded their fingerprint, still within its ttl.
Recorded(f) ==
    {b \in Runs : args[b].records /\ MoveOf(b) = f /\ outcome[b] = "pass" /\ until[b] > now}

\* A look-up of a fingerprint that another verification has recorded finds it.
Missed(c) ==
    /\ pc[c] = "look"
    /\ Recorded(MoveOf(c)) # {}
    /\ pc'[c] # "look"
    /\ outcome'[c] # "repeat"
    /\ faults' = faults

\* SQLTrajectoryFingerprintStore's docstring: "a replayed fingerprint is caught even
\* if it lands on a different web replica than the one that saw it first".  (The code
\* does not keep this: a lazy delete can remove the row another run just renewed.)
CaughtDespiteStaleDelete ==
    [][\A c \in Runs : Missed(c) => "late write" \in excuses]_vars

\* A look-up made after some verification with the same fingerprint passed, and
\* within that one's ttl, finds it, whichever replica runs it, unless one run's
\* lazy delete or overdue UPDATE has undone what another recorded; nothing else
\* can undo it, and only look-ups made before the recording slip through.
CaughtUnlessExcused ==
    [][\A c \in Runs : Missed(c) => excuses # {}]_vars

\* Nobody is refused for a movement nobody used: another run recorded that
\* fingerprint, and its ttl was not over when this one started.
RefusedOnlyIfRecent ==
    \A c \in Runs : outcome[c] = "repeat" =>
        \E b \in Runs \ {c} :
            /\ args[b].records
            /\ MoveOf(b) = MoveOf(c)
            /\ outcome[b] = "pass"
            /\ until[b] > args[c].at

\* _commit_upsert's assertion: "IntegrityError implies the row now exists", at least
\* when some run has recorded a row whose ttl is not over.  (The code does not keep
\* this: the lazy delete again.)
ConflictMeansRow ==
    [][\A c \in Runs : pc[c] = "reget" /\ Recorded(MoveOf(c)) # {} =>
            outcome'[c] # "error" \/ faults' # faults]_vars
=============================================================================
