---------------------------- MODULE CycleLoopProofs ----------------------------
(***************************************************************************)
(* Mutual exclusion of the coordinators, for any number of them and any    *)
(* sequence of launches, aborts, kills and other mishaps.                  *)
(***************************************************************************)
EXTENDS CycleLoop, TLAPS

(* The lock is held once, by a helper or by one a killed coordinator left     *)
(* behind, and a coordinator in a cycle has its helper holding it, unless     *)
(* some helper was killed.                                                    *)
LockHeld ==
  /\ pc \in [Coordinators -> Places]
  /\ helper \in [Coordinators -> HelperStates]
  /\ \A c, d \in Coordinators : Holds(c) /\ Holds(d) => c = d
  /\ orphan = "holding" => \A c \in Coordinators : ~Holds(c)
  /\ \A c \in Coordinators : InCycle(c) => helper[c] = "locked" \/ "helper" \in mishaps

LEMMA InitLockHeld == Init => LockHeld
BY DEF Init, LockHeld, Holds, InCycle, Places, HelperStates

(* Each action of each coordinator and helper keeps the lock held once. *)
LEMMA NextLockHeld == LockHeld /\ [Next]_vars => LockHeld'
<1> SUFFICES ASSUME LockHeld, [Next]_vars  PROVE LockHeld'
  OBVIOUS
<1> USE DEF LockHeld, Holds, InCycle, Places, HelperStates, Goto, world
<1>1. ASSUME NEW c \in Coordinators,
             Loop(c) \/ Helper(c) \/ Launch(c) \/ Abort(c) \/ SkillWritesSignal(c)
             \/ HelperTerminated(c) \/ HelperDies(c) \/ Crash(c)
      PROVE  LockHeld'
  <2>1. CASE RequestLease(c)
    BY <2>1 DEF RequestLease, End
  <2>2. CASE Admitted(c)
    BY <2>2 DEF Admitted
  <2>3. CASE AdmittedTooLate(c)
    BY <2>3 DEF AdmittedTooLate, End
  <2>4. CASE Denied(c)
    BY <2>4 DEF Denied, End
  <2>5. CASE AdmissionFails(c)
    BY <2>5 DEF AdmissionFails, End
  <2>6. CASE AdmissionAborted(c)
    BY <2>6 DEF AdmissionAborted, End
  <2>7. CASE LoopHead(c)
    BY <2>7 DEF LoopHead, Leave
  <2>8. CASE Prepared(c)
    BY <2>8 DEF Prepared
  <2>9. CASE PrepareFails(c)
    BY <2>9 DEF PrepareFails
  <2>10. CASE PrepareAborted(c)
    BY <2>10 DEF PrepareAborted, Leave
  <2>11. CASE DecidedToRun(c)
    BY <2>11 DEF DecidedToRun
  <2>12. CASE DecidedToWait(c)
    BY <2>12 DEF DecidedToWait, CleanUp, Happens
  <2>13. CASE RunReturns(c)
    BY <2>13 DEF RunReturns, AfterRun
  <2>14. CASE RunFails(c)
    BY <2>14 DEF RunFails, AfterRun
  <2>15. CASE SignalConsumed(c)
    BY <2>15 DEF SignalConsumed, Happens
  <2>16. CASE SignalUnreadable(c)
    BY <2>16 DEF SignalUnreadable, Happens
  <2>17. CASE Cleaned(c)
    BY <2>17 DEF Cleaned, CleanUp, Happens, PlanAfterRun, Leave
  <2>18. CASE Slept(c)
    BY <2>18 DEF Slept, Leave
  <2>19. CASE Released(c)
    BY <2>19 DEF Released, End
  <2>20. CASE HelperLocks(c)
    BY <2>20 DEF HelperLocks, LockIsFree
  <2>21. CASE HelperUnlocks(c)
    BY <2>21 DEF HelperUnlocks
  <2>22. CASE Launch(c)
    BY <2>22 DEF Launch
  <2>23. CASE Abort(c)
    BY <2>23 DEF Abort
  <2>24. CASE SkillWritesSignal(c)
    BY <2>24 DEF SkillWritesSignal
  <2>25. CASE HelperTerminated(c)
    BY <2>25 DEF HelperTerminated
  <2>26. CASE HelperDies(c)
    BY <2>26 DEF HelperDies, Happens
  <2>27. CASE Crash(c)
    BY <2>27 DEF Crash, Happens
  <2> QED
    BY <1>1, <2>1, <2>2, <2>3, <2>4, <2>5, <2>6, <2>7, <2>8, <2>9, <2>10, <2>11, <2>12, <2>13,
       <2>14, <2>15, <2>16, <2>17, <2>18, <2>19, <2>20, <2>21, <2>22, <2>23, <2>24, <2>25, <2>26, <2>27 DEF Loop, Helper
<1>2. CASE OrphanLocks
  BY <1>2 DEF OrphanLocks, LockIsFree
<1>3. CASE OrphanUnlocks
  BY <1>3 DEF OrphanUnlocks
<1>4. CASE Done
  BY <1>4 DEF Done, vars
<1>5. CASE UNCHANGED vars
  BY <1>5 DEF vars
<1> QED
  BY <1>1, <1>2, <1>3, <1>4, <1>5 DEF Next

(* Unless a lock helper was killed, no two coordinators are in a cycle over   *)
(* one data directory (FileCycleAdmission and the finally block of the loop). *)
THEOREM OneAdmittedCorrect == Spec => []OneAdmitted
<1>1. LockHeld => OneAdmitted
  BY DEF LockHeld, OneAdmitted, Holds
<1> QED
  BY <1>1, InitLockHeld, NextLockHeld, PTL DEF Spec
-------------------------------------------------------------------------------
(* The counters of a loop with a limit stay below it and account for every    *)
(* run, as long as the loop is not aborted; what the loop leaves with was     *)
(* true when it left, and a later abort does not change it.                   *)
Counts == [cycles : Nat, failures : Nat, results : Nat, runs : Nat]

Accounted(c) ==
  count[c].runs <= count[c].results + count[c].failures + (IF pc[c] = "running" THEN 1 ELSE 0)

CountedAt(c) ==
  /\ pc[c] \in {"requesting", "acquiring"} => count[c].runs = 0
  /\ limit[c] # 0 =>
       /\ count[c].cycles <= limit[c]
       /\ pc[c] = "preparing" => count[c].cycles < limit[c]
       /\ abort[c] = "none" => Accounted(c)
  /\ pc[c] \in {"releasing", "ended"} =>
       /\ outcome[c] = "max_cycles" =>
            count[c].cycles = limit[c] /\ count[c].runs <= count[c].results + count[c].failures
       /\ outcome[c] \in {"shutdown", "cancelled"} => abort[c] = outcome[c]

Counted ==
  /\ pc \in [Coordinators -> Places]
  /\ abort \in [Coordinators -> {"none", "shutdown", "cancelled"}]
  /\ limit \in [Coordinators -> Nat]
  /\ count \in [Coordinators -> Counts]
  /\ outcome \in [Coordinators -> StopReasons \cup {"none"}]
  /\ \A c \in Coordinators : CountedAt(c)

(* What counting a cycle, a failure, a result or a run leaves of a record. *)
LEMMA CycleCounted ==
  ASSUME NEW r \in Counts, NEW k \in Nat, NEW f \in Nat
  PROVE  LET counted == [r EXCEPT !.cycles = k, !.failures = f]
         IN  /\ counted \in Counts
             /\ counted.cycles = k /\ counted.results = r.results
             /\ counted.runs = r.runs /\ counted.failures = f
BY DEF Counts

LEMMA FailureCounted ==
  ASSUME NEW r \in Counts, NEW f \in Nat
  PROVE  LET counted == [r EXCEPT !.failures = f]
         IN  /\ counted \in Counts
             /\ counted.cycles = r.cycles /\ counted.results = r.results
             /\ counted.runs = r.runs /\ counted.failures = f
BY DEF Counts

LEMMA InitCounted == Init => Counted
BY DEF Init, Counted, CountedAt, Counts, Accounted, Places, StopReasons, NoCount

(* Each action of each coordinator keeps its counters and those of the others. *)
LEMMA NextCounted == Counted /\ [Next]_vars => Counted'
<1> SUFFICES ASSUME Counted, [Next]_vars  PROVE Counted'
  OBVIOUS
<1> USE LoopAssumption DEF Counted, CountedAt, Counts, Accounted, Places, StopReasons, Goto, counters
<1>1. ASSUME NEW c \in Coordinators,
             Loop(c) \/ Helper(c) \/ Launch(c) \/ Abort(c) \/ SkillWritesSignal(c)
             \/ HelperTerminated(c) \/ HelperDies(c) \/ Crash(c)
      PROVE  Counted'
  <2>1. CASE RequestLease(c)
    <3>1. Counted!1' /\ Counted!2' /\ Counted!3' /\ Counted!4' /\ Counted!5'
      BY <2>1 DEF RequestLease, End
    <3>2. CountedAt(c)'
      BY <2>1 DEF RequestLease, End
    <3>3. ASSUME NEW d \in Coordinators, d # c  PROVE CountedAt(d)'
      BY <2>1, <3>3 DEF RequestLease, End
    <3> QED
      BY <3>1, <3>2, <3>3
  <2>2. CASE Admitted(c)
    BY <2>2 DEF Admitted
  <2>3. CASE AdmittedTooLate(c)
    BY <2>3 DEF AdmittedTooLate, End, Forget
  <2>4. CASE Denied(c)
    BY <2>4 DEF Denied, End, Forget
  <2>5. CASE AdmissionFails(c)
    <3> DEFINE counted == [count[c] EXCEPT !.failures = 1]
    <3>1. count' = IF limit[c] = 0 THEN count ELSE [count EXCEPT ![c] = counted]
      BY <2>5 DEF AdmissionFails, Counting
    <3>2. /\ pc[c] = "acquiring" /\ pc' = [pc EXCEPT ![c] = "ended"]
          /\ outcome' = [outcome EXCEPT ![c] = "failed"]
          /\ UNCHANGED <<abort, limit>>
      BY <2>5 DEF AdmissionFails, End
    <3>3. /\ counted \in Counts
          /\ counted.cycles = count[c].cycles /\ counted.results = count[c].results
          /\ counted.runs = count[c].runs /\ counted.failures = 1
      BY FailureCounted
    <3> HIDE DEF counted
    <3>4. CountedAt(c)'
      BY <3>1, <3>2, <3>3
    <3>5. \A d \in Coordinators \ {c} : CountedAt(d)'
      BY <3>1, <3>2
    <3> QED
      BY <3>1, <3>2, <3>3, <3>4, <3>5
  <2>6. CASE AdmissionAborted(c)
    BY <2>6 DEF AdmissionAborted, End, Forget, StopReason
  <2>7. CASE LoopHead(c)
    <3>1. CASE abort[c] # "none"
      <4>1. /\ pc' = [pc EXCEPT ![c] = "releasing"] /\ outcome' = [outcome EXCEPT ![c] = abort[c]]
            /\ UNCHANGED <<abort, limit, count>>
        BY <2>7, <3>1 DEF LoopHead, Leave, StopReason
      <4> QED
        BY <3>1, <4>1
    <3>2. CASE abort[c] = "none" /\ limit[c] # 0 /\ count[c].cycles >= limit[c]
      <4>1. /\ pc[c] = "checking"
            /\ pc' = [pc EXCEPT ![c] = "releasing"] /\ outcome' = [outcome EXCEPT ![c] = "max_cycles"]
            /\ UNCHANGED <<abort, limit, count>>
        BY <2>7, <3>2 DEF LoopHead, Leave
      <4>2. count[c].cycles \in Nat /\ limit[c] \in Nat /\ count[c].cycles <= limit[c] /\ Accounted(c)
        BY <3>2
      <4>3. ASSUME NEW m \in Nat, NEW n \in Nat, m <= n, m >= n  PROVE m = n
        BY <4>3
      <4>4. count[c].cycles = limit[c]
        BY <3>2, <4>2, <4>3, Zenon
      <4> QED
        BY <3>2, <4>1, <4>2, <4>4
    <3>3. CASE abort[c] = "none" /\ ~(limit[c] # 0 /\ count[c].cycles >= limit[c])
      <4>1. /\ pc' = [pc EXCEPT ![c] = "preparing"] /\ UNCHANGED <<abort, limit, count, outcome>>
            /\ pc[c] = "checking"
        BY <2>7, <3>3 DEF LoopHead
      <4> QED
        BY <3>3, <4>1
    <3> QED
      BY <3>1, <3>2, <3>3
  <2>8. CASE Prepared(c)
    <3>1. PICK f \in {count[c].failures, count[c].failures + 1} :
            count' = IF limit[c] = 0 THEN count
                     ELSE [count EXCEPT ![c] = [count[c] EXCEPT !.cycles = count[c].cycles + 1, !.failures = f]]
      BY <2>8 DEF Prepared, Counting
    <3>2. /\ pc[c] = "preparing" /\ pc' = [pc EXCEPT ![c] = "deciding"]
          /\ UNCHANGED <<abort, limit, outcome>>
      BY <2>8 DEF Prepared
    <3> DEFINE counted == [count[c] EXCEPT !.cycles = count[c].cycles + 1, !.failures = f]
    <3>3. count[c] \in Counts /\ count[c].cycles + 1 \in Nat /\ f \in Nat /\ f >= count[c].failures
      OBVIOUS
    <3>4. /\ counted \in Counts
          /\ counted.cycles = count[c].cycles + 1 /\ counted.results = count[c].results
          /\ counted.runs = count[c].runs /\ counted.failures = f
      BY <3>3, CycleCounted, Zenon
    <3>5. count' = IF limit[c] = 0 THEN count ELSE [count EXCEPT ![c] = counted]
      BY <3>1
    <3> HIDE DEF counted
    <3>6. CountedAt(c)' /\ \A d \in Coordinators \ {c} : CountedAt(d)'
      BY <3>2, <3>3, <3>4, <3>5
    <3> QED
      BY <3>2, <3>4, <3>5, <3>6
  <2>9. CASE PrepareFails(c)
    <3>1. PICK f \in {count[c].failures, count[c].failures + 1} :
            count' = IF limit[c] = 0 THEN count
                     ELSE [count EXCEPT ![c] = [count[c] EXCEPT !.cycles = count[c].cycles + 1, !.failures = f]]
      BY <2>9 DEF PrepareFails, Counting
    <3>2. /\ pc[c] = "preparing" /\ pc' = [pc EXCEPT ![c] = "deciding"]
          /\ UNCHANGED <<abort, limit, outcome>>
      BY <2>9 DEF PrepareFails
    <3> DEFINE counted == [count[c] EXCEPT !.cycles = count[c].cycles + 1, !.failures = f]
    <3>3. count[c] \in Counts /\ count[c].cycles + 1 \in Nat /\ f \in Nat /\ f >= count[c].failures
      OBVIOUS
    <3>4. /\ counted \in Counts
          /\ counted.cycles = count[c].cycles + 1 /\ counted.results = count[c].results
          /\ counted.runs = count[c].runs /\ counted.failures = f
      BY <3>3, CycleCounted, Zenon
    <3>5. count' = IF limit[c] = 0 THEN count ELSE [count EXCEPT ![c] = counted]
      BY <3>1
    <3> HIDE DEF counted
    <3>6. CountedAt(c)' /\ \A d \in Coordinators \ {c} : CountedAt(d)'
      BY <3>2, <3>3, <3>4, <3>5
    <3> QED
      BY <3>2, <3>4, <3>5, <3>6
  <2>10. CASE PrepareAborted(c)
    BY <2>10 DEF PrepareAborted, Leave, StopReason
  <2>11. CASE DecidedToRun(c)
    BY <2>11 DEF DecidedToRun, Counting
  <2>12. CASE DecidedToWait(c)
    BY <2>12 DEF DecidedToWait
  <2>13. CASE RunReturns(c)
    BY <2>13 DEF RunReturns, AfterRun, Counting
  <2>14. CASE RunFails(c)
    <3>1. /\ count' = IF limit[c] = 0 \/ abort[c] # "none" THEN count
                     ELSE [count EXCEPT ![c] = [count[c] EXCEPT !.failures = count[c].failures + 1]]
          /\ pc[c] = "running" /\ pc' = [pc EXCEPT ![c] = IF abort[c] = "none" THEN "reading" ELSE "cleaning"]
          /\ UNCHANGED <<abort, limit, outcome>>
      BY <2>14 DEF RunFails, AfterRun, Counting
    <3> DEFINE counted == [count[c] EXCEPT !.failures = count[c].failures + 1]
    <3>2. /\ counted \in Counts
          /\ counted.cycles = count[c].cycles /\ counted.results = count[c].results
          /\ counted.runs = count[c].runs /\ counted.failures = count[c].failures + 1
      BY FailureCounted DEF Counts
    <3>3. count' = IF limit[c] = 0 \/ abort[c] # "none" THEN count ELSE [count EXCEPT ![c] = counted]
      BY <3>1
    <3> HIDE DEF counted
    <3> QED
      BY <3>1, <3>2, <3>3 DEF Counts
  <2>15. CASE SignalConsumed(c)
    BY <2>15 DEF SignalConsumed
  <2>16. CASE SignalUnreadable(c)
    BY <2>16 DEF SignalUnreadable, Counting
  <2>17. CASE Cleaned(c)
    <3>1. \/ pc' = [pc EXCEPT ![c] = "sleeping"] /\ UNCHANGED outcome
          \/ /\ pc' = [pc EXCEPT ![c] = "releasing"]
             /\ \/ outcome' = [outcome EXCEPT ![c] = "thrown"]
                \/ abort[c] # "none" /\ outcome' = [outcome EXCEPT ![c] = abort[c]]
      BY <2>17 DEF Cleaned, PlanAfterRun, Leave, StopReason
    <3>2. pc[c] = "cleaning" /\ UNCHANGED <<abort, limit, count>>
      BY <2>17 DEF Cleaned
    <3>3. CountedAt(c)'
      BY <3>1, <3>2
    <3>4. \A d \in Coordinators \ {c} : CountedAt(d)'
      BY <3>1, <3>2
    <3> QED
      BY <3>1, <3>2, <3>3, <3>4
  <2>18. CASE Slept(c)
    <3>1. CASE abort[c] # "none"
      BY <2>18, <3>1 DEF Slept, Leave, StopReason
    <3>2. CASE abort[c] = "none"
      BY <2>18, <3>2 DEF Slept, Leave, StopReason
    <3> QED
      BY <3>1, <3>2
  <2>19. CASE Released(c)
    BY <2>19 DEF Released, End, Forget
  <2>20. CASE HelperLocks(c)
    BY <2>20 DEF HelperLocks
  <2>21. CASE HelperUnlocks(c)
    BY <2>21 DEF HelperUnlocks
  <2>22. CASE Launch(c)
    BY <2>22 DEF Launch, NoCount
  <2>23. CASE Abort(c)
    BY <2>23 DEF Abort
  <2>24. CASE SkillWritesSignal(c)
    BY <2>24 DEF SkillWritesSignal
  <2>25. CASE HelperTerminated(c)
    BY <2>25 DEF HelperTerminated
  <2>26. CASE HelperDies(c)
    BY <2>26 DEF HelperDies
  <2>27. CASE Crash(c)
    BY <2>27 DEF Crash, NoCount, Forget
  <2> QED
    BY <1>1, <2>1, <2>2, <2>3, <2>4, <2>5, <2>6, <2>7, <2>8, <2>9, <2>10, <2>11, <2>12, <2>13, <2>14,
       <2>15, <2>16, <2>17, <2>18, <2>19, <2>20, <2>21, <2>22, <2>23, <2>24, <2>25, <2>26, <2>27 DEF Loop, Helper
<1>2. CASE UNCHANGED <<pc, abort, counters, outcome>>
  BY <1>2
<1> QED
  BY <1>1, <1>2 DEF Next, OrphanLocks, OrphanUnlocks, Done, vars

(* A loop's result says what happened: max_cycles after exactly that many     *)
(* cycles with every run accounted for, an abort only after that abort        *)
(* (runCoordinatorLoop and the exit code of a one-shot).                      *)
THEOREM ResultIsHonestCorrect == Spec => []ResultIsHonest
<1>1. Counted => ResultIsHonest
  BY DEF Counted, CountedAt, ResultIsHonest
<1> QED
  BY <1>1, InitCounted, NextCounted, PTL DEF Spec
-------------------------------------------------------------------------------
(* While nothing but unlink() has gone wrong, the file belongs to the one     *)
(* coordinator in a cycle, and only from its run to its cleanup; what it read *)
(* is what its run left there.                                                *)
SignalOf(c) ==
  /\ pc[c] \in {"running", "reading"} => file = requested[c]
  /\ pc[c] = "cleaning" /\ abort[c] = "none" => signal[c] = Parsed(requested[c])
  /\ pc[c] = "deciding" /\ decision[c] # "run" => plan[c].reason # "cycle_complete"
  /\ pc[c] = "sleeping" /\ plan[c].reason = "cycle_complete" => plan[c].delay = Wanted(c)

Scheduled ==
  /\ requested \in [Coordinators -> Signals] /\ signal \in [Coordinators -> Signals]
  /\ plan = [c \in Coordinators |-> plan[c]]
  /\ decision \in [Coordinators -> {"none", "run", "idle", "error"}]
  /\ interval \in [Coordinators -> Intervals]

Owned ==
  /\ Scheduled
  /\ file \in Signals
  /\ mishaps \subseteq {"unlink"} =>
       /\ (\A c \in Coordinators : pc[c] \notin {"running", "reading", "cleaning"}) => file = NoFile
       /\ \A c \in Coordinators : SignalOf(c)

LEMMA InitOwned == Init => Owned
BY LoopAssumption DEF Init, Owned, Scheduled, SignalOf, Signals, NoPlan

LEMMA Forgotten ==
  ASSUME Scheduled, NEW c \in Coordinators, Forget(c)
  PROVE  /\ Scheduled'
         /\ \A d \in Coordinators \ {c} :
              /\ requested'[d] = requested[d] /\ signal'[d] = signal[d] /\ plan'[d] = plan[d]
              /\ decision'[d] = decision[d] /\ interval'[d] = interval[d]
<1>1. NoFile \in Signals /\ (CHOOSE i \in Intervals : TRUE) \in Intervals
  BY LoopAssumption DEF Signals
<1> QED
  BY <1>1 DEF Scheduled, Forget

(* A coordinator that is not at the file ends. *)
LEMMA EndKeeps ==
  ASSUME Owned, pc \in [Coordinators -> Places], NEW c \in Coordinators, NEW reason,
         End(c, reason), pc[c] \notin {"running", "reading", "cleaning"},
         UNCHANGED <<abort, file, mishaps>>
  PROVE  Owned'
<1>1. Scheduled'
  BY Forgotten DEF Owned, End
<1>2. ASSUME NEW d \in Coordinators, SignalOf(d)  PROVE SignalOf(d)'
  <2>1. CASE d = c
    BY <2>1 DEF SignalOf, End, Goto
  <2>2. CASE d # c
    BY <1>2, <2>2, Forgotten DEF SignalOf, Wanted, Owned, End, Goto
  <2> QED
    BY <2>1, <2>2
<1> QED
  BY <1>1, <1>2 DEF Owned, End, Goto

(* The coordinator that moves is the only one in a cycle, if it is in one.    *)
LEMMA NextOwned == LockHeld /\ Owned /\ [Next]_vars => Owned'
<1> SUFFICES ASSUME LockHeld, Owned, [Next]_vars  PROVE Owned'
  OBVIOUS
<1>0. ASSUME mishaps \subseteq {"unlink"}, NEW c \in Coordinators, NEW d \in Coordinators,
             InCycle(c), InCycle(d)
      PROVE  c = d
  BY <1>0 DEF LockHeld, Holds
<1>1. pc \in [Coordinators -> Places]
  BY DEF LockHeld
<1> USE LoopAssumption DEF Owned, Scheduled, SignalOf, Wanted, InCycle, Goto, schedule, world
<1>2. ASSUME NEW c \in Coordinators, NEW i, NEW action \in {"start", "skip", "error"},
             PlanForPreflight(c, i, action)
      PROVE  decision'[c] # "run" => plan'[c].reason # "cycle_complete"
  <2>1. CASE action = "start"
    BY <1>2, <2>1 DEF PlanForPreflight
  <2>2. CASE action = "skip"
    <3>1. plan' = [plan EXCEPT ![c] = [reason |-> "preflight_skip", delay |-> IdleInterval]]
      BY <1>2, <2>2 DEF PlanForPreflight
    <3> QED
      BY <3>1
  <2>3. CASE action = "error"
    <3>1. plan' = [plan EXCEPT ![c] = [reason |-> "preflight_error", delay |-> Backoff(i, Least(streak[c] + 1, MaxStreak))]]
      BY <1>2, <2>3 DEF PlanForPreflight
    <3> QED
      BY <3>1
  <2> QED
    BY <2>1, <2>2, <2>3
<1>3. ASSUME NEW c \in Coordinators,
             Loop(c) \/ Helper(c) \/ Launch(c) \/ Abort(c) \/ SkillWritesSignal(c)
             \/ HelperTerminated(c) \/ HelperDies(c) \/ Crash(c)
      PROVE  Owned'
  <2>1. CASE RequestLease(c)
    <3>1. CASE abort[c] # "none"
      BY <1>1, <2>1, <3>1, EndKeeps DEF RequestLease
    <3>2. CASE abort[c] = "none"
      BY <1>1, <2>1, <3>2 DEF RequestLease
    <3> QED
      BY <3>1, <3>2
  <2>2. CASE Admitted(c)
    BY <1>0, <1>1, <2>2 DEF Admitted
  <2>3. CASE AdmittedTooLate(c)
    BY <1>1, <2>3, EndKeeps DEF AdmittedTooLate
  <2>4. CASE Denied(c)
    BY <1>1, <2>4, EndKeeps DEF Denied
  <2>5. CASE AdmissionFails(c)
    BY <1>1, <2>5, EndKeeps DEF AdmissionFails
  <2>6. CASE AdmissionAborted(c)
    BY <1>1, <2>6, EndKeeps DEF AdmissionAborted
  <2>7. CASE LoopHead(c)
    BY <1>0, <1>1, <2>7 DEF LoopHead, Leave
  <2>8. CASE Prepared(c)
    <3>1. Scheduled' /\ file' \in Signals
      BY <1>1, <2>8 DEF Prepared, PlanForPreflight
    <3>2. ASSUME mishaps' \subseteq {"unlink"}
          PROVE  /\ SignalOf(c)'
                 /\ (\A e \in Coordinators : pc'[e] \notin {"running", "reading", "cleaning"}) => file' = NoFile
      <4>1. /\ pc[c] = "preparing" /\ pc' = [pc EXCEPT ![c] = "deciding"]
            /\ UNCHANGED <<file, mishaps>>
        BY <2>8 DEF Prepared
      <4>2. decision'[c] # "run" => plan'[c].reason # "cycle_complete"
        BY <1>2, <2>8 DEF Prepared
      <4> QED
        BY <1>1, <3>2, <4>1, <4>2
    <3>3. ASSUME mishaps' \subseteq {"unlink"}, NEW d \in Coordinators \ {c}  PROVE SignalOf(d)'
      BY <1>0, <1>1, <2>8, <3>3 DEF Prepared, PlanForPreflight
    <3> QED
      BY <3>1, <3>2, <3>3
  <2>9. CASE PrepareFails(c)
    <3>1. Scheduled' /\ file' \in Signals
      BY <1>1, <2>9 DEF PrepareFails, PlanForPreflight
    <3>2. ASSUME mishaps' \subseteq {"unlink"}
          PROVE  /\ SignalOf(c)'
                 /\ (\A e \in Coordinators : pc'[e] \notin {"running", "reading", "cleaning"}) => file' = NoFile
      <4>1. /\ pc[c] = "preparing" /\ pc' = [pc EXCEPT ![c] = "deciding"]
            /\ UNCHANGED <<file, mishaps>>
        BY <2>9 DEF PrepareFails
      <4>2. decision'[c] # "run" => plan'[c].reason # "cycle_complete"
        BY <1>2, <2>9 DEF PrepareFails
      <4> QED
        BY <1>1, <3>2, <4>1, <4>2
    <3>3. ASSUME mishaps' \subseteq {"unlink"}, NEW d \in Coordinators \ {c}  PROVE SignalOf(d)'
      BY <1>0, <1>1, <2>9, <3>3 DEF PrepareFails, PlanForPreflight
    <3> QED
      BY <3>1, <3>2, <3>3
  <2>10. CASE PrepareAborted(c)
    BY <1>0, <1>1, <2>10 DEF PrepareAborted, Leave
  <2>11. CASE DecidedToRun(c)
    <3>1. Scheduled' /\ file' \in Signals
      BY <1>1, <2>11 DEF DecidedToRun, Signals, NoFile
    <3>2. ASSUME mishaps' \subseteq {"unlink"}
          PROVE  /\ SignalOf(c)'
                 /\ (\A e \in Coordinators : pc'[e] \notin {"running", "reading", "cleaning"}) => file' = NoFile
      BY <1>0, <1>1, <2>11, <3>2 DEF DecidedToRun, Signals, NoFile
    <3>3. ASSUME mishaps' \subseteq {"unlink"}, NEW d \in Coordinators \ {c}  PROVE SignalOf(d)'
      BY <1>0, <1>1, <2>11, <3>3 DEF DecidedToRun, Signals, NoFile
    <3> QED
      BY <3>1, <3>2, <3>3
  <2>12. CASE DecidedToWait(c)
    <3>1. Scheduled' /\ file' \in Signals
      BY <1>1, <2>12 DEF DecidedToWait, CleanUp, Happens, Signals
    <3>2. ASSUME mishaps' \subseteq {"unlink"}
          PROVE  /\ SignalOf(c)'
                 /\ (\A e \in Coordinators : pc'[e] \notin {"running", "reading", "cleaning"}) => file' = NoFile
      BY <1>0, <1>1, <2>12, <3>2 DEF DecidedToWait, CleanUp, Happens, Signals
    <3>3. ASSUME mishaps' \subseteq {"unlink"}, NEW d \in Coordinators \ {c}  PROVE SignalOf(d)'
      BY <1>0, <1>1, <2>12, <3>3 DEF DecidedToWait, CleanUp, Happens, Signals
    <3> QED
      BY <3>1, <3>2, <3>3
  <2>13. CASE RunReturns(c)
    BY <1>0, <1>1, <2>13 DEF RunReturns, AfterRun
  <2>14. CASE RunFails(c)
    BY <1>0, <1>1, <2>14 DEF RunFails, AfterRun
  <2>15. CASE SignalConsumed(c)
    <3>1. Scheduled' /\ file' \in Signals
      BY <1>1, <2>15 DEF SignalConsumed, Happens, Parsed, Signals
    <3>2. ASSUME mishaps' \subseteq {"unlink"}
          PROVE  /\ SignalOf(c)'
                 /\ (\A e \in Coordinators : pc'[e] \notin {"running", "reading", "cleaning"}) => file' = NoFile
      BY <1>0, <1>1, <2>15, <3>2 DEF SignalConsumed, Happens, Parsed, Signals
    <3>3. ASSUME mishaps' \subseteq {"unlink"}, NEW d \in Coordinators \ {c}  PROVE SignalOf(d)'
      BY <1>0, <1>1, <2>15, <3>3 DEF SignalConsumed, Happens, Parsed, Signals
    <3> QED
      BY <3>1, <3>2, <3>3
  <2>16. CASE SignalUnreadable(c)
    BY <1>0, <1>1, <2>16 DEF SignalUnreadable, Happens
  <2>17. CASE Cleaned(c)
    <3>1. Scheduled' /\ file' \in Signals
      BY <1>1, <2>17 DEF Cleaned, CleanUp, Happens, PlanAfterRun, Leave, Signals
    <3>2. ASSUME mishaps' \subseteq {"unlink"}
          PROVE  /\ SignalOf(c)'
                 /\ (\A e \in Coordinators : pc'[e] \notin {"running", "reading", "cleaning"}) => file' = NoFile
      <4>1. /\ pc[c] = "cleaning" /\ file' = NoFile /\ mishaps \subseteq {"unlink"}
            /\ UNCHANGED <<requested, signal, decision, interval>>
        BY <2>17, <3>2 DEF Cleaned, CleanUp, Happens
      <4>2. CASE pc' = [pc EXCEPT ![c] = "releasing"]
        BY <1>1, <4>1, <4>2
      <4>3. CASE pc' # [pc EXCEPT ![c] = "releasing"]
        <5>1. /\ abort[c] = "none" /\ signal[c].kind # "overflow"
              /\ pc' = [pc EXCEPT ![c] = "sleeping"]
              /\ plan' = [plan EXCEPT ![c] =
                    [reason |-> "cycle_complete",
                     delay  |-> IF signal[c] = NoFile THEN interval[c] ELSE signal[c].delay]]
          BY <2>17, <4>3 DEF Cleaned, PlanAfterRun, Leave
        <5>2. plan'[c].delay = IF signal[c] = NoFile THEN interval[c] ELSE signal[c].delay
          BY <5>1
        <5>3. signal[c] = Parsed(requested[c]) /\ requested[c] \in Signals
          BY <4>1, <5>1
        <5>4. plan'[c].delay = IF requested[c].kind = "valid" THEN requested[c].delay ELSE interval[c]
          BY <5>1, <5>2, <5>3 DEF Parsed, Signals, NoFile
        <5> QED
          BY <1>1, <4>1, <5>1, <5>4
      <4> QED
        BY <4>2, <4>3
    <3>3. ASSUME mishaps' \subseteq {"unlink"}, NEW d \in Coordinators \ {c}  PROVE SignalOf(d)'
      BY <1>0, <1>1, <2>17, <3>3 DEF Cleaned, CleanUp, Happens, PlanAfterRun, Leave, Signals
    <3> QED
      BY <3>1, <3>2, <3>3
  <2>18. CASE Slept(c)
    BY <1>0, <1>1, <2>18 DEF Slept, Leave
  <2>19. CASE Released(c)
    BY <1>1, <2>19, EndKeeps DEF Released
  <2>20. CASE HelperLocks(c)
    BY <1>0, <1>1, <2>20 DEF HelperLocks
  <2>21. CASE HelperUnlocks(c)
    BY <1>0, <1>1, <2>21 DEF HelperUnlocks
  <2>22. CASE Launch(c)
    BY <1>0, <1>1, <2>22 DEF Launch
  <2>23. CASE Abort(c)
    BY <1>0, <1>1, <2>23 DEF Abort
  <2>24. CASE SkillWritesSignal(c)
    BY <1>0, <1>1, <2>24 DEF SkillWritesSignal
  <2>25. CASE HelperTerminated(c)
    BY <1>0, <1>1, <2>25 DEF HelperTerminated
  <2>26. CASE HelperDies(c)
    BY <1>0, <1>1, <2>26 DEF HelperDies, Happens
  <2>27. CASE Crash(c)
    <3>1. Scheduled' /\ file' \in Signals
      BY <2>27, Forgotten DEF Crash
    <3> QED
      BY <2>27, <3>1 DEF Crash, Happens
  <2> QED
    BY <1>3, <2>1, <2>2, <2>3, <2>4, <2>5, <2>6, <2>7, <2>8, <2>9, <2>10, <2>11, <2>12, <2>13, <2>14,
       <2>15, <2>16, <2>17, <2>18, <2>19, <2>20, <2>21, <2>22, <2>23, <2>24, <2>25, <2>26, <2>27 DEF Loop, Helper
<1>4. CASE UNCHANGED <<pc, abort, schedule, file, mishaps>>
  BY <1>4
<1> QED
  BY <1>3, <1>4 DEF Next, OrphanLocks, OrphanUnlocks, Done, vars

(* After a run the loop sleeps for as long as that run asked, or the interval *)
(* (consumeSleepSignal, read before the cleanup and by its own cycle).        *)
THEOREM SleepsAsRequestedCorrect == Spec => []SleepsAsRequested
<1>1. Owned => SleepsAsRequested
  BY DEF Owned, SignalOf, SleepsAsRequested
<1> QED
  BY <1>1, InitLockHeld, NextLockHeld, InitOwned, NextOwned, PTL DEF Spec
===============================================================================
