--------------------------- MODULE WatchTicksProofs ---------------------------
(***************************************************************************)
(* What holds of the watch daemon for every number of overlapping ticks:   *)
(* its type, how far the launched lines can pass the daily cap, and how    *)
(* far the run directories of a head can pass the attempts it is allowed.  *)
(***************************************************************************)
EXTENDS WatchTicks, FiniteSetTheorems, TLAPS

-----------------------------------------------------------------------------
(* Types.                                                                  *)

\* The first of a set of PRs is one of them.
LEMMA FirstOfPrs ==
  ASSUME NEW S \in SUBSET Nat, S # {}
  PROVE  Min(S) \in S
<1> DEFINE R == StrictSubsetOrdering(Nat)
           U == {0 .. n : n \in S}
<1>1. U \subseteq FiniteSubsetsOf(Nat) /\ U # {}
  <2>1. \A n \in Nat : IsFiniteSet(0 .. n) /\ 0 .. n \in SUBSET Nat
    BY FS_Interval
  <2>2. \A n \in S : 0 .. n \in FiniteSubsetsOf(Nat)
    BY <2>1 DEF FiniteSubsetsOf
  <2>3. U # {}
    OBVIOUS
  <2> QED
    BY <2>2, <2>3
<1>2. IsWellFoundedOn(R, FiniteSubsetsOf(Nat))
  BY FS_StrictSubsetOrderingWellFounded
<1>3. \E X \in U : \A Y \in U : ~ (<<Y, X>> \in R)
  <2> HIDE DEF R, U
  <2> QED
    BY <1>1, <1>2, WFMin
<1>4. PICK x \in S : \A y \in S : ~ (<<0 .. y, 0 .. x>> \in R)
  BY <1>3
<1>5. ASSUME NEW y \in S
      PROVE  x =< y
  <2> SUFFICES ASSUME y < x PROVE FALSE
    OBVIOUS
  <2>1. 0 .. y \subseteq 0 .. x /\ x \in 0 .. x /\ x \notin 0 .. y
    OBVIOUS
  <2>2. 0 .. y \in SUBSET Nat /\ 0 .. x \in SUBSET Nat /\ 0 .. y # 0 .. x
    BY <2>1
  <2>3. <<0 .. y, 0 .. x>> \in StrictSubsetOrdering(Nat)
    BY <2>1, <2>2 DEF StrictSubsetOrdering
  <2> QED
    BY <1>4, <2>3
<1> QED
  BY <1>5 DEF Min

LEMMA LaunchType ==
  ASSUME NEW eligible \in SUBSET Prs, NEW unread
  PROVE  Launch(eligible, unread) \in eligible \cup {NoPr}
<1> DEFINE passed == Considered(eligible) \ (Generated \ unread)
<1>1. passed \subseteq eligible
  BY DEF Considered
<1>2. passed # {} => Min(passed) \in passed
  BY <1>1, FirstOfPrs, WatchAssumption
<1> QED
  BY <1>1, <1>2 DEF Launch

LEMMA TypeInit == Init => TypeOK
<1> SUFFICES ASSUME Init PROVE TypeOK
  OBVIOUS
<1>1. Idle \in TickType
  BY DEF Idle, TickType, TickPcs
<1>2. NoReview \in ReviewType
  BY WatchAssumption DEF NoReview, ReviewType, ReviewPcs
<1>3. NoFile \in FileType
  BY DEF NoFile, FileType
<1>4. 0 \in 0 .. MaxFaults
  BY WatchAssumption
<1> QED
  BY <1>1, <1>2, <1>3, <1>4 DEF Init, TypeOK, StatusType

LEMMA FaultType ==
  ASSUME TypeOK, Fault \/ UNCHANGED faults
  PROVE  faults' \in 0 .. MaxFaults
BY WatchAssumption DEF TypeOK, Fault

\* A tick that only moves on, or ends, is a tick.
LEMMA TickToType ==
  ASSUME TypeOK, NEW t \in Ticks, NEW pc \in TickPcs, TickTo(t, pc)
  PROVE  tick' \in [Ticks -> TickType]
<1>1. tick[t] \in TickType
  BY DEF TypeOK, TickType
<1>2. [tick[t] EXCEPT !.pc = pc] \in TickType
  BY <1>1 DEF TickType
<1>3. tick' = [tick EXCEPT ![t] = [tick[t] EXCEPT !.pc = pc]]
  BY DEF TickTo
<1> QED
  BY <1>2, <1>3 DEF TypeOK, TickType

LEMMA ReviewToType ==
  ASSUME TypeOK, NEW t \in Ticks, NEW pc \in ReviewPcs, ReviewTo(t, pc)
  PROVE  review' \in [Ticks -> ReviewType]
BY DEF TypeOK, ReviewTo, ReviewType

LEMMA EndType ==
  ASSUME TypeOK, NEW t \in Ticks, End(t)
  PROVE  /\ tick' \in [Ticks -> TickType] /\ lock' \in Ticks \cup {"none", "dead"}
         /\ UNCHANGED <<log, wtLock, dirs, done, marker, status>>
<1>1. Idle \in TickType
  BY DEF Idle, TickType, TickPcs
<1> QED
  BY <1>1 DEF TypeOK, End, TickType, github

LEMMA ExitType ==
  ASSUME TypeOK, NEW t \in Ticks, Exit(t)
  PROVE  review' \in [Ticks -> ReviewType]
<1>1. NoReview \in ReviewType
  BY WatchAssumption DEF NoReview, ReviewType, ReviewPcs
<1> QED
  BY <1>1 DEF TypeOK, Exit, ReviewType

LEMMA StatusToType ==
  ASSUME TypeOK, NEW t \in Ticks, NEW state \in StatusType, SetStatus(t, state)
  PROVE  status' \in [Prs -> StatusType]
BY DEF TypeOK, SetStatus, StatusType

LEMMA SetLockType ==
  ASSUME TypeOK, NEW t \in Ticks, NEW file \in FileType, SetLock(t, file)
  PROVE  wtLock' \in [Prs -> FileType]
BY DEF TypeOK, SetLock, FileType

LEMMA ScannedType ==
  ASSUME NEW r \in TickType, NEW pc \in TickPcs, NEW d \in SUBSET Prs, NEW s \in SUBSET Prs
  PROVE  [r EXCEPT !.pc = pc, !.done = d, !.spent = s] \in TickType
BY DEF TickType

LEMMA DecidedType ==
  ASSUME NEW r \in TickType, NEW d \in SUBSET Prs, NEW p \in Prs \cup {NoPr}
  PROVE  [r EXCEPT !.pc = "decided", !.settle = d, !.pick = p] \in TickType
BY DEF TickType, TickPcs

LEMMA SettledType ==
  ASSUME NEW r \in TickType
  PROVE  [r EXCEPT !.pc = "settled", !.settle = {}] \in TickType
BY DEF TickType, TickPcs

LEMMA TypeTick ==
  ASSUME TypeOK, NEW t \in Ticks, TickStep(t) \/ TickThrows(t) \/ KillTick(t)
  PROVE  TypeOK'
<1> USE DEF github, disk, TypeOK
<1>0. Idle \in TickType
  BY DEF Idle, TickType, TickPcs
<1>1. CASE Count(t)
  <2>1. tick' \in [Ticks -> TickType]
    BY <1>1, TickToType DEF Count, TickPcs
  <2> QED
    BY <1>1, <2>1 DEF Count
<1>2. CASE CheckLock(t)
  <2>1. tick' \in [Ticks -> TickType]
    BY <1>0, <1>2, TickToType DEF CheckLock, TickPcs
  <2> QED
    BY <1>2, <2>1 DEF CheckLock
<1>3. CASE WriteLock(t)
  <2>1. tick' \in [Ticks -> TickType]
    BY <1>3, TickToType DEF WriteLock, TickPcs
  <2> QED
    BY <1>3, <2>1 DEF WriteLock
<1>4. CASE Scan(t)
  <2>1. PICK s \in SUBSET Prs :
          tick' = [tick EXCEPT ![t].pc = "scanned", ![t].done = done, ![t].spent = s]
    BY <1>4 DEF Scan
  <2>2. tick[t] \in TickType /\ "scanned" \in TickPcs
    BY DEF TickPcs
  <2>3. [tick[t] EXCEPT !.pc = "scanned", !.done = done, !.spent = s] \in TickType
    BY <2>2, ScannedType
  <2>4. tick' = [tick EXCEPT ![t] = [tick[t] EXCEPT !.pc = "scanned", !.done = done,
                                                   !.spent = s]]
    BY <2>1
  <2>5. tick' \in [Ticks -> TickType]
    BY <2>3, <2>4
  <2>6. UNCHANGED <<review, disk, github, faults>>
    BY <1>4 DEF Scan
  <2> QED
    BY <2>5, <2>6
<1>5. CASE Decide(t)
  <2> DEFINE eligible == {pr \in Prs : SkipReason(t, pr) = "eligible"}
  <2>1. PICK unread :
          tick' = [tick EXCEPT ![t].pc = "decided", ![t].settle = ToSettle(t),
                               ![t].pick = Launch(eligible, unread)]
    BY <1>5 DEF Decide
  <2>2. Launch(eligible, unread) \in Prs \cup {NoPr}
    BY LaunchType
  <2>3. ToSettle(t) \in SUBSET Prs
    BY DEF ToSettle, Pending
  <2> DEFINE r == [tick[t] EXCEPT !.pc = "decided", !.settle = ToSettle(t),
                                  !.pick = Launch(eligible, unread)]
  <2>4. r \in TickType
    <3>1. tick[t] \in TickType
      OBVIOUS
    <3> QED
      BY <2>2, <2>3, <3>1, DecidedType
  <2>5. tick' = [tick EXCEPT ![t] = r]
    BY <2>1
  <2>6. /\ UNCHANGED <<review, disk, github>>
        /\ Fault \/ UNCHANGED faults
    BY <1>5 DEF Decide
  <2> QED
    BY <2>4, <2>5, <2>6, FaultType
<1>6. CASE SettleOrphans(t)
  <2> DEFINE r == [tick[t] EXCEPT !.pc = "settled", !.settle = {}]
  <2>1. r \in TickType
    <3>1. tick[t] \in TickType
      OBVIOUS
    <3> QED
      BY <3>1, SettledType
  <2>2. tick' = [tick EXCEPT ![t] = r]
    BY <1>6 DEF SettleOrphans
  <2>3. \E prs : status' = [pr \in Prs |-> IF pr \in prs THEN "settled" ELSE status[pr]]
    BY <1>6 DEF SettleOrphans, Write
  <2>4. status' \in [Prs -> StatusType]
    BY <2>3 DEF StatusType
  <2>5. /\ UNCHANGED <<review, disk, marker>>
        /\ Fault \/ UNCHANGED faults
    BY <1>6 DEF SettleOrphans, Write
  <2> QED
    BY <2>1, <2>2, <2>4, <2>5, FaultType
<1>7. CASE NothingToLaunch(t) \/ Reap(t)
  BY <1>7, EndType DEF NothingToLaunch, Reap
<1>8. CASE Book(t)
  <2>1. tick' \in [Ticks -> TickType]
    BY <1>8, TickToType DEF Book, TickPcs
  <2> QED
    BY <1>8, <2>1 DEF Book
<1>9. CASE Spawn(t)
  <2>1. tick' \in [Ticks -> TickType]
    BY <1>9, TickToType DEF Spawn, TickPcs
  <2>2. tick[t].pick \in Prs \cup {NoPr}
    BY DEF TickType
  <2>3. [pc |-> "open", pr |-> tick[t].pick, tries |-> LockAttempts] \in ReviewType
    BY <2>2, WatchAssumption DEF ReviewType, ReviewPcs
  <2> QED
    BY <1>9, <2>1, <2>3 DEF Spawn
<1>10. CASE TickThrows(t)
  BY <1>10, EndType, FaultType DEF TickThrows
<1>11. CASE KillTick(t)
  <2>1. faults' \in 0 .. MaxFaults
    BY <1>11, FaultType DEF KillTick
  <2> QED
    BY <1>0, <1>11, <2>1 DEF KillTick
<1> QED
  BY <1>1, <1>2, <1>3, <1>4, <1>5, <1>6, <1>7, <1>8, <1>9, <1>10, <1>11 DEF TickStep

\* A line is written for a PR, and a review runs one; its tick waits for it or
\* is dead.
Launched ==
  \A t \in Ticks :
    /\ tick[t].pc = "booked" => tick[t].pick # NoPr
    /\ review[t].pc # "none" => review[t].pr # NoPr /\ tick[t].pc \in {"idle", "waiting"}

LEMMA TypeReview ==
  ASSUME TypeOK, Launched, NEW t \in Ticks,
         ReviewStep(t) \/ PreflightDies(t) \/ KillReview(t)
  PROVE  TypeOK'
<1> USE DEF github, disk, KeepDisk, TypeOK
<1>0. /\ NoFile \in FileType
      /\ \A pid \in BOOLEAN : [by |-> t, pid |-> pid] \in FileType
  BY DEF NoFile, FileType
<1>1. CASE OpenLock(t)
  <2>1. CASE review[t].tries = 0
    <3>1. Exit(t) /\ UNCHANGED wtLock
      BY <1>1, <2>1 DEF OpenLock
    <3> QED
      BY <1>1, <3>1, ExitType DEF OpenLock
  <2>2. CASE review[t].tries # 0 /\ wtLock[Pr(t)] = NoFile
    <3>1. ReviewTo(t, "claim") /\ SetLock(t, [by |-> t, pid |-> FALSE])
      BY <1>1, <2>2 DEF OpenLock
    <3>2. review' \in [Ticks -> ReviewType]
      BY <3>1, ReviewToType DEF ReviewPcs
    <3>3. wtLock' \in [Prs -> FileType]
      BY <1>0, <3>1, SetLockType
    <3> QED
      BY <1>1, <3>2, <3>3 DEF OpenLock
  <2>3. CASE review[t].tries # 0 /\ wtLock[Pr(t)] # NoFile
    <3> DEFINE r == [review[t] EXCEPT !.pc = "look", !.tries = @ - 1]
    <3>1. review[t] \in ReviewType
      OBVIOUS
    <3>5. review[t].tries - 1 \in 0 .. LockAttempts
      BY <2>3, <3>1, WatchAssumption DEF ReviewType
    <3>2. r \in ReviewType
      BY <3>1, <3>5 DEF ReviewType, ReviewPcs
    <3>3. review' = [review EXCEPT ![t] = r] /\ UNCHANGED wtLock
      BY <1>1, <2>3 DEF OpenLock
    <3>4. review' \in [Ticks -> ReviewType]
      BY <3>2, <3>3
    <3> QED
      BY <1>1, <3>3, <3>4 DEF OpenLock
  <2> QED
    BY <2>1, <2>2, <2>3
<1>2. CASE ClaimLock(t)
  <2>1. review' \in [Ticks -> ReviewType]
    BY <1>2, ReviewToType DEF ClaimLock, ReviewPcs
  <2>2. wtLock' \in [Prs -> FileType]
    BY <1>2 DEF ClaimLock, FileType
  <2> QED
    BY <1>2, <2>1, <2>2 DEF ClaimLock
<1>3. CASE LookAtLock(t)
  <2>1. review' \in [Ticks -> ReviewType]
    BY <1>3, ReviewToType, ExitType DEF LookAtLock, ReviewPcs
  <2> QED
    BY <1>3, <2>1 DEF LookAtLock
<1>4. CASE StealLock(t)
  <2>1. review' \in [Ticks -> ReviewType]
    BY <1>4, ReviewToType DEF StealLock, ReviewPcs
  <2>2. wtLock' \in [Prs -> FileType]
    BY <1>0, <1>4, SetLockType DEF StealLock
  <2> QED
    BY <1>4, <2>1, <2>2 DEF StealLock
<1>5. CASE Preflight(t)
  <2>1. review' \in [Ticks -> ReviewType]
    BY <1>5, ReviewToType DEF Preflight, ReviewPcs
  <2>2. dirs' \in [Prs -> Nat]
    BY <1>5 DEF Preflight
  <2> QED
    BY <1>5, <2>1, <2>2 DEF Preflight
<1>6. CASE PreflightDies(t)
  <2>1. review' \in [Ticks -> ReviewType]
    BY <1>6, ReviewToType DEF PreflightDies, ReviewPcs
  <2> QED
    BY <1>6, <2>1, FaultType DEF PreflightDies
<1>7. CASE Begin(t)
  <2>1. review' \in [Ticks -> ReviewType]
    BY <1>7, ReviewToType DEF Begin, ReviewPcs
  <2>2. /\ status' \in [Prs -> StatusType]
        /\ Fault \/ UNCHANGED faults
    BY <1>7, StatusToType DEF Begin, Write, StatusType
  <2> QED
    BY <1>7, <2>1, <2>2, FaultType DEF Begin
<1>8. CASE Findings(t)
  <2>1. review' \in [Ticks -> ReviewType]
    BY <1>8, ReviewToType DEF Findings, ReviewPcs
  <2>2. Pr(t) \in Prs
    BY <1>8 DEF Findings, Launched, Pr, ReviewType
  <2>3. /\ done' \subseteq Prs
        /\ Fault \/ UNCHANGED faults
    BY <1>8, <2>2 DEF Findings
  <2> QED
    BY <1>8, <2>1, <2>3, FaultType DEF Findings
<1>9. CASE PostComment(t)
  <2>1. review' \in [Ticks -> ReviewType]
    BY <1>9, ReviewToType DEF PostComment, ReviewPcs
  <2>2. Pr(t) \in Prs
    BY <1>9 DEF PostComment, Launched, Pr, ReviewType
  <2>3. /\ marker' \subseteq Prs
        /\ Fault \/ UNCHANGED faults
    BY <1>9, <2>2 DEF PostComment, Write
  <2> QED
    BY <1>9, <2>1, <2>3, FaultType DEF PostComment
<1>10. CASE SettleStatus(t)
  <2>1. review' \in [Ticks -> ReviewType]
    BY <1>10, ReviewToType DEF SettleStatus, ReviewPcs
  <2>2. /\ status' \in [Prs -> StatusType]
        /\ Fault \/ UNCHANGED faults
    BY <1>10, StatusToType DEF SettleStatus, Write, StatusType
  <2> QED
    BY <1>10, <2>1, <2>2, FaultType DEF SettleStatus
<1>11. CASE Release(t)
  <2>1. wtLock' \in [Prs -> FileType]
    BY <1>0, <1>11, SetLockType DEF Release
  <2> QED
    BY <1>11, <2>1, ExitType DEF Release
<1>12. CASE KillReview(t)
  <2>1. wtLock' \in [Prs -> FileType]
    <3>1. \A pr \in Prs : [wtLock[pr] EXCEPT !.by = "dead"] \in FileType
      BY DEF FileType
    <3>2. wtLock' = [pr \in Prs |-> IF wtLock[pr].by = t
                                    THEN [wtLock[pr] EXCEPT !.by = "dead"]
                                    ELSE wtLock[pr]]
      BY <1>12 DEF KillReview
    <3> QED
      BY <3>1, <3>2
  <2>2. status' \in [Prs -> StatusType]
    BY <1>12, StatusToType DEF KillReview, StatusType
  <2> QED
    BY <1>12, <2>1, <2>2, ExitType, FaultType DEF KillReview
<1> QED
  BY <1>1, <1>2, <1>3, <1>4, <1>5, <1>6, <1>7, <1>8, <1>9, <1>10, <1>11, <1>12
     DEF ReviewStep

LEMMA TypeStep == TypeOK /\ Launched /\ [Next]_vars => TypeOK'
<1> SUFFICES ASSUME TypeOK, Launched, [Next]_vars PROVE TypeOK'
  OBVIOUS
<1>1. CASE \E pr \in Prs : Age(pr)
  <2>1. status' \in [Prs -> StatusType]
    BY <1>1 DEF Age, TypeOK, StatusType
  <2> QED
    BY <1>1, <2>1 DEF Age, TypeOK, disk
<1>2. CASE UNCHANGED vars
  BY <1>2 DEF vars, TypeOK
<1> QED
  BY <1>1, <1>2, TypeTick, TypeReview DEF Next

\* What a step of one tick, or of its review, does to their program counters.
LEMMA LaunchedStep == TypeOK /\ Launched /\ [Next]_vars => Launched'
<1> SUFFICES ASSUME TypeOK, Launched, [Next]_vars PROVE Launched'
  OBVIOUS
<1>0. NoPr \notin Prs
  BY WatchAssumption DEF NoPr
<1>a. /\ tick \in [Ticks -> TickType]
      /\ review \in [Ticks -> ReviewType]
  BY DEF TypeOK
<1>1. ASSUME NEW t \in Ticks, NEW pc \in TickPcs \ {"booked"}, UNCHANGED review,
             review[t].pc # "none" => pc \in {"idle", "waiting"},
             tick'[t].pc = pc,
             \A u \in Ticks \ {t} : tick'[u] = tick[u]
      PROVE  Launched'
  BY <1>1 DEF Launched
<1>2. ASSUME NEW t \in Ticks, NEW pc \in ReviewPcs, UNCHANGED tick,
             review[t].pc # "none" \/ pc = "none",
             review'[t].pc = pc, review'[t].pr = review[t].pr \/ pc = "none",
             \A u \in Ticks \ {t} : review'[u] = review[u]
      PROVE  Launched'
  BY <1>2 DEF Launched
<1>3. ASSUME NEW t \in Ticks, TickStep(t) \/ TickThrows(t) \/ KillTick(t)
      PROVE  Launched'
  <2>1. tick[t].pc # "idle" /\ tick[t].pc # "waiting" => review[t].pc = "none"
    BY DEF Launched
  <2>2. CASE Count(t) \/ WriteLock(t)
    BY <1>1, <1>a, <2>1, <2>2 DEF Count, WriteLock, TickTo, TickType, TickPcs
  <2>3. CASE CheckLock(t)
    <3>1. CASE tick' = [tick EXCEPT ![t] = Idle]
      BY <1>1, <1>a, <2>3, <3>1 DEF CheckLock, Idle, TickPcs
    <3>2. CASE TickTo(t, "unlocked")
      BY <1>1, <1>a, <2>1, <2>3, <3>2 DEF CheckLock, TickTo, TickType, TickPcs
    <3> QED
      BY <2>3, <3>1, <3>2 DEF CheckLock
  <2>4. CASE Scan(t)
    <3>1. \E d, s :
            tick' = [tick EXCEPT ![t].pc = "scanned", ![t].done = d, ![t].spent = s]
      BY <2>4 DEF Scan
    <3>2. tick'[t].pc = "scanned" /\ \A u \in Ticks \ {t} : tick'[u] = tick[u]
      BY <1>a, <3>1 DEF TickType
    <3>3. tick[t].pc = "locked" /\ UNCHANGED review
      BY <2>4 DEF Scan
    <3> QED
      BY <1>1, <2>1, <3>2, <3>3 DEF TickPcs
  <2>5. CASE Decide(t)
    <3>1. \E settle, pick :
            tick' = [tick EXCEPT ![t].pc = "decided", ![t].settle = settle, ![t].pick = pick]
      BY <2>5 DEF Decide
    <3>2. tick'[t].pc = "decided" /\ \A u \in Ticks \ {t} : tick'[u] = tick[u]
      BY <1>a, <3>1 DEF TickType
    <3>3. tick[t].pc = "scanned" /\ UNCHANGED review
      BY <2>5 DEF Decide
    <3> QED
      BY <1>1, <2>1, <3>2, <3>3 DEF TickPcs
  <2>6. CASE SettleOrphans(t)
    BY <1>1, <1>a, <2>1, <2>6 DEF SettleOrphans, TickType, TickPcs
  <2>7. CASE End(t) /\ UNCHANGED review
    BY <1>1, <1>a, <2>7 DEF End, Idle, TickPcs
  <2>8. CASE Book(t)
    <3>1. /\ tick[t].pick # NoPr /\ UNCHANGED review /\ review[t].pc = "none"
          /\ tick'[t].pick = tick[t].pick /\ \A u \in Ticks \ {t} : tick'[u] = tick[u]
      BY <1>a, <2>1, <2>8 DEF Book, TickTo, TickType
    <3> QED
      BY <3>1 DEF Launched
  <2>9. CASE Spawn(t)
    <3>1. /\ tick[t].pick # NoPr /\ tick'[t].pc = "waiting"
          /\ review'[t].pr = tick[t].pick
          /\ \A u \in Ticks \ {t} : tick'[u] = tick[u] /\ review'[u] = review[u]
      BY <1>a, <2>9 DEF Spawn, TickTo, TickType, Launched
    <3> QED
      BY <3>1 DEF Launched
  <2>10. CASE KillTick(t)
    BY <1>1, <1>a, <2>10 DEF KillTick, Idle, TickPcs, github
  <2>11. NothingToLaunch(t) \/ Reap(t) \/ TickThrows(t) => End(t) /\ UNCHANGED review
    BY DEF NothingToLaunch, Reap, TickThrows
  <2> QED
    BY <1>3, <2>2, <2>3, <2>4, <2>5, <2>6, <2>7, <2>8, <2>9, <2>10, <2>11 DEF TickStep
<1>4. ASSUME NEW t \in Ticks, ReviewStep(t) \/ PreflightDies(t) \/ KillReview(t)
      PROVE  Launched'
  <2>1. review[t].pc # "none" /\ UNCHANGED tick
    BY <1>4 DEF ReviewStep, OpenLock, ClaimLock, LookAtLock, StealLock, Preflight, Begin,
                Findings, PostComment, SettleStatus, Release, PreflightDies, KillReview
  <2>2. CASE Exit(t)
    BY <1>2, <1>a, <2>1, <2>2 DEF Exit, NoReview, ReviewPcs
  <2>3. ASSUME NEW pc \in ReviewPcs, ReviewTo(t, pc)
        PROVE  Launched'
    BY <1>2, <1>a, <2>1, <2>3 DEF ReviewTo, ReviewType
  <2>4. CASE review' = [review EXCEPT ![t].pc = "look", ![t].tries = @ - 1]
    BY <1>2, <1>a, <2>1, <2>4 DEF ReviewType, ReviewPcs
  <2>5. \/ Exit(t)
        \/ review' = [review EXCEPT ![t].pc = "look", ![t].tries = @ - 1]
        \/ \E pc \in ReviewPcs : ReviewTo(t, pc)
    BY <1>4 DEF ReviewStep, OpenLock, ClaimLock, LookAtLock, StealLock, Preflight, Begin,
                Findings, PostComment, SettleStatus, Release, PreflightDies, KillReview,
                ReviewPcs
  <2> QED
    BY <2>2, <2>3, <2>4, <2>5
<1>5. CASE UNCHANGED vars \/ \E pr \in Prs : Age(pr)
  BY <1>5 DEF vars, Age, Launched
<1> QED
  BY <1>3, <1>4, <1>5 DEF Next

-----------------------------------------------------------------------------
(* The invariants.                                                           *)

\* The ticks between the count of the launched lines and their own line: each
\* of them may still write one.
Counted == {t \in Ticks : tick[t].pc \in
              {"counted", "unlocked", "locked", "scanned", "decided", "settled"}}

CapInv == log + Cardinality(Counted) <= DailyCap + Cardinality(Ticks) - 1

\* The ticks and the reviews between the scan and the run directory of a PR:
\* each of them may still make one.
Bound(t, pr) ==
  \/ tick[t].pc = "scanned" /\ pr \notin tick[t].spent
  \/ tick[t].pc \in {"decided", "settled", "booked"} /\ tick[t].pick = pr
  \/ review[t].pc \in {"open", "claim", "look", "steal", "fetch"} /\ review[t].pr = pr

BoundFor(pr) == {t \in Ticks : Bound(t, pr)}

AttemptsInv ==
  \A pr \in Prs :
    dirs[pr] + Cardinality(BoundFor(pr)) <= MaxAttempts + Cardinality(Ticks) - 1

\* The state of the daemon is well-formed.
THEOREM WatchTypeCorrect == Spec => []TypeOK
<1>1. Init => Launched
  BY DEF Init, Launched, Idle, NoReview
<1> QED
  BY <1>1, TypeInit, TypeStep, LaunchedStep, PTL DEF Spec

-----------------------------------------------------------------------------
(* What a step other than the first two counts does to the ticks.            *)

\* A tick that is neither counting, scanning, deciding, booking nor spawning
\* goes on with what it has, or ends.
LEMMA GoesOnOrEnds ==
  ASSUME TypeOK, NEW t \in Ticks,
         \/ CheckLock(t) \/ WriteLock(t) \/ SettleOrphans(t)
         \/ NothingToLaunch(t) \/ Reap(t) \/ TickThrows(t) \/ KillTick(t)
  PROVE  /\ UNCHANGED <<log, dirs, review>>
         /\ \A u \in Ticks \ {t} : tick'[u] = tick[u]
         /\ \/ tick'[t] = Idle
            \/ /\ tick[t].pc = "counted" /\ tick'[t].pc = "unlocked"
            \/ /\ tick[t].pc = "unlocked" /\ tick'[t].pc = "locked"
            \/ /\ tick[t].pc = "decided" /\ tick'[t].pc = "settled"
               /\ tick'[t].pick = tick[t].pick
<1> USE DEF disk, github
<1>a. tick \in [Ticks -> TickType]
  BY DEF TypeOK
<1>1. CASE CheckLock(t)
  BY <1>1, <1>a DEF CheckLock, TickTo, TickType
<1>2. CASE WriteLock(t)
  BY <1>2, <1>a DEF WriteLock, TickTo, TickType
<1>3. CASE SettleOrphans(t)
  <2>1. /\ tick' = [tick EXCEPT ![t].pc = "settled", ![t].settle = {}]
        /\ tick[t].pc = "decided" /\ UNCHANGED <<log, dirs, review>>
    BY <1>3 DEF SettleOrphans
  <2> QED
    BY <1>a, <2>1 DEF TickType
<1>4. CASE NothingToLaunch(t) \/ Reap(t) \/ TickThrows(t)
  BY <1>4, <1>a DEF NothingToLaunch, Reap, TickThrows, End
<1>5. CASE KillTick(t)
  BY <1>5, <1>a DEF KillTick
<1> QED
  BY <1>1, <1>2, <1>3, <1>4, <1>5

\* The scan, the decision and the spawn.
LEMMA ScanShape ==
  ASSUME TypeOK, NEW t \in Ticks, Scan(t)
  PROVE  /\ UNCHANGED <<log, dirs, review>>
         /\ \A u \in Ticks \ {t} : tick'[u] = tick[u]
         /\ tick[t].pc = "locked" /\ tick'[t].pc = "scanned"
         /\ \A pr \in Prs : pr \notin tick'[t].spent => dirs[pr] < MaxAttempts
<1>1. PICK s \in SUBSET Prs :
        /\ tick' = [tick EXCEPT ![t].pc = "scanned", ![t].done = done, ![t].spent = s]
        /\ s = {pr \in Prs : Spent(pr)}
  BY DEF Scan
<1>2. tick \in [Ticks -> TickType] /\ dirs \in [Prs -> Nat]
  BY DEF TypeOK
<1>3. tick'[t].spent = s /\ tick'[t].pc = "scanned" /\ \A u \in Ticks \ {t} : tick'[u] = tick[u]
  BY <1>1, <1>2 DEF TickType
<1>4. \A pr \in Prs : pr \notin s => dirs[pr] < MaxAttempts
  BY <1>1, <1>2, WatchAssumption DEF Spent
<1> QED
  BY <1>3, <1>4 DEF Scan, disk

LEMMA DecideShape ==
  ASSUME TypeOK, NEW t \in Ticks, Decide(t)
  PROVE  /\ UNCHANGED <<log, dirs, review>>
         /\ \A u \in Ticks \ {t} : tick'[u] = tick[u]
         /\ tick[t].pc = "scanned" /\ tick'[t].pc = "decided"
         /\ tick'[t].pick \in Prs => tick'[t].pick \notin tick[t].spent
<1> DEFINE eligible == {pr \in Prs : SkipReason(t, pr) = "eligible"}
<1>1. PICK unread :
        tick' = [tick EXCEPT ![t].pc = "decided", ![t].settle = ToSettle(t),
                             ![t].pick = Launch(eligible, unread)]
  BY DEF Decide
<1>2. \A pr \in eligible : pr \notin tick[t].spent
  BY DEF SkipReason
<1>3. eligible \in SUBSET Prs
  OBVIOUS
<1> HIDE DEF eligible
<1>4. Launch(eligible, unread) \in eligible \cup {NoPr}
  BY <1>3, LaunchType
<1>5. NoPr \notin Prs
  BY WatchAssumption DEF NoPr
<1>6. tick \in [Ticks -> TickType]
  BY DEF TypeOK
<1>7. /\ tick'[t].pc = "decided" /\ tick'[t].pick = Launch(eligible, unread)
      /\ \A u \in Ticks \ {t} : tick'[u] = tick[u]
  BY <1>1, <1>6 DEF TickType
<1> QED
  BY <1>2, <1>4, <1>5, <1>7 DEF Decide, disk

-----------------------------------------------------------------------------
(* The cap.                                                                  *)

LEMMA CountedSize ==
  ASSUME TypeOK
  PROVE  /\ IsFiniteSet(Counted) /\ Cardinality(Counted) \in Nat
         /\ Cardinality(Ticks) \in Nat /\ Cardinality(Counted) <= Cardinality(Ticks)
BY WatchAssumption, FS_Subset, FS_CardinalityType DEF Counted

LEMMA CapOfFewer ==
  ASSUME TypeOK, TypeOK', CapInv, log' = log, Counted' \subseteq Counted
  PROVE  CapInv'
<1>1. Cardinality(Counted') <= Cardinality(Counted) /\ Cardinality(Counted') \in Nat
  BY CountedSize, FS_Subset, FS_CardinalityType
<1> QED
  BY <1>1, CountedSize, WatchAssumption DEF CapInv, TypeOK

LEMMA CapStep == TypeOK /\ TypeOK' /\ CapInv /\ [Next]_vars => CapInv'
<1> SUFFICES ASSUME TypeOK, TypeOK', CapInv, [Next]_vars PROVE CapInv'
  OBVIOUS
<1>a. tick \in [Ticks -> TickType]
  BY DEF TypeOK
<1>1. ASSUME NEW t \in Ticks, TickStep(t) \/ TickThrows(t) \/ KillTick(t)
      PROVE  CapInv'
  <2>1. CASE Count(t)
    <3>1. log' = log /\ log < DailyCap
      BY <2>1 DEF Count, disk
    <3>2. Cardinality(Counted') <= Cardinality(Ticks) /\ Cardinality(Counted') \in Nat
      BY FS_Subset, FS_CardinalityType, WatchAssumption DEF Counted
    <3> QED
      BY <3>1, <3>2, CountedSize, WatchAssumption DEF CapInv, TypeOK
  <2>2. CASE Book(t)
    <3>1. t \in Counted /\ log' = log + 1
      BY <2>2 DEF Book, Counted
    <3>2. Counted' = Counted \ {t}
      BY <1>a, <2>2 DEF Book, TickTo, Counted, TickType
    <3>3. Cardinality(Counted') = Cardinality(Counted) - 1
      BY <3>1, <3>2, CountedSize, FS_RemoveElement
    <3> QED
      BY <3>1, <3>3, CountedSize, WatchAssumption DEF CapInv, TypeOK
  <2>3. ASSUME tick'[t].pc \in {"idle", "booked", "waiting"} \/ t \in Counted,
               \A u \in Ticks \ {t} : tick'[u] = tick[u], log' = log
        PROVE  CapInv'
    <3>1. Counted' \subseteq Counted
      BY <2>3 DEF Counted
    <3> QED
      BY <2>3, <3>1, CapOfFewer
  <2>4. CASE \/ CheckLock(t) \/ WriteLock(t) \/ SettleOrphans(t)
             \/ NothingToLaunch(t) \/ Reap(t) \/ TickThrows(t) \/ KillTick(t)
    BY <2>3, <2>4, GoesOnOrEnds DEF Counted, Idle
  <2>5. CASE Scan(t)
    BY <2>3, <2>5, ScanShape DEF Counted
  <2>6. CASE Decide(t)
    BY <2>3, <2>6, DecideShape DEF Counted
  <2>7. CASE Spawn(t)
    BY <2>3, <2>7, <1>a DEF Spawn, TickTo, TickType, disk
  <2> QED
    BY <1>1, <2>1, <2>2, <2>4, <2>5, <2>6, <2>7 DEF TickStep
<1>2. ASSUME NEW t \in Ticks, ReviewStep(t) \/ PreflightDies(t) \/ KillReview(t)
      PROVE  tick' = tick /\ log' = log
  BY <1>2 DEF ReviewStep, OpenLock, ClaimLock, LookAtLock, StealLock, Preflight, Begin,
              Findings, PostComment, SettleStatus, Release, PreflightDies, KillReview,
              KeepDisk, disk
<1>3. CASE UNCHANGED vars \/ \E pr \in Prs : Age(pr)
  BY <1>3, CapOfFewer DEF vars, Age, Counted, disk
<1> QED
  BY <1>1, <1>2, <1>3, CapOfFewer DEF Next, Counted

\* The launched lines pass the cap by less than the ticks there are: a tick that
\* has counted and not yet written keeps its line in reserve.
THEOREM CapOverrunIsBounded == Spec => []CapOverrun
<1>1. Init => CapInv
  <2> SUFFICES ASSUME Init PROVE CapInv
    OBVIOUS
  <2>1. Counted = {} /\ log = 0
    BY DEF Init, Counted, Idle
  <2>2. Cardinality(Ticks) \in Nat /\ Cardinality(Ticks) # 0
    BY WatchAssumption, FS_CardinalityType, FS_EmptySet
  <2> QED
    BY <2>1, <2>2, FS_EmptySet, WatchAssumption DEF CapInv
<1>2. TypeOK /\ CapInv => CapOverrun
  BY CountedSize, WatchAssumption DEF CapInv, CapOverrun, TypeOK
<1>3. Init => Launched
  BY DEF Init, Launched, Idle, NoReview
<1> QED
  BY <1>1, <1>2, <1>3, TypeInit, TypeStep, LaunchedStep, CapStep, PTL DEF Spec

-----------------------------------------------------------------------------
(* The attempts.                                                             *)

LEMMA BoundForSize ==
  /\ Cardinality(Ticks) \in Nat
  /\ \A pr : /\ IsFiniteSet(BoundFor(pr)) /\ Cardinality(BoundFor(pr)) \in Nat
             /\ Cardinality(BoundFor(pr)) <= Cardinality(Ticks)
<1>1. \A pr : BoundFor(pr) \in SUBSET Ticks
  BY DEF BoundFor
<1> QED
  BY <1>1, WatchAssumption, FS_Subset, FS_CardinalityType

LEMMA FewerStaysBounded ==
  ASSUME TypeOK, TypeOK', NEW pr \in Prs, dirs'[pr] = dirs[pr],
         dirs[pr] + Cardinality(BoundFor(pr)) <= MaxAttempts + Cardinality(Ticks) - 1,
         BoundFor(pr)' \subseteq BoundFor(pr)
  PROVE  dirs'[pr] + Cardinality(BoundFor(pr)') <= MaxAttempts + Cardinality(Ticks) - 1
<1>1. /\ Cardinality(BoundFor(pr)') <= Cardinality(BoundFor(pr))
      /\ Cardinality(BoundFor(pr)') \in Nat
  BY BoundForSize, FS_Subset, FS_CardinalityType
<1>2. dirs[pr] \in Nat
  BY DEF TypeOK
<1> QED
  BY <1>1, <1>2, BoundForSize, WatchAssumption

LEMMA AttemptsStep == TypeOK /\ TypeOK' /\ Launched /\ AttemptsInv /\ [Next]_vars => AttemptsInv'
<1> SUFFICES ASSUME TypeOK, TypeOK', Launched, AttemptsInv, [Next]_vars,
                    NEW pr \in Prs
             PROVE  dirs'[pr] + Cardinality(BoundFor(pr)') <=
                      MaxAttempts + Cardinality(Ticks) - 1
  BY DEF AttemptsInv
<1> DEFINE Goal == dirs'[pr] + Cardinality(BoundFor(pr)') <=
                     MaxAttempts + Cardinality(Ticks) - 1
<1>a. /\ tick \in [Ticks -> TickType] /\ review \in [Ticks -> ReviewType]
      /\ dirs \in [Prs -> Nat]
      /\ dirs[pr] + Cardinality(BoundFor(pr)) <= MaxAttempts + Cardinality(Ticks) - 1
  BY DEF TypeOK, AttemptsInv
<1>b. ASSUME NEW t \in Ticks, dirs'[pr] = dirs[pr],
             Bound(t, pr)' => Bound(t, pr),
             \A u \in Ticks \ {t} : tick'[u] = tick[u] /\ review'[u] = review[u]
      PROVE  Goal
  <2>1. \A u \in Ticks : Bound(u, pr)' => Bound(u, pr)
    BY <1>b DEF Bound
  <2>2. BoundFor(pr)' \subseteq BoundFor(pr)
    BY <2>1 DEF BoundFor
  <2> QED
    BY <1>a, <1>b, <2>2, FewerStaysBounded
<1>1. ASSUME NEW t \in Ticks, TickStep(t) \/ TickThrows(t) \/ KillTick(t)
      PROVE  Goal
  <2>1. CASE Scan(t)
    <3>1. CASE dirs[pr] < MaxAttempts
      <4>1. Cardinality(BoundFor(pr)') <= Cardinality(Ticks) /\ Cardinality(BoundFor(pr)') \in Nat
        BY FS_Subset, FS_CardinalityType, WatchAssumption DEF BoundFor
      <4>2. dirs'[pr] = dirs[pr]
        BY <2>1, ScanShape
      <4> QED
        BY <1>a, <3>1, <4>1, <4>2, BoundForSize, WatchAssumption
    <3>2. CASE ~(dirs[pr] < MaxAttempts)
      BY <1>b, <2>1, <3>2, ScanShape DEF Bound
    <3> QED
      BY <3>1, <3>2
  <2>2. CASE Decide(t)
    BY <1>b, <2>2, DecideShape DEF Bound
  <2>3. CASE \/ CheckLock(t) \/ WriteLock(t) \/ SettleOrphans(t)
             \/ NothingToLaunch(t) \/ Reap(t) \/ TickThrows(t) \/ KillTick(t)
    BY <1>b, <2>3, GoesOnOrEnds DEF Bound, Idle
  <2>4. CASE Count(t)
    BY <1>a, <1>b, <2>4 DEF Bound, Count, TickTo, TickType, disk
  <2>5. CASE Book(t)
    BY <1>a, <1>b, <2>5 DEF Bound, Book, TickTo, TickType
  <2>6. CASE Spawn(t)
    <3>1. /\ tick[t].pc = "booked" /\ tick'[t].pc = "waiting"
          /\ review'[t].pr = tick[t].pick /\ dirs' = dirs
          /\ \A u \in Ticks \ {t} : tick'[u] = tick[u] /\ review'[u] = review[u]
      BY <1>a, <2>6 DEF Spawn, TickTo, TickType, disk
    <3> QED
      BY <1>b, <3>1 DEF Bound
  <2> QED
    BY <1>1, <2>1, <2>2, <2>3, <2>4, <2>5, <2>6 DEF TickStep
<1>2. ASSUME NEW t \in Ticks, ReviewStep(t) \/ PreflightDies(t) \/ KillReview(t), ~Preflight(t)
      PROVE  Goal
  <2>1. /\ UNCHANGED <<tick, dirs>>
        /\ \/ Exit(t)
           \/ /\ review' = [review EXCEPT ![t].pc = "look", ![t].tries = @ - 1]
              /\ review[t].pc = "open"
           \/ /\ review[t].pc \in {"open", "claim", "look", "steal", "fetch"}
              /\ \E pc \in ReviewPcs : ReviewTo(t, pc)
           \/ \E pc \in {"pipeline", "comment", "settle", "release"} : ReviewTo(t, pc)
    BY <1>2 DEF ReviewStep, OpenLock, ClaimLock, LookAtLock, StealLock, Begin,
                Findings, PostComment, SettleStatus, Release, PreflightDies, KillReview,
                KeepDisk, disk, ReviewPcs
  <2>2. CASE Exit(t)
    BY <1>a, <1>b, <2>1, <2>2 DEF Exit, NoReview, Bound
  <2>3. CASE /\ review' = [review EXCEPT ![t].pc = "look", ![t].tries = @ - 1]
             /\ review[t].pc = "open"
    BY <1>a, <1>b, <2>1, <2>3 DEF Bound, ReviewType
  <2>4. ASSUME NEW pc \in ReviewPcs, ReviewTo(t, pc),
               \/ review[t].pc \in {"open", "claim", "look", "steal", "fetch"}
               \/ pc \in {"pipeline", "comment", "settle", "release"}
        PROVE  Goal
    BY <1>a, <1>b, <2>1, <2>4 DEF Bound, ReviewTo, ReviewType
  <2> QED
    BY <2>1, <2>2, <2>3, <2>4 DEF ReviewPcs
<1>3. ASSUME NEW t \in Ticks, Preflight(t)
      PROVE  Goal
  <2>1. /\ tick' = tick /\ review[t].pc = "fetch" /\ review'[t].pc \in {"release", "begin"}
        /\ review'[t].pr = review[t].pr
        /\ \A u \in Ticks \ {t} : review'[u] = review[u]
    BY <1>3, <1>a DEF Preflight, ReviewTo, ReviewType
  <2>2. dirs' = dirs \/ dirs' = [dirs EXCEPT ![review[t].pr] = @ + 1]
    BY <1>3 DEF Preflight, Pr
  <2>3. CASE dirs'[pr] = dirs[pr]
    BY <1>b, <2>1, <2>3 DEF Bound
  <2>4. CASE dirs'[pr] # dirs[pr]
    <3>1. review[t].pr = pr /\ dirs'[pr] = dirs[pr] + 1
      BY <1>a, <2>2, <2>4
    <3>2. tick[t].pc \in {"idle", "waiting"}
      BY <2>1 DEF Launched
    <3>3. t \in BoundFor(pr)
      BY <2>1, <3>1 DEF BoundFor, Bound
    <3>4. BoundFor(pr)' = BoundFor(pr) \ {t}
      BY <2>1, <3>2 DEF BoundFor, Bound
    <3>5. Cardinality(BoundFor(pr)') = Cardinality(BoundFor(pr)) - 1
      BY <3>3, <3>4, BoundForSize, FS_RemoveElement
    <3> QED
      BY <1>a, <3>1, <3>5, BoundForSize, WatchAssumption
  <2> QED
    BY <2>3, <2>4
<1>4. CASE UNCHANGED vars \/ \E q \in Prs : Age(q)
  <2>1. UNCHANGED <<tick, review, dirs>>
    BY <1>4 DEF vars, Age, disk
  <2>2. BoundFor(pr)' = BoundFor(pr)
    BY <2>1 DEF BoundFor, Bound
  <2> QED
    BY <1>a, <2>1, <2>2
<1> QED
  BY <1>1, <1>2, <1>3, <1>4 DEF Next

\* A head is attempted as often as it may be, and once more by each further tick.
THEOREM AttemptsAreBounded == Spec => []AttemptsBounded
<1>1. Init => AttemptsInv
  <2> SUFFICES ASSUME Init, NEW pr \in Prs
               PROVE  dirs[pr] + Cardinality(BoundFor(pr)) <= MaxAttempts + Cardinality(Ticks) - 1
    BY DEF AttemptsInv
  <2>1. BoundFor(pr) = {} /\ dirs[pr] = 0
    BY DEF Init, BoundFor, Bound, Idle, NoReview
  <2>2. Cardinality(Ticks) \in Nat /\ Cardinality(Ticks) # 0
    BY WatchAssumption, FS_CardinalityType, FS_EmptySet
  <2> QED
    BY <2>1, <2>2, FS_EmptySet, WatchAssumption
<1>2. TypeOK /\ AttemptsInv => AttemptsBounded
  BY BoundForSize, WatchAssumption DEF AttemptsInv, AttemptsBounded, TypeOK
<1>3. Init => Launched
  BY DEF Init, Launched, Idle, NoReview
<1> QED
  BY <1>1, <1>2, <1>3, TypeInit, TypeStep, LaunchedStep, AttemptsStep, PTL DEF Spec

-----------------------------------------------------------------------------
(* The lines and the runs.                                                   *)

\* The launches between their line and their run directory: each of them may
\* still make one, and its line is there already.
Underway(t) ==
  \/ tick[t].pc = "booked"
  \/ review[t].pc \in {"open", "claim", "look", "steal", "fetch"}

Launches == {t \in Ticks : Underway(t)}

RunsInv ==
  /\ IsFiniteSet(RunDirs)
  /\ Cardinality(RunDirs) + Cardinality(Launches) <= log

LEMMA LaunchesSize == IsFiniteSet(Launches) /\ Cardinality(Launches) \in Nat
BY WatchAssumption, FS_Subset, FS_CardinalityType DEF Launches

LEMMA RunsOfFewer ==
  ASSUME TypeOK, TypeOK', RunsInv, dirs' = dirs, log' = log,
         Launches' \subseteq Launches
  PROVE  RunsInv'
<1>1. Cardinality(Launches') <= Cardinality(Launches) /\ Cardinality(Launches') \in Nat
  BY LaunchesSize, FS_Subset, FS_CardinalityType
<1>2. RunDirs' = RunDirs
  BY DEF RunDirs
<1>3. Cardinality(RunDirs) \in Nat
  BY FS_CardinalityType DEF RunsInv
<1> HIDE DEF RunDirs, Launches
<1> QED
  BY <1>1, <1>2, <1>3, LaunchesSize DEF RunsInv, TypeOK

\* A further run directory of a PR is one more.
LEMMA OneMoreRun ==
  ASSUME TypeOK, NEW pr \in Prs, dirs' = [dirs EXCEPT ![pr] = @ + 1],
         IsFiniteSet(RunDirs)
  PROVE  /\ IsFiniteSet(RunDirs')
         /\ Cardinality(RunDirs') = Cardinality(RunDirs) + 1
<1>1. dirs \in [Prs -> Nat]
  BY DEF TypeOK
<1> DEFINE run == <<pr, dirs[pr] + 1>>
<1>2. run \notin RunDirs
  BY <1>1 DEF RunDirs
<1>3. RunDirs' = RunDirs \cup {run}
  <2>1. ASSUME NEW q \in Prs, NEW n
        PROVE  n \in 1 .. dirs'[q] <=> n \in 1 .. dirs[q] \/ (q = pr /\ n = dirs[pr] + 1)
    BY <1>1
  <2>2. ASSUME NEW r \in RunDirs' PROVE r \in RunDirs \cup {run}
    <3>1. PICK q \in Prs : r \in {q} \X (1 .. dirs'[q])
      BY <2>2 DEF RunDirs
    <3> QED
      BY <2>1, <3>1 DEF RunDirs
  <2>3. ASSUME NEW r \in RunDirs PROVE r \in RunDirs'
    <3>1. PICK q \in Prs : r \in {q} \X (1 .. dirs[q])
      BY <2>3 DEF RunDirs
    <3>2. r \in {q} \X (1 .. dirs'[q])
      BY <2>1, <3>1
    <3> QED
      BY <3>2 DEF RunDirs
  <2>4. run \in RunDirs'
    <3>1. run \in {pr} \X (1 .. dirs'[pr])
      BY <2>1, <1>1
    <3> QED
      BY <3>1 DEF RunDirs
  <2> QED
    BY <2>2, <2>3, <2>4
<1> HIDE DEF run
<1> QED
  BY <1>2, <1>3, FS_AddElement

LEMMA RunsStep == TypeOK /\ TypeOK' /\ Launched /\ RunsInv /\ [Next]_vars => RunsInv'
<1> SUFFICES ASSUME TypeOK, TypeOK', Launched, RunsInv, [Next]_vars
             PROVE  RunsInv'
  OBVIOUS
<1>a. /\ tick \in [Ticks -> TickType] /\ review \in [Ticks -> ReviewType]
      /\ dirs \in [Prs -> Nat] /\ log \in Nat
  BY DEF TypeOK
<1>b. ASSUME NEW t \in Ticks, dirs' = dirs, log' = log,
             Underway(t)' => Underway(t),
             \A u \in Ticks \ {t} : tick'[u] = tick[u] /\ review'[u] = review[u]
      PROVE  RunsInv'
  <2>1. \A u \in Ticks : Underway(u)' => Underway(u)
    BY <1>b DEF Underway
  <2>2. Launches' \subseteq Launches
    BY <2>1 DEF Launches
  <2> QED
    BY <1>b, <2>2, RunsOfFewer
<1>c. Cardinality(RunDirs) \in Nat
  BY FS_CardinalityType DEF RunsInv
<1>1. ASSUME NEW t \in Ticks, TickStep(t) \/ TickThrows(t) \/ KillTick(t)
      PROVE  RunsInv'
  <2>1. CASE Scan(t)
    BY <1>b, <2>1, ScanShape DEF Underway
  <2>2. CASE Decide(t)
    BY <1>b, <2>2, DecideShape DEF Underway
  <2>3. CASE \/ CheckLock(t) \/ WriteLock(t) \/ SettleOrphans(t)
             \/ NothingToLaunch(t) \/ Reap(t) \/ TickThrows(t) \/ KillTick(t)
    BY <1>b, <2>3, GoesOnOrEnds DEF Underway, Idle
  <2>4. CASE Count(t)
    BY <1>a, <1>b, <2>4 DEF Underway, Count, TickTo, TickType, disk
  <2>5. CASE Book(t)
    <3>1. /\ tick[t].pc = "settled" /\ tick'[t].pc = "booked" /\ review' = review
          /\ \A u \in Ticks \ {t} : tick'[u] = tick[u]
          /\ log' = log + 1 /\ dirs' = dirs
      BY <1>a, <2>5 DEF Book, TickTo, TickType
    <3>2. review[t].pc = "none"
      BY <3>1 DEF Launched
    <3>3. t \notin Launches
      BY <3>1, <3>2 DEF Launches, Underway
    <3>4. Launches' = Launches \cup {t}
      BY <3>1 DEF Launches, Underway
    <3>5. Cardinality(Launches') = Cardinality(Launches) + 1
      BY <3>3, <3>4, LaunchesSize, FS_AddElement
    <3>6. RunDirs' = RunDirs
      BY <3>1 DEF RunDirs
    <3> HIDE DEF RunDirs, Launches
    <3> QED
      BY <1>a, <1>c, <3>1, <3>5, <3>6, LaunchesSize DEF RunsInv
  <2>6. CASE Spawn(t)
    <3>1. /\ tick[t].pc = "booked" /\ dirs' = dirs /\ log' = log
          /\ \A u \in Ticks \ {t} : tick'[u] = tick[u] /\ review'[u] = review[u]
      BY <1>a, <2>6 DEF Spawn, TickTo, TickType, disk
    <3> QED
      BY <1>b, <3>1 DEF Underway
  <2> QED
    BY <1>1, <2>1, <2>2, <2>3, <2>4, <2>5, <2>6 DEF TickStep
<1>2. ASSUME NEW t \in Ticks, ReviewStep(t) \/ PreflightDies(t) \/ KillReview(t), ~Preflight(t)
      PROVE  RunsInv'
  <2>1. /\ UNCHANGED <<tick, dirs, log>>
        /\ \/ Exit(t)
           \/ /\ review' = [review EXCEPT ![t].pc = "look", ![t].tries = @ - 1]
              /\ review[t].pc = "open"
           \/ /\ review[t].pc \in {"open", "claim", "look", "steal", "fetch"}
              /\ \E pc \in ReviewPcs : ReviewTo(t, pc)
           \/ \E pc \in {"pipeline", "comment", "settle", "release"} : ReviewTo(t, pc)
    BY <1>2 DEF ReviewStep, OpenLock, ClaimLock, LookAtLock, StealLock, Begin,
                Findings, PostComment, SettleStatus, Release, PreflightDies, KillReview,
                KeepDisk, disk, ReviewPcs
  <2>2. CASE Exit(t)
    BY <1>a, <1>b, <2>1, <2>2 DEF Exit, NoReview, Underway
  <2>3. CASE /\ review' = [review EXCEPT ![t].pc = "look", ![t].tries = @ - 1]
             /\ review[t].pc = "open"
    BY <1>a, <1>b, <2>1, <2>3 DEF Underway, ReviewType
  <2>4. ASSUME NEW pc \in ReviewPcs, ReviewTo(t, pc),
               \/ review[t].pc \in {"open", "claim", "look", "steal", "fetch"}
               \/ pc \in {"pipeline", "comment", "settle", "release"}
        PROVE  RunsInv'
    BY <1>a, <1>b, <2>1, <2>4 DEF Underway, ReviewTo, ReviewType
  <2> QED
    BY <2>1, <2>2, <2>3, <2>4 DEF ReviewPcs
<1>3. ASSUME NEW t \in Ticks, Preflight(t)
      PROVE  RunsInv'
  <2>1. /\ tick' = tick /\ log' = log
        /\ review[t].pc = "fetch" /\ review'[t].pc \in {"release", "begin"}
        /\ \A u \in Ticks \ {t} : review'[u] = review[u]
    BY <1>3, <1>a DEF Preflight, ReviewTo, ReviewType
  <2>2. CASE dirs' = dirs
    BY <1>b, <2>1, <2>2 DEF Underway
  <2>3. CASE dirs' # dirs
    <3>1. dirs' = [dirs EXCEPT ![review[t].pr] = @ + 1]
      BY <1>3, <2>3 DEF Preflight, Pr
    <3>2. review[t].pr \in Prs
      BY <1>a, <2>3, <3>1
    <3>3. tick[t].pc \in {"idle", "waiting"}
      BY <2>1 DEF Launched
    <3>4. t \in Launches
      BY <2>1 DEF Launches, Underway
    <3>5. Launches' = Launches \ {t}
      BY <2>1, <3>3 DEF Launches, Underway
    <3>6. Cardinality(Launches') = Cardinality(Launches) - 1
      BY <3>4, <3>5, LaunchesSize, FS_RemoveElement
    <3>7. /\ IsFiniteSet(RunDirs')
          /\ Cardinality(RunDirs') = Cardinality(RunDirs) + 1
      BY <3>1, <3>2, OneMoreRun DEF RunsInv
    <3> HIDE DEF RunDirs, Launches
    <3> QED
      BY <1>a, <1>c, <2>1, <3>6, <3>7, LaunchesSize DEF RunsInv
  <2> QED
    BY <2>2, <2>3
<1>4. CASE UNCHANGED vars \/ \E q \in Prs : Age(q)
  <2>1. UNCHANGED <<tick, review, dirs, log>>
    BY <1>4 DEF vars, Age, disk
  <2>2. Launches' = Launches
    BY <2>1 DEF Launches, Underway
  <2> QED
    BY <2>1, <2>2, RunsOfFewer
<1> QED
  BY <1>1, <1>2, <1>3, <1>4 DEF Next

\* Every run directory is a line the cap was counted from, and the cap bounds the
\* lines: what a day spends is counted, whoever died on the way.
THEOREM SpendOfTheDay == Spec => []SpendIsCounted
<1>1. Init => RunsInv
  <2> SUFFICES ASSUME Init PROVE RunsInv
    OBVIOUS
  <2>1. RunDirs = {} /\ Launches = {} /\ log = 0
    BY DEF Init, RunDirs, Launches, Underway, Idle, NoReview
  <2> HIDE DEF RunDirs, Launches
  <2> QED
    BY <2>1, FS_EmptySet DEF RunsInv
<1>2. TypeOK /\ RunsInv => RunsAreLines
  BY LaunchesSize, FS_CardinalityType DEF RunsInv, RunsAreLines, TypeOK
<1>3. Init => Launched
  BY DEF Init, Launched, Idle, NoReview
<1>4. RunsAreLines /\ CapOverrun => SpendIsCounted
  BY DEF SpendIsCounted
<1> QED
  BY <1>1, <1>2, <1>3, <1>4, TypeInit, TypeStep, LaunchedStep, RunsStep,
     CapOverrunIsBounded, PTL DEF Spec
==============================================================================
