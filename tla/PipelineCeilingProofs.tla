------------------------ MODULE PipelineCeilingProofs ------------------------
(***************************************************************************)
(* What holds of one run of the review pipeline for every configuration:   *)
(* its type, who may write the snapshot, what starts after the ceiling,    *)
(* and what a complete or a blocking answer rests on.                      *)
(***************************************************************************)
EXTENDS PipelineCeiling, FiniteSetTheorems, TLAPS

-----------------------------------------------------------------------------
(* Types.                                                                  *)

LEMMA TypeInit == Init => TypeOK
<1> SUFFICES ASSUME Init PROVE TypeOK
  OBVIOUS
<1>1. out \in [Writers -> [status : Statuses \cup {"none"}, tier : Tiers]]
  BY DEF Init, NoOutput, Tiers
<1>2. disk \in [by : Writers \cup {"nobody"}, status : Statuses \cup {"none"}]
  BY DEF Init, NoSnapshot
<1> QED
  BY <1>1, <1>2 DEF Init, TypeOK

LEMMA OutputType == Output \in [status : Statuses \cup {"none"}, tier : Tiers]
<1>1. Tier \in Tiers
  BY DEF Tier, Tiers
<1> QED
  BY <1>1 DEF Output, Statuses

LEMMA TypeStep == TypeOK /\ [Next]_vars => TypeOK'
<1> SUFFICES ASSUME TypeOK, [Next]_vars PROVE TypeOK'
  OBVIOUS
<1> USE DEF TypeOK, findings, result
<1>1. CASE GotchasUnusable
  BY <1>1 DEF GotchasUnusable, Finish, Writers, Statuses, Tiers
<1>2. CASE Validate
  BY <1>2 DEF Validate, Wants
<1>17. CASE Prepared
  BY <1>17 DEF Prepared, ToLegs, Legs, GatedLegs
<1>18. CASE Throws
  BY <1>18 DEF Throws
<1>3. CASE \E leg \in GatedLegs : Admit(leg)
  BY <1>3 DEF Admit
<1>4. ASSUME NEW leg \in GatedLegs, Pass(leg)
      PROVE  TypeOK'
  <2>1. After[leg] \in Legs \cup {"finish"}
    BY DEF After, GatedLegs, Legs
  <2> QED
    BY <1>4, <2>1 DEF Pass, ToLegs
<1>5. ASSUME NEW leg \in GatedLegs \cup {"warmup"}, Spawn(leg)
      PROVE  TypeOK'
  BY <1>5 DEF Spawn, Start, GatedLegs, Options
<1>6. ASSUME NEW leg \in GatedLegs, JoinLeg(leg)
      PROVE  TypeOK'
  <2>1. After[leg] \in Legs \cup {"finish"}
    BY DEF After, GatedLegs, Legs
  <2> QED
    BY <1>6, <2>1 DEF JoinLeg, ToLegs
<1>7. CASE AdmitHunters \/ AdmitWarmup
  <2>1. partial' \in BOOLEAN
    BY <1>7 DEF AdmitHunters, AdmitWarmup
  <2> QED
    BY <1>7, <2>1 DEF AdmitHunters, AdmitWarmup, ToLegs, Legs
<1>19. CASE HuntersComposed \/ JoinWarmup
  BY <1>19 DEF HuntersComposed, JoinWarmup, ToLegs, Legs
<1>8. CASE FanOut
  BY <1>8 DEF FanOut, Start, Options
<1>9. CASE JoinHunters
  <2>1. found' \in Evidence \cup {"nothing"} /\ partial' \in BOOLEAN
    BY <1>9 DEF JoinHunters
  <2> QED
    BY <1>9, <2>1 DEF JoinHunters, ToLegs, Legs, GatedLegs
<1>10. CASE JoinRefuter
  <2>1. After["refuter"] = "consolidate"
    BY DEF After
  <2>2. verdict' \in RefuterVerdicts /\ ruled' \in BOOLEAN /\ partial' \in BOOLEAN
    BY <1>10 DEF JoinRefuter, RefuterVerdicts
  <2> QED
    BY <1>10, <2>1, <2>2 DEF JoinRefuter, ToLegs, Legs, GatedLegs
<1>11. CASE JoinJudge
  <2>1. immaterial' \in BOOLEAN
    BY <1>11 DEF JoinJudge
  <2> QED
    BY <1>11, <2>1 DEF JoinJudge, ToLegs
<1>12. CASE ExecFinish
  <2>1. out' \in [Writers -> [status : Statuses \cup {"none"}, tier : Tiers]]
    BY <1>12, OutputType DEF ExecFinish, Finish
  <2>2. latch' \in BOOLEAN
    BY <1>12 DEF ExecFinish, Finish
  <2> QED
    BY <1>12, <2>1, <2>2 DEF ExecFinish, Finish
<1>13. ASSUME NEW w \in Writers, NEW landed \in BOOLEAN, WriteEnds(w, landed)
       PROVE  /\ latch' \in BOOLEAN
              /\ disk' \in [by : Writers \cup {"nobody"}, status : Statuses \cup {"none"}]
  <2>1. out[w].status \in Statuses \cup {"none"}
    OBVIOUS
  <2>2. latch' \in BOOLEAN
    BY <1>13 DEF WriteEnds
  <2>3. \/ disk' = [by |-> w, status |-> out[w].status]
        \/ disk' = disk
    BY <1>13 DEF WriteEnds
  <2> QED
    BY <2>1, <2>2, <2>3
<1>20. CASE ExecWrites
  <2>1. pc' \in {"ok", "err"}
    BY <1>20 DEF ExecWrites
  <2>2. PICK landed \in BOOLEAN : WriteEnds("exec", landed)
    BY <1>20 DEF ExecWrites
  <2> QED
    BY <1>13, <1>20, <2>1, <2>2 DEF ExecWrites, Writers
<1>21. CASE CeilingWrites
  BY <1>13, <1>21 DEF CeilingWrites, Writers
<1>14. CASE Fire
  BY <1>14 DEF Fire
<1>22. CASE ExecWins
  <2>1. caller' \in {"ok", "threw"}
    BY <1>22 DEF ExecWins
  <2> QED
    BY <1>22, <2>1 DEF ExecWins
<1>15. CASE GraceOver
  <2>1. out' \in [Writers -> [status : Statuses \cup {"none"}, tier : Tiers]]
    BY <1>15, OutputType DEF GraceOver, Finish
  <2>2. latch' \in BOOLEAN
    BY <1>15 DEF GraceOver, Finish
  <2> QED
    BY <1>15, <2>1, <2>2 DEF GraceOver, Finish
<1>16. CASE Over \/ UNCHANGED vars
  BY <1>16 DEF Over, vars
<1> QED
  BY <1>1, <1>2, <1>3, <1>4, <1>5, <1>6, <1>7, <1>8, <1>9, <1>10, <1>11, <1>12,
     <1>14, <1>15, <1>16, <1>17, <1>18, <1>19,
     <1>20, <1>21, <1>22 DEF Next

\* The state of the pipeline is well-formed.
THEOREM PipelineTypeCorrect == Spec => []TypeOK
BY TypeInit, TypeStep, PTL DEF Spec

-----------------------------------------------------------------------------
(* The snapshot.  Of the two writers at most one is in its write, it holds the *)
(* latch, and nothing is on disk yet.                                          *)

SnapshotInv ==
  /\ pc = "writing" => latch /\ disk = NoSnapshot /\ caller # "writing"
  /\ caller = "writing" => latch /\ disk = NoSnapshot /\ pc # "writing"
  /\ latch => disk # NoSnapshot \/ pc = "writing" \/ caller = "writing"
  /\ disk # NoSnapshot => latch
  /\ pc = "ok" /\ caller = "racing" => disk # NoSnapshot

(* What starts late.  While a leg other than the summarizer started late, no   *)
(* leg is being composed, and the hunters are not about to start.              *)

LateLegs == late \ {"summarizer"}

LateInv ==
  /\ config.shared => late = {}
  /\ late # {} => fired
  /\ LateLegs = {} \/ \E leg \in Options : LateLegs = {leg}
  /\ LateLegs # {} /\ pc \in Legs => stage # "compose"
  /\ LateLegs # {} /\ pc \in {"warmup", "fanout"} /\ hunt = "admitted" => stage = "run"
  /\ pc \in {"prepare", "validated", "scout"} \/ (pc = "hunters" /\ stage = "gate") =>
       hunt = "none"

(* What an answer rests on.  A run that is not partial has done each leg it    *)
(* has passed; the ceiling makes it partial at once.                           *)

Ended == pc \in {"writing", "ok", "err"}
PastRefuter == pc \in {"consolidate", "materiality", "finish"}
PastAdjudicate == PastRefuter \/ pc = "refuter"
PastVerify == PastAdjudicate \/ pc = "adjudicate"
PastHunters == PastVerify \/ pc = "verify"

Hunted == Wants("hunters") => "hunters" \in started
Did(leg) == Work(leg) => leg \in started
Ruled == found # "nothing" /\ Wants("refuter") => ruled

ToldInv ==
  /\ fired => partial
  /\ caller = "racing" => ~fired
  /\ caller \in {"grace", "writing"} => fired
  /\ fired /\ caller \in {"writing", "ok"} => out["ceiling"].status = "partial"
  /\ ~partial /\ pc \in {"warmup", "fanout"} /\ Wants("hunters") => hunt = "admitted"
  /\ ~partial /\ pc = "hunters" /\ stage = "compose" => hunt = "admitted"
  /\ ~partial /\ pc = "fanout" /\ stage = "run" => Hunted
  /\ ~partial /\ PastHunters => Hunted
  /\ ~partial /\ PastVerify => Did("verify")
  /\ ~partial /\ PastAdjudicate => Did("adjudicate")
  /\ ~partial /\ PastRefuter => Ruled
  /\ out["exec"].status = "complete" =>
       Ended /\ Hunted /\ Did("verify") /\ Did("adjudicate") /\ Ruled

(* What a blocking tier rests on.                                              *)

CheckedInv ==
  /\ caller \in {"grace", "writing"} => fired
  /\ pc \in Legs \cup {"validated", "finish"} => (configured <=> Wants("refuter"))
  /\ found # "nothing" => (configured <=> Wants("refuter"))
  /\ PastRefuter /\ Wants("refuter") /\ found # "nothing" /\ verdict = "not_submitted" => fired
  /\ \A w \in Writers : out[w].tier = "blocking" /\ Wants("refuter") => verdict # "not_submitted"

-----------------------------------------------------------------------------
\* The steps of execute() before finish() leave the snapshot and the caller alone.
LegStep ==
  \/ Validate \/ Prepared \/ Throws
  \/ \E leg \in GatedLegs : Admit(leg) \/ Pass(leg)
  \/ \E leg \in GatedLegs \cup {"warmup"} : Spawn(leg)
  \/ \E leg \in GatedLegs : JoinLeg(leg)
  \/ AdmitHunters \/ HuntersComposed \/ AdmitWarmup \/ JoinWarmup
  \/ FanOut \/ JoinHunters \/ JoinRefuter \/ JoinJudge

LEMMA LegStepQuiet ==
  ASSUME TypeOK, LegStep
  PROVE  /\ UNCHANGED <<config, fired, out, latch, disk, caller>>
         /\ pc \notin {"finish", "writing", "ok", "err"}
         /\ pc' \notin {"writing", "ok"}
<1> USE DEF findings, result
<1>1. CASE Validate \/ Prepared \/ Throws
  BY <1>1 DEF Validate, Prepared, Throws, ToLegs
<1>2. ASSUME NEW leg \in GatedLegs, Admit(leg)
      PROVE  /\ UNCHANGED <<config, fired, out, latch, disk, caller>>
             /\ pc \notin {"finish", "writing", "ok", "err"}
             /\ pc' \notin {"writing", "ok"}
  BY <1>2 DEF Admit, GatedLegs
<1>3. ASSUME NEW leg \in GatedLegs, Pass(leg) \/ JoinLeg(leg)
      PROVE  /\ UNCHANGED <<config, fired, out, latch, disk, caller>>
             /\ pc \notin {"finish", "writing", "ok", "err"}
             /\ pc' \notin {"writing", "ok"}
  <2>1. After[leg] \notin {"writing", "ok"}
    BY DEF After, GatedLegs
  <2> QED
    BY <1>3, <2>1 DEF Pass, JoinLeg, ToLegs, GatedLegs
<1>4. ASSUME NEW leg \in GatedLegs \cup {"warmup"}, Spawn(leg)
      PROVE  /\ UNCHANGED <<config, fired, out, latch, disk, caller>>
             /\ pc \notin {"finish", "writing", "ok", "err"}
             /\ pc' \notin {"writing", "ok"}
  BY <1>4 DEF Spawn, GatedLegs
<1>5. CASE AdmitHunters \/ HuntersComposed \/ AdmitWarmup \/ JoinWarmup
  BY <1>5 DEF AdmitHunters, HuntersComposed, AdmitWarmup, JoinWarmup, ToLegs
<1>6. CASE FanOut \/ JoinHunters
  BY <1>6 DEF FanOut, JoinHunters, ToLegs
<1>7. CASE JoinRefuter \/ JoinJudge
  BY <1>7 DEF JoinRefuter, JoinJudge, ToLegs, After
<1> QED
  BY <1>1, <1>2, <1>3, <1>4, <1>5, <1>6, <1>7 DEF LegStep

LEMMA NextCases ==
  ASSUME [Next]_vars
  PROVE  \/ LegStep \/ GotchasUnusable \/ ExecFinish \/ ExecWrites
         \/ Fire \/ ExecWins \/ GraceOver \/ CeilingWrites
         \/ UNCHANGED vars
BY DEF Next, LegStep, Over

LEMMA SnapshotOfAWriter ==
  ASSUME NEW w \in Writers, NEW status
  PROVE  [by |-> w, status |-> status] # NoSnapshot
<1>1. [by |-> w, status |-> status].by # NoSnapshot.by
  BY DEF Writers, NoSnapshot
<1> QED
  BY <1>1

LEMMA SnapshotInit == Init => SnapshotInv
BY DEF Init, SnapshotInv

LEMMA SnapshotStep == TypeOK /\ SnapshotInv /\ [Next]_vars => SnapshotInv'
<1> SUFFICES ASSUME TypeOK, SnapshotInv, [Next]_vars PROVE SnapshotInv'
  OBVIOUS
<1> USE DEF SnapshotInv, findings, result
<1>1. CASE LegStep
  BY <1>1, LegStepQuiet
<1>2. CASE GotchasUnusable
  BY <1>2 DEF GotchasUnusable, Finish
<1>3. CASE ExecFinish
  BY <1>3 DEF ExecFinish, Finish
<1>4. CASE ExecWrites
  <2>1. PICK landed \in BOOLEAN : WriteEnds("exec", landed) /\ pc' = IF landed THEN "ok" ELSE "err"
    BY <1>4 DEF ExecWrites
  <2>2. pc = "writing" /\ caller' = caller /\ caller # "writing"
    BY <1>4 DEF ExecWrites
  <2>3. landed => disk' # NoSnapshot /\ latch'
    BY <2>1, <2>2, SnapshotOfAWriter DEF WriteEnds, Writers
  <2>4. ~landed => disk' = NoSnapshot /\ ~latch'
    BY <2>1, <2>2 DEF WriteEnds
  <2> QED
    BY <2>1, <2>2, <2>3, <2>4
<1>5. CASE Fire
  BY <1>5 DEF Fire
<1>6. CASE ExecWins
  BY <1>6 DEF ExecWins, Settled
<1>7. CASE GraceOver
  BY <1>7 DEF GraceOver, Finish
<1>8. CASE CeilingWrites
  <2>1. PICK landed \in BOOLEAN :
          WriteEnds("ceiling", landed) /\ caller' = IF landed THEN "ok" ELSE "threw"
    BY <1>8 DEF CeilingWrites
  <2>2. caller = "writing" /\ pc' = pc /\ pc # "writing"
    BY <1>8 DEF CeilingWrites
  <2>3. landed => disk' # NoSnapshot /\ latch'
    BY <2>1, <2>2, SnapshotOfAWriter DEF WriteEnds, Writers
  <2>4. ~landed => disk' = NoSnapshot /\ ~latch'
    BY <2>1, <2>2 DEF WriteEnds
  <2> QED
    BY <2>1, <2>2, <2>3, <2>4
<1>9. CASE UNCHANGED vars
  BY <1>9 DEF vars
<1> QED
  BY NextCases, <1>1, <1>2, <1>3, <1>4, <1>5, <1>6, <1>7, <1>8, <1>9

LEMMA SnapshotAlways == Spec => [](TypeOK /\ SnapshotInv)
BY TypeInit, TypeStep, SnapshotInit, SnapshotStep, PTL DEF Spec

\* Whatever is on disk stays: a writer in its write found nothing there, and no
\* other step touches the file.
THEOREM SnapshotStays == Spec => FirstSnapshotStays
<1>1. TypeOK /\ SnapshotInv /\ [Next]_vars => [disk # NoSnapshot => UNCHANGED disk]_vars
  <2> SUFFICES ASSUME TypeOK, SnapshotInv, [Next]_vars, disk # NoSnapshot
               PROVE  UNCHANGED disk
    OBVIOUS
  <2>1. CASE LegStep
    BY <2>1, LegStepQuiet
  <2>2. CASE GotchasUnusable \/ ExecFinish
    BY <2>2 DEF GotchasUnusable, ExecFinish
  <2>3. CASE ExecWrites \/ CeilingWrites
    BY <2>3 DEF ExecWrites, CeilingWrites, SnapshotInv
  <2>4. CASE Fire \/ ExecWins \/ GraceOver
    BY <2>4 DEF Fire, ExecWins, GraceOver
  <2>5. CASE UNCHANGED vars
    BY <2>5 DEF vars
  <2> QED
    BY NextCases, <2>1, <2>2, <2>3, <2>4, <2>5
<1> QED
  BY <1>1, SnapshotAlways, PTL DEF Spec, FirstSnapshotStays

\* Each of the three ways runPipeline returns leaves the snapshot on disk, or
\* execute() in its write.
THEOREM ReturnsWithSnapshot == Spec => ReturnedWithSnapshot
<1>1. TypeOK /\ SnapshotInv /\ [Next]_vars =>
        [caller # "ok" /\ caller' = "ok" => disk' # NoSnapshot \/ pc = "writing"]_vars
  <2> SUFFICES ASSUME TypeOK, SnapshotInv, [Next]_vars, caller # "ok", caller' = "ok"
               PROVE  disk' # NoSnapshot \/ pc = "writing"
    OBVIOUS
  <2>1. CASE LegStep
    BY <2>1, LegStepQuiet
  <2>2. CASE GotchasUnusable \/ ExecFinish \/ ExecWrites \/ Fire
    BY <2>2 DEF GotchasUnusable, ExecFinish, ExecWrites, Fire
  <2>3. CASE ExecWins
    BY <2>3 DEF ExecWins, SnapshotInv
  <2>4. CASE GraceOver
    BY <2>4 DEF GraceOver, Finish, SnapshotInv
  <2>5. CASE CeilingWrites
    BY <2>5, SnapshotOfAWriter DEF CeilingWrites, WriteEnds, Writers
  <2>6. CASE UNCHANGED vars
    BY <2>6 DEF vars
  <2> QED
    BY NextCases, <2>1, <2>2, <2>3, <2>4, <2>5, <2>6
<1> QED
  BY <1>1, SnapshotAlways, PTL DEF Spec, ReturnedWithSnapshot

-----------------------------------------------------------------------------
(* Late starts.                                                              *)

LEMMA LateInit == Init => LateInv
BY DEF Init, LateInv, LateLegs

\* Sessions that start while a leg is composed, or the hunters': what is late
\* afterwards is one leg, if nothing was late before.
LEMMA StartedLate ==
  ASSUME TypeOK, LateInv, NEW S \in SUBSET Options, Start(S), LateLegs = {},
         UNCHANGED <<config, fired>>,
         \E leg \in Options : S \ {"summarizer"} \subseteq {leg}
  PROVE  /\ config.shared' => late' = {}
         /\ late' # {} => fired'
         /\ LateLegs' = {} \/ \E leg \in Options : LateLegs' = {leg}
<1>1. PICK leg \in Options : S \ {"summarizer"} \subseteq {leg}
  OBVIOUS
<1>2. /\ late' # {} => fired'
      /\ config.shared' => late' = {}
  BY DEF Start, LateInv
<1>3. late' = late \/ late' = late \cup S
  BY DEF Start
<1>4. LateLegs' \subseteq {leg}
  BY <1>1, <1>3 DEF LateLegs
<1> QED
  BY <1>2, <1>4

\* A step that starts nothing keeps the invariant when it composes nothing late
\* and brings no admitted hunters to a late gate.
LEMMA NothingStarted ==
  ASSUME LateInv, UNCHANGED <<config, late>>, fired => fired',
         LateLegs # {} /\ pc' \in Legs => stage' # "compose",
         LateLegs # {} /\ pc' \in {"warmup", "fanout"} /\ hunt' = "admitted" => stage' = "run",
         pc' \in {"prepare", "validated", "scout"} \/ (pc' = "hunters" /\ stage' = "gate") =>
           hunt' = "none"
  PROVE  LateInv'
BY DEF LateInv, LateLegs

LEMMA LateStep == TypeOK /\ LateInv /\ [Next]_vars => LateInv'
<1> SUFFICES ASSUME TypeOK, LateInv, [Next]_vars PROVE LateInv'
  OBVIOUS
<1> USE DEF findings, result
<1>0. LateLegs # {} => fired
  BY DEF LateInv, LateLegs
<1>1. CASE GotchasUnusable \/ Validate \/ Prepared \/ Throws
  BY <1>1, NothingStarted
     DEF GotchasUnusable, Finish, Validate, Prepared, Throws, ToLegs, LateInv, Legs, GatedLegs
<1>2. ASSUME NEW leg \in GatedLegs, Admit(leg)
      PROVE  LateInv'
  BY <1>0, <1>2, NothingStarted DEF Admit, LateInv, GatedLegs
<1>3. ASSUME NEW leg \in GatedLegs, Pass(leg) \/ JoinLeg(leg)
      PROVE  LateInv'
  <2>1. /\ pc' = After[leg] /\ stage' = "gate" /\ pc = leg
        /\ UNCHANGED <<config, hunt, late, fired>>
    BY <1>3 DEF Pass, JoinLeg, ToLegs
  <2>2. pc' \notin {"prepare", "validated", "scout", "warmup", "fanout"}
    BY <2>1 DEF After, GatedLegs
  <2>3. pc' = "hunters" => hunt = "none"
    BY <2>1 DEF After, GatedLegs, LateInv
  <2> QED
    BY <2>1, <2>2, <2>3, NothingStarted
<1>4. ASSUME NEW leg \in GatedLegs \cup {"warmup"}, Spawn(leg)
      PROVE  LateInv'
  <2>1. /\ pc = leg /\ pc' = leg /\ stage = "compose" /\ stage' = "run"
        /\ UNCHANGED <<config, hunt, fired>> /\ Start({leg})
    BY <1>4 DEF Spawn
  <2>2. leg \in Options /\ leg \in Legs
    BY DEF GatedLegs, Options, Legs
  <2>3. LateLegs = {}
    BY <2>1, <2>2 DEF LateInv
  <2>4. /\ config.shared' => late' = {}
        /\ late' # {} => fired'
        /\ LateLegs' = {} \/ \E l \in Options : LateLegs' = {l}
    BY <2>1, <2>2, <2>3, StartedLate
  <2> QED
    BY <2>1, <2>4 DEF LateInv
<1>5. CASE AdmitHunters
  BY <1>0, <1>5, NothingStarted DEF AdmitHunters, ToLegs, LateInv
<1>6. CASE HuntersComposed
  <2>1. LateLegs = {}
    BY <1>6 DEF HuntersComposed, LateInv, Legs
  <2> QED
    BY <1>6, <2>1, NothingStarted DEF HuntersComposed, ToLegs, LateInv
<1>7. CASE AdmitWarmup
  BY <1>0, <1>7, NothingStarted DEF AdmitWarmup, ToLegs, LateInv
<1>8. CASE JoinWarmup
  BY <1>0, <1>8, NothingStarted DEF JoinWarmup, ToLegs, LateInv
<1>9. CASE FanOut
  <2> DEFINE S == (IF hunt = "admitted" THEN {"hunters"} ELSE {})
                  \cup (IF hunt # "none" /\ Wants("summarizer") THEN {"summarizer"} ELSE {})
  <2>1. /\ pc = "fanout" /\ pc' = "fanout" /\ stage = "gate" /\ stage' = "run"
        /\ UNCHANGED <<config, hunt, fired>> /\ Start(S)
    BY <1>9 DEF FanOut
  <2>2. S \in SUBSET Options /\ S \ {"summarizer"} \subseteq {"hunters"}
    BY DEF Options
  <2>3. CASE LateLegs = {}
    <3>1. /\ config.shared' => late' = {}
          /\ late' # {} => fired'
          /\ LateLegs' = {} \/ \E l \in Options : LateLegs' = {l}
      BY <2>1, <2>2, <2>3, StartedLate DEF Options
    <3> QED
      BY <2>1, <3>1 DEF LateInv
  <2>4. CASE LateLegs # {}
    <3>1. hunt # "admitted" /\ fired
      BY <1>0, <2>1, <2>4 DEF LateInv
    <3>2. LateLegs' = LateLegs
      BY <2>1, <3>1 DEF Start, LateLegs
    <3>3. config.shared => late' = late
      BY <2>1, <3>1 DEF Start
    <3> QED
      BY <2>1, <2>4, <3>1, <3>2, <3>3 DEF LateInv
  <2> QED
    BY <2>3, <2>4
<1>10. CASE JoinHunters \/ JoinJudge
  <2>1. pc' \in {"verify", "finish"} /\ stage' = "gate" /\ UNCHANGED <<config, late, fired>>
    BY <1>10 DEF JoinHunters, JoinJudge, ToLegs
  <2> QED
    BY <2>1, NothingStarted
<1>11. CASE JoinRefuter
  BY <1>11, NothingStarted DEF JoinRefuter, ToLegs, After
<1>12. CASE ExecFinish
  BY <1>12, NothingStarted DEF ExecFinish, Finish, Legs, GatedLegs
<1>13. CASE ExecWrites
  BY <1>13, NothingStarted DEF ExecWrites, Legs, GatedLegs
<1>14. CASE Fire \/ ExecWins \/ GraceOver \/ CeilingWrites
  BY <1>14, NothingStarted DEF Fire, ExecWins, GraceOver, CeilingWrites, LateInv
<1>15. CASE UNCHANGED vars
  BY <1>15, NothingStarted DEF vars, LateInv
<1> QED
  BY <1>1, <1>2, <1>3, <1>4, <1>5, <1>6, <1>7, <1>8, <1>9, <1>10, <1>11, <1>12,
     <1>13, <1>14, <1>15 DEF Next, Over

\* Nothing starts late under a shared controller, and otherwise at most the one
\* leg that was being composed when the ceiling fired.
THEOREM NothingNew == Spec => []NothingNewIsStarted
<1>1. LateInv => NothingNewIsStarted
  <2> SUFFICES ASSUME LateInv PROVE Cardinality(LateLegs) <= 1
    BY DEF LateInv, LateLegs, NothingNewIsStarted
  <2>1. CASE LateLegs = {}
    BY <2>1, FS_EmptySet
  <2>2. CASE \E leg \in Options : LateLegs = {leg}
    <3>1. PICK leg \in Options : LateLegs = {leg}
      BY <2>2
    <3>2. Cardinality({leg}) = 1
      BY FS_Singleton
    <3> QED
      BY <3>1, <3>2
  <2> QED
    BY <2>1, <2>2 DEF LateInv
<1> QED
  BY <1>1, TypeInit, TypeStep, LateInit, LateStep, PTL DEF Spec

-----------------------------------------------------------------------------
(* Complete answers.                                                         *)

LEMMA ToldInit == Init => ToldInv
BY DEF Init, ToldInv, NoOutput, Writers, PastHunters, PastVerify, PastAdjudicate, PastRefuter

\* The conjuncts about what a run in its legs has done.
Progress ==
  /\ ~partial /\ pc \in {"warmup", "fanout"} /\ Wants("hunters") => hunt = "admitted"
  /\ ~partial /\ pc = "hunters" /\ stage = "compose" => hunt = "admitted"
  /\ ~partial /\ pc = "fanout" /\ stage = "run" => Hunted
  /\ ~partial /\ PastHunters => Hunted
  /\ ~partial /\ PastVerify => Did("verify")
  /\ ~partial /\ PastAdjudicate => Did("adjudicate")
  /\ ~partial /\ PastRefuter => Ruled

LEMMA ProgressOfALeg ==
  ASSUME TypeOK, ToldInv, LegStep
  PROVE  Progress' /\ (fired' => partial')
<1> USE DEF findings, result, PastHunters, PastVerify, PastAdjudicate, PastRefuter
<1>0. (fired => partial) /\ Progress
  BY DEF ToldInv, Progress
<1>1. CASE Validate \/ Prepared \/ Throws
  BY <1>0, <1>1 DEF Validate, Prepared, Throws, ToLegs, Progress
<1>2. ASSUME NEW leg \in GatedLegs, Admit(leg)
      PROVE  Progress' /\ (fired' => partial')
  BY <1>0, <1>2 DEF Admit, Progress, Hunted, Did, Ruled, Work, Wants, GatedLegs
<1>3. ASSUME NEW leg \in GatedLegs, Pass(leg)
      PROVE  Progress' /\ (fired' => partial')
  <2>1. /\ pc = leg /\ pc' = After[leg] /\ stage' = "gate"
        /\ UNCHANGED <<config, hunt, started, fired, found, ruled>>
        /\ partial => partial'
    BY <1>3 DEF Pass, ToLegs
  <2>2. leg \in {"verify", "adjudicate", "refuter"} => partial' \/ ~Work(leg)
    BY <1>3 DEF Pass
  <2>3. fired' => partial'
    BY <1>0, <2>1
  <2>4. CASE leg = "scout"
    BY <2>1, <2>3, <2>4 DEF Progress, After
  <2>5. CASE leg = "verify"
    BY <1>0, <2>1, <2>2, <2>3, <2>5 DEF Progress, After, Hunted, Did, Work, Wants
  <2>6. CASE leg = "adjudicate"
    BY <1>0, <2>1, <2>2, <2>3, <2>6 DEF Progress, After, Hunted, Did, Work, Wants
  <2>7. CASE leg = "refuter"
    BY <1>0, <2>1, <2>2, <2>3, <2>7 DEF Progress, After, Hunted, Did, Ruled, Work, Wants
  <2>8. CASE leg \in {"consolidate", "materiality"}
    BY <1>0, <2>1, <2>3, <2>8 DEF Progress, After, Hunted, Did, Ruled, Work, Wants
  <2> QED
    BY <2>4, <2>5, <2>6, <2>7, <2>8 DEF GatedLegs
<1>4. ASSUME NEW leg \in GatedLegs \cup {"warmup"}, Spawn(leg)
      PROVE  Progress' /\ (fired' => partial')
  <2>1. started \subseteq started'
    BY <1>4 DEF Spawn, Start
  <2> QED
    BY <1>0, <1>4, <2>1 DEF Spawn, Progress, Hunted, Did, Ruled, Work, Wants, GatedLegs
<1>5. ASSUME NEW leg \in GatedLegs, JoinLeg(leg)
      PROVE  Progress' /\ (fired' => partial')
  <2>1. /\ pc = leg /\ pc' = After[leg] /\ stage' = "gate"
        /\ UNCHANGED <<config, hunt, started, fired, found, ruled>>
        /\ partial => partial'
    BY <1>5 DEF JoinLeg, ToLegs
  <2>2. leg \in {"verify", "adjudicate"} => partial' \/ leg \in started
    BY <1>5 DEF JoinLeg
  <2>3. fired' => partial'
    BY <1>0, <2>1
  <2>4. leg \in {"scout", "consolidate", "verify", "adjudicate"}
    BY <1>5 DEF JoinLeg
  <2>5. CASE leg = "scout"
    BY <2>1, <2>3, <2>5 DEF Progress, After
  <2>6. CASE leg = "verify"
    BY <1>0, <2>1, <2>2, <2>3, <2>6 DEF Progress, After, Hunted, Did, Work, Wants
  <2>7. CASE leg = "adjudicate"
    BY <1>0, <2>1, <2>2, <2>3, <2>7 DEF Progress, After, Hunted, Did, Work, Wants
  <2>8. CASE leg = "consolidate"
    BY <1>0, <2>1, <2>3, <2>8 DEF Progress, After, Hunted, Did, Ruled, Work, Wants
  <2> QED
    BY <2>4, <2>5, <2>6, <2>7, <2>8
<1>6. CASE AdmitHunters
  BY <1>0, <1>6 DEF AdmitHunters, ToLegs, Progress, Wants
<1>7. CASE HuntersComposed
  BY <1>0, <1>7 DEF HuntersComposed, ToLegs, Progress
<1>8. CASE AdmitWarmup
  BY <1>0, <1>8 DEF AdmitWarmup, ToLegs, Progress, Wants
<1>9. CASE JoinWarmup
  BY <1>0, <1>9 DEF JoinWarmup, ToLegs, Progress, Wants
<1>10. CASE FanOut
  <2>1. /\ pc = "fanout" /\ pc' = "fanout"
        /\ UNCHANGED <<config, hunt, fired, partial>>
    BY <1>10 DEF FanOut
  <2>2. ~fired /\ hunt = "admitted" => "hunters" \in started'
    BY <1>10 DEF FanOut, Start
  <2> QED
    BY <1>0, <2>1, <2>2 DEF Progress, Hunted, Wants
<1>11. CASE JoinHunters
  <2>1. /\ pc = "fanout" /\ stage = "run" /\ pc' = "verify" /\ UNCHANGED <<config, started, fired>>
        /\ partial => partial'
    BY <1>11 DEF JoinHunters, ToLegs
  <2> QED
    BY <1>0, <2>1 DEF Progress, Hunted, Wants
<1>12. CASE JoinRefuter
  <2>1. /\ pc = "refuter" /\ pc' = "consolidate"
        /\ UNCHANGED <<config, started, fired, found>>
        /\ (partial => partial') /\ (partial' \/ ruled')
    BY <1>12 DEF JoinRefuter, ToLegs, After
  <2> QED
    BY <1>0, <2>1 DEF Progress, Hunted, Did, Ruled, Work, Wants
<1>13. CASE JoinJudge
  BY <1>0, <1>13 DEF JoinJudge, ToLegs, Progress, Hunted, Did, Ruled, Work, Wants
<1> QED
  BY <1>1, <1>2, <1>3, <1>4, <1>5, <1>6, <1>7, <1>8, <1>9, <1>10, <1>11, <1>12,
     <1>13 DEF LegStep

\* The conjunct about a complete answer of execute().
CompleteRestsOn ==
  out["exec"].status = "complete" =>
    Ended /\ Hunted /\ Did("verify") /\ Did("adjudicate") /\ Ruled

LEMMA ToldStep == TypeOK /\ ToldInv /\ [Next]_vars => ToldInv'
<1> SUFFICES ASSUME TypeOK, ToldInv, [Next]_vars PROVE ToldInv'
  OBVIOUS
<1> USE DEF findings, result
<1>0. /\ Progress
      /\ fired => partial
      /\ caller = "racing" => ~fired
      /\ caller \in {"grace", "writing"} => fired
      /\ fired /\ caller \in {"writing", "ok"} => out["ceiling"].status = "partial"
      /\ CompleteRestsOn
  BY DEF ToldInv, Progress, CompleteRestsOn
<1>a. SUFFICES /\ Progress'
               /\ fired' => partial'
               /\ caller' = "racing" => ~fired'
               /\ caller' \in {"grace", "writing"} => fired'
               /\ fired' /\ caller' \in {"writing", "ok"} => out'["ceiling"].status = "partial"
               /\ CompleteRestsOn'
  BY DEF ToldInv, Progress, CompleteRestsOn
<1>1. CASE LegStep
  BY <1>0, <1>1, LegStepQuiet, ProgressOfALeg DEF CompleteRestsOn, Ended
<1>b. ASSUME pc' \in {"writing", "ok", "err"}
      PROVE  Progress'
  BY <1>b DEF Progress, PastHunters, PastVerify, PastAdjudicate, PastRefuter
<1>2. CASE GotchasUnusable
  <2>1. /\ pc' \in {"writing", "ok"} /\ out'["exec"].status = "partial"
        /\ out'["ceiling"] = out["ceiling"]
        /\ UNCHANGED <<fired, partial, caller>>
    BY <1>2 DEF GotchasUnusable, Finish, TypeOK, Writers
  <2> QED
    BY <1>0, <1>b, <2>1 DEF CompleteRestsOn
<1>3. CASE ExecFinish
  <2>1. /\ pc = "finish" /\ pc' \in {"writing", "ok"}
        /\ out'["exec"] = Output /\ out'["ceiling"] = out["ceiling"]
        /\ UNCHANGED <<config, started, found, ruled, fired, partial, caller>>
    BY <1>3 DEF ExecFinish, Finish, TypeOK, Writers
  <2>2. out'["exec"].status = "complete" => ~partial
    BY <2>1 DEF Output
  <2>3. CompleteRestsOn'
    BY <1>0, <2>1, <2>2
       DEF CompleteRestsOn, Progress, PastHunters, PastVerify, PastAdjudicate, PastRefuter,
           Ended, Hunted, Did, Ruled, Work, Wants
  <2> QED
    BY <1>0, <1>b, <2>1, <2>3
<1>4. CASE ExecWrites
  <2>1. /\ pc' \in {"ok", "err"}
        /\ UNCHANGED <<config, started, found, ruled, fired, partial, caller, out>>
    BY <1>4 DEF ExecWrites
  <2> QED
    BY <1>0, <1>b, <2>1 DEF CompleteRestsOn, Ended, Hunted, Did, Ruled, Work, Wants
<1>5. CASE Fire
  <2>1. /\ fired' /\ partial' /\ caller' = "grace"
        /\ UNCHANGED <<config, pc, started, found, ruled, out>>
    BY <1>5 DEF Fire
  <2>2. Progress'
    BY <2>1 DEF Progress
  <2> QED
    BY <1>0, <2>1, <2>2 DEF CompleteRestsOn, Ended, Hunted, Did, Ruled, Work, Wants
<1>6. ASSUME UNCHANGED <<config, pc, stage, hunt, started, found, ruled, fired, partial>>
      PROVE  Progress' /\ (out'["exec"] = out["exec"] => CompleteRestsOn')
  BY <1>0, <1>6
     DEF Progress, CompleteRestsOn, PastHunters, PastVerify, PastAdjudicate, PastRefuter,
         Ended, Hunted, Did, Ruled, Work, Wants
<1>7. CASE ExecWins
  <2>1. /\ UNCHANGED <<config, pc, stage, hunt, started, found, ruled, fired, partial, out>>
        /\ caller = "racing" /\ caller' \in {"ok", "threw"}
    BY <1>7 DEF ExecWins
  <2>2. ~fired'
    BY <1>0, <2>1
  <2>3. Progress' /\ CompleteRestsOn'
    BY <1>6, <2>1
  <2> QED
    BY <2>1, <2>2, <2>3
<1>8. CASE GraceOver
  <2>1. /\ UNCHANGED <<config, pc, stage, hunt, started, found, ruled, fired, partial>>
        /\ caller = "grace" /\ out'["exec"] = out["exec"] /\ out'["ceiling"] = Output
    BY <1>8 DEF GraceOver, Finish, TypeOK, Writers
  <2>2. out'["ceiling"].status = "partial"
    BY <1>0, <2>1 DEF Output
  <2>3. Progress' /\ CompleteRestsOn'
    BY <1>6, <2>1
  <2>4. fired' /\ partial' /\ caller' \in {"ok", "writing"}
    BY <1>0, <1>8, <2>1 DEF GraceOver, Finish
  <2> QED
    BY <2>2, <2>3, <2>4
<1>9. CASE CeilingWrites
  <2>1. /\ UNCHANGED <<config, pc, stage, hunt, started, found, ruled, fired, partial, out>>
        /\ caller = "writing" /\ caller' \in {"ok", "threw"}
    BY <1>9 DEF CeilingWrites
  <2>2. Progress' /\ CompleteRestsOn'
    BY <1>6, <2>1
  <2>3. out'["ceiling"].status = "partial" /\ fired' /\ partial'
    BY <1>0, <2>1
  <2> QED
    BY <2>1, <2>2, <2>3
<1>10. CASE UNCHANGED vars
  BY <1>0, <1>6, <1>10 DEF vars
<1> QED
  BY NextCases, <1>1, <1>2, <1>3, <1>4, <1>5, <1>7, <1>8, <1>9, <1>10

\* A run that calls itself complete was not cut, started every leg it was asked
\* for, and heard the refuter on its severe finding.
THEOREM CompleteMeansComplete == Spec => []TruncationIsTold
<1>1. ToldInv => TruncationIsTold
  <2> SUFFICES ASSUME ToldInv, caller = "ok", Answer.status = "complete"
               PROVE  /\ ~fired /\ Hunted /\ Ruled
                      /\ Did("verify") /\ Did("adjudicate")
    BY DEF TruncationIsTold, Hunted, Ruled, Did, Wants, Work
  <2>1. ~fired
    BY DEF ToldInv, Answer
  <2>2. out["exec"].status = "complete"
    BY <2>1 DEF Answer
  <2> QED
    BY <2>1, <2>2 DEF ToldInv
<1> QED
  BY <1>1, TypeInit, TypeStep, ToldInit, ToldStep, PTL DEF Spec

-----------------------------------------------------------------------------
(* Blocking answers.                                                         *)

LEMMA CheckedInit == Init => CheckedInv
BY DEF Init, CheckedInv, NoOutput, Legs, GatedLegs, PastRefuter

\* A tier that blocks without a word of the refuter: the run has no refuter, or
\* it fired too early to know that.
LEMMA BlockingTier ==
  ASSUME Tier = "blocking", verdict = "not_submitted"
  PROVE  found # "nothing" /\ ~(fired /\ configured)
BY DEF Tier

LEMMA CheckedStep == TypeOK /\ CheckedInv /\ [Next]_vars => CheckedInv'
<1> SUFFICES ASSUME TypeOK, CheckedInv, [Next]_vars PROVE CheckedInv'
  OBVIOUS
<1> USE DEF findings, result
<1>0. /\ caller \in {"grace", "writing"} => fired
      /\ pc \in Legs \cup {"validated", "finish"} => (configured <=> Wants("refuter"))
      /\ found # "nothing" => (configured <=> Wants("refuter"))
      /\ PastRefuter /\ Wants("refuter") /\ found # "nothing" /\ verdict = "not_submitted" => fired
      /\ \A w \in Writers : out[w].tier = "blocking" /\ Wants("refuter") => verdict # "not_submitted"
  BY DEF CheckedInv
<1>1. CASE LegStep
  <2>0. UNCHANGED <<config, fired, out, caller>>
    BY <1>1, LegStepQuiet
  <2>a. ASSUME UNCHANGED <<configured, found, verdict>>,
               pc' \in Legs \cup {"validated", "finish"} =>
                 pc \in Legs \cup {"validated", "finish"},
               PastRefuter' => PastRefuter
        PROVE  CheckedInv'
    BY <1>0, <2>0, <2>a DEF CheckedInv, Wants
  <2>1. CASE Validate
    <3>1. /\ pc' = "validated" /\ (configured' <=> Wants("refuter"))
          /\ UNCHANGED <<found, verdict>>
      BY <2>1 DEF Validate, Wants
    <3> QED
      BY <1>0, <2>0, <3>1 DEF CheckedInv, Wants, Legs, GatedLegs, PastRefuter
  <2>2. CASE Prepared \/ Throws
    BY <2>2, <2>a DEF Prepared, Throws, ToLegs, Legs, GatedLegs, PastRefuter
  <2>3. ASSUME NEW leg \in GatedLegs, Admit(leg)
        PROVE  CheckedInv'
    BY <2>3, <2>a DEF Admit, PastRefuter
  <2>4. ASSUME NEW leg \in GatedLegs \ {"refuter"}, Pass(leg) \/ JoinLeg(leg)
        PROVE  CheckedInv'
    <3>1. pc = leg /\ pc' = After[leg] /\ UNCHANGED <<configured, found, verdict>>
      BY <2>4 DEF Pass, JoinLeg, ToLegs
    <3>2. PastRefuter' => PastRefuter
      BY <3>1 DEF PastRefuter, After, GatedLegs
    <3>3. pc \in Legs
      BY <3>1 DEF Legs
    <3> QED
      BY <3>1, <3>2, <3>3, <2>a
  <2>5. CASE Pass("refuter")
    <3>1. /\ pc = "refuter" /\ pc' = "consolidate" /\ UNCHANGED <<configured, found, verdict>>
          /\ fired \/ ~Work("refuter")
      BY <2>5 DEF Pass, ToLegs, After
    <3>2. Wants("refuter") /\ found # "nothing" => fired
      BY <3>1 DEF Work
    <3> QED
      BY <1>0, <2>0, <3>1, <3>2 DEF CheckedInv, Wants, Legs, GatedLegs
  <2>6. ASSUME NEW leg \in GatedLegs \cup {"warmup"}, Spawn(leg)
        PROVE  CheckedInv'
    BY <2>6, <2>a DEF Spawn, PastRefuter
  <2>7. CASE AdmitHunters \/ HuntersComposed \/ AdmitWarmup \/ JoinWarmup \/ FanOut
    <3>1. /\ pc \in {"hunters", "warmup", "fanout"} /\ pc' \in {"hunters", "warmup", "fanout"}
          /\ UNCHANGED <<configured, found, verdict>>
      BY <2>7 DEF AdmitHunters, HuntersComposed, AdmitWarmup, JoinWarmup, FanOut, ToLegs
    <3> QED
      BY <2>a, <3>1 DEF Legs, PastRefuter
  <2>8. CASE JoinHunters
    <3>1. pc = "fanout" /\ pc' = "verify" /\ UNCHANGED <<configured, verdict>>
      BY <2>8 DEF JoinHunters, ToLegs
    <3> QED
      BY <1>0, <2>0, <3>1 DEF CheckedInv, Wants, Legs, PastRefuter
  <2>9. CASE JoinRefuter
    <3>1. /\ pc = "refuter" /\ UNCHANGED <<configured, found>>
          /\ verdict' # "not_submitted"
      BY <2>9 DEF JoinRefuter, RefuterVerdicts
    <3> QED
      BY <1>0, <2>0, <3>1 DEF CheckedInv, Wants, Legs, GatedLegs
  <2>10. CASE JoinJudge
    BY <2>10, <2>a DEF JoinJudge, ToLegs, Legs, GatedLegs, PastRefuter
  <2>11. ~ JoinLeg("refuter")
    BY DEF JoinLeg
  <2> QED
    BY <1>1, <2>1, <2>2, <2>3, <2>4, <2>5, <2>6, <2>7, <2>8, <2>9, <2>10, <2>11 DEF LegStep
<1>b. ASSUME UNCHANGED <<config, configured, found, verdict>>,
             fired => fired',
             caller' \in {"grace", "writing"} => fired',
             pc' \in Legs \cup {"validated", "finish"} => pc' = pc,
             PastRefuter' => PastRefuter,
             \A w \in Writers : out'[w].tier = "blocking" /\ Wants("refuter") =>
               verdict # "not_submitted"
      PROVE  CheckedInv'
  BY <1>0, <1>b DEF CheckedInv, Wants
<1>2. CASE GotchasUnusable
  <2>1. \A w \in Writers : out'[w].tier = "none" \/ out'[w] = out[w]
    BY <1>2 DEF GotchasUnusable, Finish, TypeOK, Writers
  <2>2. /\ pc' \in {"writing", "ok"}
        /\ UNCHANGED <<config, configured, found, verdict, fired, caller>>
    BY <1>2 DEF GotchasUnusable, Finish
  <2> QED
    BY <1>0, <1>b, <2>1, <2>2 DEF Legs, GatedLegs, PastRefuter
<1>3. CASE ExecFinish
  <2>1. /\ pc = "finish" /\ pc' \in {"writing", "ok"}
        /\ UNCHANGED <<config, configured, found, verdict, fired, caller>>
    BY <1>3 DEF ExecFinish, Finish
  <2>2. \A w \in Writers : out'[w] = Output \/ out'[w] = out[w]
    BY <1>3 DEF ExecFinish, Finish, TypeOK, Writers
  <2>3. Tier = "blocking" /\ Wants("refuter") => verdict # "not_submitted"
    BY <1>0, <2>1, BlockingTier DEF PastRefuter
  <2>4. Output.tier = Tier
    BY DEF Output
  <2> QED
    BY <1>0, <1>b, <2>1, <2>2, <2>3, <2>4 DEF Legs, GatedLegs, PastRefuter
<1>4. CASE ExecWrites
  BY <1>0, <1>4, <1>b DEF ExecWrites, Legs, GatedLegs, PastRefuter
<1>5. CASE Fire
  BY <1>0, <1>5, <1>b DEF Fire, PastRefuter
<1>6. CASE ExecWins
  BY <1>0, <1>6, <1>b DEF ExecWins, PastRefuter
<1>7. CASE GraceOver
  <2>1. /\ caller = "grace" /\ UNCHANGED <<pc, config, configured, found, verdict, fired>>
    BY <1>7 DEF GraceOver
  <2>2. \A w \in Writers : out'[w] = Output \/ out'[w] = out[w]
    BY <1>7 DEF GraceOver, Finish, TypeOK, Writers
  <2>3. Tier = "blocking" /\ Wants("refuter") => verdict # "not_submitted"
    BY <1>0, <2>1, BlockingTier
  <2>4. Output.tier = Tier
    BY DEF Output
  <2> QED
    BY <1>0, <1>b, <2>1, <2>2, <2>3, <2>4 DEF PastRefuter
<1>8. CASE CeilingWrites
  <2>1. /\ caller = "writing" /\ UNCHANGED <<pc, config, configured, found, verdict, fired, out>>
    BY <1>8 DEF CeilingWrites
  <2> QED
    BY <1>0, <1>b, <2>1 DEF PastRefuter
<1>9. CASE UNCHANGED vars
  BY <1>0, <1>9, <1>b DEF vars, PastRefuter
<1> QED
  BY NextCases, <1>1, <1>2, <1>3, <1>4, <1>5, <1>6, <1>7, <1>8, <1>9

\* A severe finding blocks without the refuter's leg having run for it only
\* when no refuter was asked for.
THEOREM BlockingMeansChecked == Spec => []UncheckedNeverBlocks
<1>1. TypeOK /\ CheckedInv => UncheckedNeverBlocks
  <2> SUFFICES ASSUME TypeOK, CheckedInv, Answer.tier = "blocking", Wants("refuter")
               PROVE  verdict # "not_submitted"
    BY DEF UncheckedNeverBlocks
  <2>1. PICK w \in Writers : Answer = out[w]
    BY DEF Answer, Writers, TypeOK
  <2> QED
    BY <2>1 DEF CheckedInv
<1> QED
  BY <1>1, TypeInit, TypeStep, CheckedInit, CheckedStep, PTL DEF Spec
=============================================================================
