--------------------------- MODULE PipelineCeiling ---------------------------
(***************************************************************************)
(* One run of the review pipeline under its ceiling                        *)
(* (src/src/review/pipeline.ts): execute() goes through its legs, the      *)
(* ceiling may fire at any moment, and the two of them meet in finish(),   *)
(* which tiers the findings and writes the one snapshot.                   *)
(*                                                                         *)
(* A leg is first gated, then composed (it reads and writes files), then   *)
(* its sessions run, then they are joined.  The findings are abstracted to *)
(* one severe survivor, or none.  Sessions may hang.                       *)
(***************************************************************************)
EXTENDS Naturals, FiniteSets

CONSTANT Configs   \* the configurations of a run, a subset of ConfigSpace

Options ==
  {"scout", "hunters", "warmup", "summarizer", "verify", "adjudicate",
   "refuter", "consolidate", "materiality"}

\* What the run was asked for, and whether the ceiling's controller is the one
\* the runner listens to; without it a controller is made up nobody else holds.
ConfigSpace == [wants : SUBSET Options, shared : BOOLEAN]

ASSUME ConfigsAssumption == Configs \subseteq ConfigSpace

VARIABLES
  config,
  pc,          \* the leg execute() is in, or how it ended
  stage,       \* within a leg: at its gate, composing, or with sessions running
  hunt,        \* what became of the hunters: "none", "admitted", "cut" by the ceiling
  started,     \* the legs whose sessions were started
  late,        \* those of them that started after the ceiling fired
  found,       \* the evidence of the severe survivor, or "nothing"
  verdict,     \* what the refuter said of it
  ruled,       \* the refuter did say it: it is not the stand-in for a dead step
  immaterial,  \* the materiality judge demoted it
  fired,       \* state.ceilingFired, and the controller is aborted
  partial,     \* state.partial
  configured,  \* state.refuterConfigured
  latch,       \* state.snapshotWritten
  out,         \* what finish() computed, by writer
  disk,        \* pipeline.json
  caller       \* runPipeline: racing, in the grace, writing, returned or thrown

vars == <<config, pc, stage, hunt, started, late, found, verdict, ruled,
          immaterial, fired, partial, configured, latch, out, disk, caller>>

GatedLegs == {"scout", "verify", "adjudicate", "refuter", "consolidate", "materiality"}
Legs == GatedLegs \cup {"hunters", "warmup", "fanout"}

After ==
  [scout |-> "hunters", hunters |-> "warmup", warmup |-> "fanout",
   fanout |-> "verify", verify |-> "adjudicate", adjudicate |-> "refuter",
   refuter |-> "consolidate", consolidate |-> "materiality",
   materiality |-> "finish"]

Writers == {"exec", "ceiling"}
Evidence == {"deterministic", "inferential"}
RefuterVerdicts == {"corroborated", "refuted", "downgraded-latent", "inconclusive"}
Statuses == {"complete", "partial"}
Tiers == {"none", "advisory", "blocking"}
NoOutput == [status |-> "none", tier |-> "none"]
NoSnapshot == [by |-> "nobody", status |-> "none"]

Init ==
  /\ config \in Configs
  /\ pc = "prepare" /\ stage = "gate" /\ hunt = "none"
  /\ started = {} /\ late = {}
  /\ found = "nothing" /\ verdict = "not_submitted" /\ ruled = FALSE
  /\ immaterial = FALSE
  /\ fired = FALSE /\ partial = FALSE /\ configured = FALSE
  /\ latch = FALSE /\ disk = NoSnapshot
  /\ out = [w \in Writers |-> NoOutput]
  /\ caller = "racing"

Wants(option) == option \in config.wants
Settled == pc \in {"ok", "err"}

findings == <<found, verdict, ruled, immaterial>>
result == <<latch, out, disk, caller>>

-----------------------------------------------------------------------------
(* finish(): tiers, status and the snapshot.                               *)

\* Severe and backed by evidence: what can block at all.
Backed == found = "deterministic" \/ verdict = "corroborated"

\* Mutant: a check the ceiling cut short is not missed.
TierAsSubmitted ==
  IF found = "nothing" \/ verdict = "refuted" THEN "none"
  ELSE IF Backed /\ ~ (verdict = "downgraded-latent" \/ immaterial) THEN "blocking"
  ELSE "advisory"

\* tierFindings, deriveTier and the materiality verdicts, for the survivor.
Tier ==
  LET cutShort == fired /\ configured /\ verdict = "not_submitted"
      lowered  == verdict = "downgraded-latent" \/ immaterial \/ cutShort
  IN  IF found = "nothing" \/ verdict = "refuted" THEN "none"
      ELSE IF Backed /\ ~lowered THEN "blocking"
      ELSE "advisory"

Output == [status |-> IF partial THEN "partial" ELSE "complete", tier |-> Tier]

\* Mutant: the latch closes only when the write has landed.
FinishUnlatched(w, output, skipped, writing) ==
  /\ out' = [out EXCEPT ![w] = output]
  /\ latch' = latch
  /\ IF disk # NoSnapshot THEN skipped ELSE writing

\* finish() and writePipelinePlan up to its await: the latch is closed before
\* the write starts, and a second caller returns without one.
Finish(w, output, skipped, writing) ==
  /\ out' = [out EXCEPT ![w] = output]
  /\ latch' = TRUE
  /\ IF latch THEN skipped ELSE writing

\* Mutant: a failed write keeps the latch.
WriteKeepsLatch(w, landed) ==
  /\ IF landed THEN disk' = [by |-> w, status |-> out[w].status] ELSE disk' = disk
  /\ latch' = latch

\* The write lands, tmp and rename, or it throws and reopens the latch.
WriteEnds(w, landed) ==
  IF landed THEN disk' = [by |-> w, status |-> out[w].status] /\ latch' = latch
            ELSE disk' = disk /\ latch' = FALSE

ExecFinish ==
  /\ pc = "finish"
  /\ Finish("exec", Output, pc' = "ok", pc' = "writing")
  /\ UNCHANGED <<config, stage, hunt, started, late, fired, partial, configured,
                 disk, caller, findings>>

ExecWrites ==
  /\ pc = "writing"
  /\ \E landed \in BOOLEAN :
       /\ WriteEnds("exec", landed)
       /\ pc' = IF landed THEN "ok" ELSE "err"
  /\ UNCHANGED <<config, stage, hunt, started, late, fired, partial, configured,
                 out, caller, findings>>

-----------------------------------------------------------------------------
(* execute(): the way to the legs.                                         *)

ToLegs(next) == pc' = next /\ stage' = "gate"

\* A review-instructions file that cannot be used ends the run before any leg:
\* nothing is found, the run is partial, the plan is written all the same.
GotchasUnusable ==
  /\ pc = "prepare"
  /\ Finish("exec", [status |-> "partial", tier |-> "none"], pc' = "ok", pc' = "writing")
  /\ UNCHANGED <<config, stage, hunt, started, late, fired, partial, configured,
                 disk, caller, findings>>

\* The spec is validated; from here the run knows whether a refuter is owed.
Validate ==
  /\ pc = "prepare"
  /\ pc' = "validated"
  /\ configured' = Wants("refuter")
  /\ UNCHANGED <<config, stage, hunt, started, late, fired, partial, findings, result>>

\* Routes are admitted, the patch is read.
Prepared ==
  /\ pc = "validated"
  /\ ToLegs("scout")
  /\ UNCHANGED <<config, hunt, started, late, fired, partial, configured, findings, result>>

\* What is not caught: validation, route admission, unreadable prompt files and
\* patches, a spend cap passed at the join.
Throws ==
  /\ \/ pc \in {"prepare", "validated"}
     \/ pc \in {"hunters", "verify", "adjudicate", "refuter", "materiality"}
          /\ stage = "compose"
     \/ pc = "fanout" /\ stage = "run"
  /\ pc' = "err"
  /\ UNCHANGED <<config, stage, hunt, started, late, fired, partial, configured,
                 findings, result>>

-----------------------------------------------------------------------------
(* The legs.                                                               *)

\* Whether a leg has anything to run.  Verification and adjudication run as the
\* refuter; the judge is asked about blocking findings only.  A dismissal whose
\* text forges the nonce is never asked about and gives adjudication no work.
Work(leg) ==
  CASE leg \in {"verify", "adjudicate"} -> Wants(leg) /\ Wants("refuter")
    [] leg = "refuter" -> Wants("refuter") /\ found # "nothing"
    [] leg = "materiality" -> Wants(leg) /\ Tier = "blocking"
    [] OTHER -> Wants(leg)

\* ceilingAborted at the head of a leg.
Admit(leg) ==
  /\ pc = leg /\ stage = "gate"
  /\ ~fired /\ Work(leg)
  /\ stage' = "compose"
  /\ UNCHANGED <<config, pc, hunt, started, late, fired, partial, configured,
                 findings, result>>

\* A leg without work, or refused; the two precision passes also stand
\* down when their worst case does not fit before the deadline, and these and
\* the scout when their prompt cannot be composed.  None of that is partial.
Pass(leg) ==
  /\ pc = leg
  /\ \/ stage = "gate" /\ (fired \/ ~Work(leg) \/ leg \in {"consolidate", "materiality"})
     \/ stage = "compose" /\ leg \in {"scout", "consolidate", "materiality"}
  /\ ToLegs(After[leg])
  /\ partial' = (partial \/ (stage = "gate" /\ fired))
  /\ UNCHANGED <<config, hunt, started, late, fired, configured, findings, result>>

\* runner.run for sessions S.  The harness refuses a first attempt when the
\* controller it shares with the ceiling is aborted.
Start(S) ==
  LET T == IF fired /\ config.shared THEN {} ELSE S
  IN  /\ started' = started \cup T
      /\ late' = IF fired THEN late \cup T ELSE late

Spawn(leg) ==
  /\ pc = leg /\ stage = "compose"
  /\ stage' = "run"
  /\ Start({leg})
  /\ UNCHANGED <<config, pc, hunt, fired, partial, configured, findings, result>>

\* The scout and the consolidator never make a run partial; a verification or an
\* adjudication that failed does.
JoinLeg(leg) ==
  /\ leg \in {"scout", "consolidate", "verify", "adjudicate"}
  /\ pc = leg /\ stage = "run"
  /\ \E failed \in BOOLEAN :
       /\ leg \notin started => failed
       /\ partial' = (partial \/ (failed /\ leg \in {"verify", "adjudicate"}))
  /\ ToLegs(After[leg])
  /\ UNCHANGED <<config, hunt, started, late, fired, configured, findings, result>>

\* A refuter step that died, was cancelled or was refused leaves "inconclusive".
JoinRefuter ==
  /\ pc = "refuter" /\ stage = "run"
  /\ \/ /\ "refuter" \in started
        /\ verdict' \in RefuterVerdicts /\ ruled' = TRUE
        /\ UNCHANGED partial
     \/ verdict' = "inconclusive" /\ ruled' = FALSE /\ partial' = TRUE
  /\ ToLegs(After["refuter"])
  /\ UNCHANGED <<config, hunt, started, late, found, immaterial, fired,
                 configured, result>>

\* A judge that fails leaves the finding blocking.
JoinJudge ==
  /\ pc = "materiality" /\ stage = "run"
  /\ immaterial' \in IF "materiality" \in started THEN BOOLEAN ELSE {FALSE}
  /\ ToLegs("finish")
  /\ UNCHANGED <<config, hunt, started, late, found, verdict, ruled, fired,
                 partial, configured, result>>

\* The admission of the hunters, before their prompts are composed.
AdmitHunters ==
  /\ pc = "hunters" /\ stage = "gate"
  /\ IF fired \/ ~Wants("hunters")
       THEN ToLegs("fanout") /\ UNCHANGED hunt
       ELSE pc' = pc /\ stage' = "compose" /\ hunt' = "admitted"
  /\ partial' = (partial \/ fired)
  /\ UNCHANGED <<config, started, late, fired, configured, findings, result>>

HuntersComposed ==
  /\ pc = "hunters" /\ stage = "compose"
  /\ ToLegs("warmup")
  /\ UNCHANGED <<config, hunt, started, late, fired, partial, configured, findings, result>>

\* The shared-prefix warm-up, between the composition and the fan-out.
AdmitWarmup ==
  /\ pc = "warmup" /\ stage = "gate"
  /\ IF Wants("warmup") /\ ~fired
       THEN pc' = pc /\ stage' = "compose"
       ELSE ToLegs("fanout")
  /\ partial' = (partial \/ (Wants("warmup") /\ fired))
  /\ UNCHANGED <<config, hunt, started, late, fired, configured, findings, result>>

\* Mutant: the ceiling is not asked again after the warm-up.
JoinWarmupBlind ==
  /\ pc = "warmup" /\ stage = "run"
  /\ ToLegs("fanout")
  /\ UNCHANGED <<config, hunt, started, late, fired, partial, configured, findings, result>>

\* The warm-up was awaited: the ceiling is asked again, for the hunters.
JoinWarmup ==
  /\ pc = "warmup" /\ stage = "run"
  /\ ToLegs("fanout")
  /\ hunt' = IF fired THEN "cut" ELSE hunt
  /\ partial' = (partial \/ fired)
  /\ UNCHANGED <<config, started, late, fired, configured, findings, result>>

\* The fan-out: the hunters that were not cut, and the summarizer that was
\* composed with them.
FanOut ==
  /\ pc = "fanout" /\ stage = "gate"
  /\ stage' = "run"
  /\ Start((IF hunt = "admitted" THEN {"hunters"} ELSE {})
           \cup (IF hunt # "none" /\ Wants("summarizer") THEN {"summarizer"} ELSE {}))
  /\ UNCHANGED <<config, pc, hunt, fired, partial, configured, findings, result>>

\* The join: drafts come from hunters that delivered, a failed hunter makes the
\* run partial; merge and dedupe follow in the same turn.
JoinHunters ==
  /\ pc = "fanout" /\ stage = "run"
  /\ \E failed \in BOOLEAN, f \in Evidence \cup {"nothing"} :
       /\ "hunters" \notin started => failed = (hunt # "none") /\ f = "nothing"
       /\ found' = f
       /\ partial' = (partial \/ failed)
  /\ ToLegs("verify")
  /\ UNCHANGED <<config, hunt, started, late, verdict, ruled, immaterial, fired,
                 configured, result>>

-----------------------------------------------------------------------------
(* runPipeline: the race, the ceiling and its grace.                       *)

\* Mutant: the ceiling's flags are set by the continuation that observes it.
FireQuiet ==
  /\ caller = "racing" /\ ~Settled
  /\ fired' = TRUE
  /\ caller' = "grace"
  /\ UNCHANGED <<config, pc, stage, hunt, started, late, findings, partial, configured,
                 latch, out, disk>>

\* The timer: the flags, the abort, and runPipeline goes on to the grace, all in
\* one turn.  A run that settled first has cleared it.
Fire ==
  /\ caller = "racing" /\ ~Settled
  /\ fired' = TRUE /\ partial' = TRUE
  /\ caller' = "grace"
  /\ UNCHANGED <<config, pc, stage, hunt, started, late, findings, configured,
                 latch, out, disk>>

\* execute() won the race: its value is returned, its error is rethrown.
ExecWins ==
  /\ caller = "racing" /\ Settled
  /\ caller' = IF pc = "ok" THEN "ok" ELSE "threw"
  /\ UNCHANGED <<config, pc, stage, hunt, started, late, findings, fired, partial,
                 configured, latch, out, disk>>

\* Mutant: the grace has no timer, it waits for execute().
GraceForExec ==
  /\ caller = "grace" /\ Settled
  /\ Finish("ceiling", Output, caller' = "ok", caller' = "writing")
  /\ UNCHANGED <<config, pc, stage, hunt, started, late, findings, fired, partial,
                 configured, disk>>

\* execute() settled, whatever its outcome, or the grace timer fired.
GraceOver ==
  /\ caller = "grace"
  /\ Finish("ceiling", Output, caller' = "ok", caller' = "writing")
  /\ UNCHANGED <<config, pc, stage, hunt, started, late, findings, fired, partial,
                 configured, disk>>

CeilingWrites ==
  /\ caller = "writing"
  /\ \E landed \in BOOLEAN :
       /\ WriteEnds("ceiling", landed)
       /\ caller' = IF landed THEN "ok" ELSE "threw"
  /\ UNCHANGED <<config, pc, stage, hunt, started, late, findings, fired, partial,
                 configured, out>>

\* runPipeline returned and nothing of execute() runs any more.
Over == caller \in {"ok", "threw"} /\ Settled /\ UNCHANGED vars

Next ==
  \/ GotchasUnusable \/ Validate \/ Prepared \/ Throws
  \/ \E leg \in GatedLegs : Admit(leg) \/ Pass(leg)
  \/ \E leg \in GatedLegs \cup {"warmup"} : Spawn(leg)
  \/ \E leg \in GatedLegs : JoinLeg(leg)
  \/ AdmitHunters \/ HuntersComposed \/ AdmitWarmup \/ JoinWarmup
  \/ FanOut \/ JoinHunters \/ JoinRefuter \/ JoinJudge
  \/ ExecFinish \/ ExecWrites
  \/ Fire \/ ExecWins \/ GraceOver \/ CeilingWrites
  \/ Over

Spec == Init /\ [][Next]_vars

\* The two timers fire, file writes end, and continuations run.  Nothing is
\* assumed of the sessions, nor of execute().
FairSpec ==
  Spec /\ WF_vars(Fire) /\ WF_vars(ExecWins) /\ WF_vars(GraceOver)
       /\ WF_vars(CeilingWrites)

-----------------------------------------------------------------------------
TypeOK ==
  /\ config \in Configs
  /\ pc \in Legs \cup {"prepare", "validated", "finish", "writing", "ok", "err"}
  /\ stage \in {"gate", "compose", "run"}
  /\ hunt \in {"none", "admitted", "cut"}
  /\ started \subseteq Options /\ late \subseteq started
  /\ found \in Evidence \cup {"nothing"}
  /\ verdict \in RefuterVerdicts \cup {"not_submitted"}
  /\ ruled \in BOOLEAN /\ immaterial \in BOOLEAN /\ fired \in BOOLEAN
  /\ partial \in BOOLEAN /\ configured \in BOOLEAN /\ latch \in BOOLEAN
  /\ out \in [Writers -> [status : Statuses \cup {"none"}, tier : Tiers]]
  /\ disk \in [by : Writers \cup {"nobody"}, status : Statuses \cup {"none"}]
  /\ caller \in {"racing", "grace", "writing", "ok", "threw"}

\* What runPipeline returned.
Answer == out[IF fired THEN "ceiling" ELSE "exec"]

\* The first snapshot that lands stays: an execute() the grace left running
\* never replaces the ceiling's, nor the ceiling that of execute().
FirstSnapshotStays == [][disk # NoSnapshot => UNCHANGED disk]_vars

\* A run is never handed out without its snapshot: when runPipeline
\* returns, the file is there or the write of execute() is under way.
ReturnedWithSnapshot ==
  [][caller # "ok" /\ caller' = "ok" => disk' # NoSnapshot \/ pc = "writing"]_vars

\* A truncated run says so: one that calls itself complete ended before the
\* ceiling fired, started every leg it was asked for, and had a verdict of the
\* refuter on its severe finding.
TruncationIsTold ==
  caller = "ok" /\ Answer.status = "complete" =>
    /\ ~fired
    /\ Wants("hunters") => "hunters" \in started
    /\ found # "nothing" /\ Wants("refuter") => ruled
    /\ \A leg \in {"verify", "adjudicate"} : Work(leg) => leg \in started

\* After the ceiling fired at most the leg that was being composed still starts,
\* and none when the runner shares the controller.  The summarizer is left out:
\* it is started after a warm-up that the ceiling cut, when nobody else holds
\* the controller.
NothingNewIsStarted ==
  /\ config.shared => late = {}
  /\ Cardinality(late \ {"summarizer"}) <= 1

\* A severe finding blocks without the refuter's leg having run for it only in
\* a run that has no refuter.
UncheckedNeverBlocks ==
  caller = "ok" /\ Answer.tier = "blocking" /\ Wants("refuter") =>
    verdict # "not_submitted"

\* runPipeline always ends: whatever its sessions do, the ceiling and its grace
\* bound it.
AlwaysReturns == <>(caller \in {"ok", "threw"})
==============================================================================
