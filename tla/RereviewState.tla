---------------------------- MODULE RereviewState ----------------------------
(***************************************************************************)
(* What the re-reviews of one PR remember: the findings of the state block *)
(* that the summary comment carries (src/src/rereview/state.ts), from the  *)
(* classification of the priors, through the verification and the gate's   *)
(* count, to the merge and the size cap of the block that is posted.       *)
(*                                                                         *)
(* A finding's location and claim are one value, an issue; two issues lie  *)
(* Near each other when identitiesMatch takes one for the other. A push,   *)
(* the author's triage, the hunters' findings and the verdicts of the      *)
(* models are inputs. One review runs at a time; its post may be lost, or  *)
(* repeated for the same head.                                             *)
(***************************************************************************)
EXTENDS Integers, Sequences, FiniteSets, SequencesExt

CONSTANTS
  Issues,       \* the locations and claims of findings
  Near,         \* pairs of different issues that identitiesMatch matches
  Guarded,      \* the issues isSafetyProtected protects
  Unreadable,   \* the issues whose claim is blank or redacted in the block
  FileOf,       \* the file of each issue
  Kinds,        \* what a hunter's finding may come to
  Markers,      \* the finding comments a PR without a state block may carry
  Tags,         \* the triage an author may leave on a thread
  MaxSurvivors, \* bound: the findings of one review
  MaxPriors,    \* bound: the rows of a block that a review starts from
  MaxVerify,    \* max_verification_steps
  MaxId         \* bound: the highest stable id

Unrecoverable == -1      \* SEVERITY_UNRECOVERABLE, ranked before BLOCKER
Severities == {0, 1, 2}  \* BLOCKER, CRITICAL, WARNING: SEV_RANK
Tiers == {"blocking", "unrecoverable", "advisory"}
Files == {FileOf[i] : i \in Issues}

\* shown is FALSE when post_min_severity hides the finding; it hides no
\* blocking one. A refuted finding leaves the document.
KindType == [sev : Severities, tier : {"blocking", "advisory", "refuted"},
             demoted : BOOLEAN, shown : BOOLEAN]

ASSUME RereviewAssumption ==
  /\ Near \subseteq Issues \X Issues /\ Guarded \subseteq Issues
  /\ Unreadable \subseteq Issues
  /\ Kinds \subseteq KindType
  /\ \A m \in Markers :
       m \in Seq([issue : Issues, sev : Severities \cup {Unrecoverable}, tier : Tiers])
       /\ Len(m) <= MaxId
  /\ \A k \in Kinds : /\ k.tier = "blocking" => k.sev < 2 /\ k.shown
                      /\ k.demoted => k.sev < 2 /\ k.tier = "advisory"
  /\ Tags \subseteq {"none", "reply", "applied_old", "applied_new", "upheld",
                     "ci_upheld", "rejected", "deferred", "misclassified"}
  /\ {MaxSurvivors, MaxPriors, MaxVerify, MaxId} \subseteq Nat

VARIABLES
  block,   \* the summary's state block, or the markers that stand in for it
  run,     \* the review in progress
  issued   \* the highest id any block or re-review has named

vars == <<block, run, issued>>

RowType == [id : 1 .. MaxId, sev : Severities \cup {Unrecoverable},
            tier : Tiers, issue : Issues]
Live == {"carried", "unconfirmed", "suppressed", "deferred"}
Held == {"returned", "suppressed", "deferred", "re-tiered"}

NoRun == [phase |-> "idle"]

Ids(rows) == {rows[i].id : i \in DOMAIN rows}
\* The members of a finite set of numbers, ascending, and the rows at them.
InOrder(S) ==
  [k \in 1 .. Cardinality(S) |-> CHOOSE n \in S : Cardinality({m \in S : m <= n}) = k]
At(rows, S) == LET order == InOrder(S) IN [k \in DOMAIN order |-> rows[order[k]]]
WithStatus(row, status) == [id |-> row.id, sev |-> row.sev, tier |-> row.tier,
                            issue |-> row.issue, status |-> status]
WithoutStatus(row) == [id |-> row.id, sev |-> row.sev, tier |-> row.tier, issue |-> row.issue]

Highest(S) == IF S = {} THEN 0 ELSE CHOOSE n \in S : \A m \in S : m <= n
Lowest(S) == CHOOSE n \in S : \A m \in S : n <= m

\* The tiers the gate counts.
Owed(tier) == tier \in {"blocking", "unrecoverable"}

Matches(a, b) == a = b \/ <<a, b>> \in Near \/ <<b, a>> \in Near

---------------------------------------------------------------------------
(* Classification: classifyPrior, over every prior.                        *)

HeldBy(tag) == CASE tag = "upheld" -> "suppressed"
                 [] tag = "rejected" -> "returned"
                 [] tag = "deferred" -> "deferred"
                 [] tag = "misclassified" -> "re-tiered"
                 [] OTHER -> "none"

\* An applied reply or any reply of the thread buys a verification: in case B
\* only one newer than the summary does.
BuysVerify(case, tag) ==
  \/ tag = "applied_new"
  \/ tag = "applied_old" /\ case # "B"
  \/ tag = "reply" /\ case = "B"

\* d: what the review knows of the push, [case, all, touched, deleted].
ClassifyPrior(row, d, tag) ==
  LET settle(status, held) == [status |-> status, held |-> held]
      held == HeldBy(tag)
      queue == d.all \/ FileOf[row.issue] \in d.touched
  IN IF FileOf[row.issue] \in d.deleted THEN settle("verified-gone", "none")
     ELSE IF tag = "ci_upheld" THEN settle("ci-dismissed", "none")
     ELSE IF held # "none"
       THEN IF queue THEN settle("queued", held) ELSE settle(held, "none")
     ELSE IF queue \/ BuysVerify(d.case, tag) THEN settle("queued", "none")
     ELSE settle("carried", "none")

\* A deletion is a touch; a same-head review sees no delta, nor does one whose
\* last head is gone from the clone (case E). An incomplete last review, and
\* cases D and E, verify every prior.
Pushes ==
  LET first == ~block.written /\ block.rows = <<>>
  IN {d \in [case : IF first THEN {"A"} ELSE {"B", "C", "D", "E"},
             all : BOOLEAN, touched : SUBSET Files, deleted : SUBSET Files] :
        /\ d.deleted \subseteq d.touched
        /\ d.case \in {"A", "B", "E"} => d.touched = {}
        /\ d.case \in {"D", "E"} => d.all
        /\ first => ~d.all}

\* Discovery runs no hunter in case B, unless it was forced full.
Hunts(d) == IF d.case = "B" /\ ~d.all THEN BOOLEAN ELSE {TRUE}

\* The CI adjudicator rules only on the dismissal of a prior the gate counts.
TriageOf(rows) ==
  {t \in [DOMAIN rows -> Tags] :
     \A i \in DOMAIN rows : t[i] = "ci_upheld" => Owed(rows[i].tier)}

Classify ==
  /\ run = NoRun
  /\ Len(block.rows) <= MaxPriors
  /\ \E d \in Pushes, triage \in TriageOf(block.rows) : \E hunts \in Hunts(d) :
       run' = [phase |-> "classified", hunts |-> hunts,
               sameHead |-> d.case = "B" /\ block.written,
               settled |-> [i \in DOMAIN block.rows |->
                              ClassifyPrior(block.rows[i], d, triage[i])]]
  /\ UNCHANGED <<block, issued>>

---------------------------------------------------------------------------
(* The pipeline: worsening, the verify queue, the verdicts and the count.  *)

\* What dedupe leaves: findings about different issues, in any order.
SurvivorType == {f \in [issue : Issues, kind : Kinds] :
                   ~(f.kind.demoted /\ f.issue \in Guarded)}
SurvivorLists ==
  {l \in BoundedSeq(SurvivorType, MaxSurvivors) :
     \A i, j \in DOMAIN l : i # j => l[i].issue # l[j].issue}

\* applyWorsening: a finding at a suppressed prior, strictly more severe than
\* it, returns the prior. It reads the severity before the refuter speaks.
IsWorsened(row, settled, found) ==
  /\ "suppressed" \in {settled.status, settled.held}
  /\ \E i \in DOMAIN found :
       /\ Matches(row.issue, found[i].issue)
       /\ row.sev = Unrecoverable \/ found[i].kind.sev < row.sev

Worsen(settled) ==
  IF settled.status = "queued" THEN [settled EXCEPT !.held = "returned"]
                               ELSE [settled EXCEPT !.status = "returned"]

\* closeVerifyQueue: the queued priors, then each carried one a finding
\* overlaps; the most severe MaxVerify are verified, the rest are not.
Verified(rows, settled, found) ==
  LET queued == {i \in DOMAIN rows : settled[i].status = "queued"}
      overlap == {i \in DOMAIN rows :
                    /\ settled[i].status = "carried"
                    /\ \E f \in DOMAIN found :
                         Matches(rows[i].issue, found[f].issue)}
      \* j goes before i
      Before(j, i) ==
        \/ rows[j].sev < rows[i].sev
        \/ /\ rows[j].sev = rows[i].sev
           /\ IF (j \in queued) = (i \in queued) THEN j < i ELSE j \in queued
      all == queued \cup overlap
  IN {i \in all : Cardinality({j \in all : Before(j, i)}) < MaxVerify}

\* assembleLive: the status a prior ends with. Only a queued prior reads a
\* verdict; no verdict is "unconfirmed".
FinalStatus(settled, verdict) ==
  IF settled.status # "queued" THEN settled.status
  ELSE IF settled.held = "none" \/ verdict = "verified-gone" THEN verdict
  ELSE settled.held

\* Mutant: what the author re-tiered leaves the block.
PersistedUnlessReTiered(status, rejected) ==
  CASE status = "returned" -> IF rejected THEN "carried" ELSE "dropped"
    [] status = "ci-dismissed" -> "suppressed"
    [] status \in {"re-tiered", "verified-gone"} -> "dropped"
    [] OTHER -> status

\* The status a prior keeps in the state block: a return stays only when the
\* adjudicator rejected the dismissal.
Persisted(status, rejected) ==
  CASE status = "returned" -> IF rejected THEN "carried" ELSE "dropped"
    [] status = "re-tiered" -> "carried"
    [] status = "ci-dismissed" -> "suppressed"
    [] status = "verified-gone" -> "dropped"
    [] OTHER -> status

\* pairInto: each finding f in turn takes the first row near it, of the first
\* tier of prefs[f] that has one, that is among those allowed and still free.
Free(found, rows, allowed, pairs, f, tier) ==
  {r \in allowed \ {p[2] : p \in pairs} :
     rows[r].tier = tier /\ Matches(rows[r].issue, found[f].issue)}

Take(found, rows, prefs, allowed, pairs, f) ==
  LET offers(k) == Free(found, rows, allowed, pairs, f, prefs[f][k])
      tiers == {k \in DOMAIN prefs[f] : offers(k) # {}}
  IN IF tiers = {} THEN pairs
     ELSE pairs \cup {<<f, Lowest(offers(Lowest(tiers)))>>}

PairInto(found, rows, prefs, allowed) ==
  LET paired[f \in 0 .. Len(found)] ==
        IF f = 0 THEN {} ELSE Take(found, rows, prefs, allowed, paired[f - 1], f)
  IN paired[Len(found)]

\* pairBlockingSurvivors
PairBlocking(found, rows) ==
  PairInto(found, rows,
           [f \in DOMAIN found |-> IF found[f].tier = "blocking"
              THEN <<"blocking", "unrecoverable", "advisory">> ELSE <<>>],
           DOMAIN rows)

\* Mutant: the guard reads the finding only, not the prior it releases.
AnyReleasable(row) == TRUE

\* isReleasable: what the guard cannot read counts as guarded.
Releasable(row) == row.issue \notin Guarded \cup Unreadable

\* gatePairing: a finding demoted from blocking then releases one blocking row
\* that is known not to be guarded.
Released(found, rows, carried) ==
  PairInto(found, rows,
           [f \in DOMAIN found |-> IF found[f].demoted THEN <<"blocking">> ELSE <<>>],
           {r \in DOMAIN rows : Releasable(rows[r])} \ {p[2] : p \in carried})

\* unresolvedBlockingCount
Count(found, rows, carried, released) ==
  LET paired == {p[2] : p \in carried \cup released}
  IN Cardinality({f \in DOMAIN found : found[f].tier = "blocking"})
     + Cardinality({r \in DOMAIN rows : Owed(rows[r].tier) /\ r \notin paired})

\* The findings of the document, and those of them the review posts.
Finding(f) == [issue |-> f.issue, sev |-> f.kind.sev, tier |-> f.kind.tier,
               demoted |-> f.kind.demoted, shown |-> f.kind.shown]

Document(found) ==
  LET kept == At(found, {i \in DOMAIN found : found[i].kind.tier # "refuted"})
  IN [i \in DOMAIN kept |-> Finding(kept[i])]

\* assembleLive over every prior: the status each ends with, whether the
\* adjudicator rejected its dismissal, and what the state block keeps of it.
Statuses(settled, worsened, verdict) ==
  [i \in DOMAIN settled |->
     FinalStatus(IF i \in worsened THEN Worsen(settled[i]) ELSE settled[i], verdict[i])]

Rejected(settled) == "returned" \in {settled.status, settled.held}

Kept(settled, status) ==
  [i \in DOMAIN settled |-> Persisted(status[i], Rejected(settled[i]))]

LiveRows(rows, kept) ==
  LET live == {i \in DOMAIN rows : kept[i] # "dropped"}
  IN At([i \in DOMAIN rows |-> WithStatus(rows[i], kept[i])], live)

\* GateRow: what is left of the priors for the count.
GateRows(rows, status) ==
  At(rows, {i \in DOMAIN rows : status[i] \notin {"verified-gone", "ci-dismissed"}})

\* fillRereviewProvenance, and the count publishOutcome fires before the post.
\* gone, which only the properties read, has the priors whose file is deleted or
\* which the verifier refuted.
Counted(found, worsened, verdict) ==
  LET rows == block.rows
      status == Statuses(run.settled, worsened, verdict)
      gateRows == GateRows(rows, status)
      doc == Document(found)
      carried == PairBlocking(doc, gateRows)
      released == Released(doc, gateRows, carried)
      idsAt(S) == {rows[i].id : i \in S}
  IN [phase |-> "counted", sameHead |-> run.sameHead, posted |-> FALSE,
      live |-> LiveRows(rows, Kept(run.settled, status)),
      retired |-> idsAt({i \in DOMAIN rows : i \in worsened \/ status[i] = "verified-gone"}),
      worsened |-> idsAt(worsened),
      released |-> {gateRows[p[2]].id : p \in released},
      count |-> Count(doc, gateRows, carried, released),
      demoted |-> Cardinality({f \in DOMAIN doc : doc[f].demoted}),
      gone |-> idsAt({i \in DOMAIN rows :
                        "verified-gone" \in {run.settled[i].status, verdict[i]}}),
      fresh |-> At(doc, {f \in DOMAIN doc : doc[f].shown})]

\* A run the ceiling cut short before dedupe worsens and verifies nothing.
Pipeline ==
  /\ run.phase = "classified"
  /\ \E found \in IF run.hunts THEN SurvivorLists ELSE {<<>>}, cut \in BOOLEAN :
     LET rows == block.rows
         worsened == IF cut THEN {} ELSE
           {i \in DOMAIN rows : IsWorsened(rows[i], run.settled[i], found)}
         verified == IF cut THEN {} ELSE Verified(rows, run.settled, found)
     IN \E outcome \in [verified -> {"verified-gone", "carried", "unconfirmed"}] :
          run' = Counted(found, worsened,
                         [i \in DOMAIN rows |->
                            IF i \in verified THEN outcome[i] ELSE "unconfirmed"])
  /\ UNCHANGED <<block, issued>>

---------------------------------------------------------------------------
(* The post: the merge into the block, the size cap, and the write.        *)

\* The rows a merge starts from: this review's, and on a same-head re-post the
\* block's other ones. A released row is advisory before anything pairs.
Base ==
  LET held == Ids(run.live) \cup run.retired
      others == At(block.rows, {i \in DOMAIN block.rows : block.rows[i].id \notin held})
      again == IF run.sameHead
                 THEN [i \in DOMAIN others |-> WithStatus(others[i], "unconfirmed")]
                 ELSE <<>>
      rows == run.live \o again
  IN [i \in DOMAIN rows |->
        IF rows[i].id \in run.released /\ rows[i].tier = "blocking"
          THEN [rows[i] EXCEPT !.tier = "advisory"] ELSE rows[i]]

\* Mutant: the mark is only the highest row of this review.
MarkOfReview == Highest({0} \cup run.retired \cup Ids(run.live))

\* Mutant: no hw in the block.
MarkOfRows ==
  Highest({0} \cup run.retired \cup Ids(run.live)
          \cup (IF block.written THEN Ids(block.rows) ELSE {}))

\* The high-water mark a merge starts from. Markers carry none.
Mark ==
  Highest({0} \cup run.retired \cup Ids(run.live)
          \cup (IF block.written THEN {block.hw} \cup Ids(block.rows) ELSE {}))

\* Mutant: an advisory finding takes a blocking row when no other is near.
AdvisoryTakesBlocking(f) ==
  IF f.tier = "advisory" THEN <<"advisory", "blocking">> ELSE <<>>

AdvisoryTakes(f) == IF f.tier = "advisory" THEN <<"advisory">> ELSE <<>>

\* Which row each posted finding updates: the blocking findings pair first,
\* then an advisory one with an advisory row.
MergePairs(base) ==
  LET blocking == PairBlocking(run.fresh, base)
  IN blocking \cup
     PairInto(run.fresh, base,
              [f \in DOMAIN run.fresh |-> AdvisoryTakes(run.fresh[f])],
              DOMAIN base \ {p[2] : p \in blocking})

\* A suppressed row keeps its rating; the finding says where it is now.
Update(row, f) ==
  IF row.status = "suppressed" THEN [row EXCEPT !.issue = f.issue]
  ELSE [row EXCEPT !.issue = f.issue, !.sev = f.sev, !.tier = f.tier]

\* mergeStateFindings, before the cap: the rows, the mark, and the ids of this
\* review's findings.
Updated(base, pairs) ==
  [r \in DOMAIN base |->
     LET by == {p[1] : p \in {q \in pairs : q[2] = r}}
     IN IF by = {} THEN base[r] ELSE Update(base[r], run.fresh[Lowest(by)])]

Appended(pairs) ==
  LET new == At(run.fresh, {f \in DOMAIN run.fresh : \A p \in pairs : p[1] # f})
  IN [k \in DOMAIN new |-> [id |-> Mark + k, sev |-> new[k].sev, tier |-> new[k].tier,
                             issue |-> new[k].issue, status |-> "unconfirmed"]]

Merged ==
  LET base == Base
      pairs == MergePairs(base)
      appended == Appended(pairs)
  IN [rows |-> Updated(base, pairs) \o appended, hw |-> Mark + Len(appended),
      appended |-> Ids(appended),
      touched |-> Ids(appended) \cup {base[p[2]].id : p \in pairs}]

\* Mutant: the rows of this review may be evicted too.
EvictableAll(merged, status) ==
  {r \in DOMAIN merged.rows :
     merged.rows[r].status = status /\ merged.rows[r].tier = "advisory"}

\* lastEvictableIndex: the advisory rows that this review did not touch.
Evictable(merged, status) ==
  {r \in DOMAIN merged.rows :
     /\ merged.rows[r].status = status /\ merged.rows[r].tier = "advisory"
     /\ merged.rows[r].id \notin merged.touched}

\* capLiveFindings: while the block is longer than room, the last unconfirmed
\* row that may go goes, then the last carried one.
Capped(merged, room) ==
  LET rows == merged.rows
      Before(q, r) == \/ rows[q].status = rows[r].status /\ q > r
                      \/ rows[q].status = "unconfirmed" /\ rows[r].status = "carried"
      candidates == Evictable(merged, "unconfirmed") \cup Evictable(merged, "carried")
      over == Len(rows) - room
      gone == {r \in candidates : Cardinality({q \in candidates : Before(q, r)}) < over}
  IN At([r \in DOMAIN rows |-> WithoutStatus(rows[r])], DOMAIN rows \ gone)

\* postInlineFindings: its POST and its PATCH write the block of one merge, so
\* they are one Post. A post repeated later (`post --from`) reads the block again.
Post ==
  /\ run.phase = "counted"
  /\ LET merged == Merged
     IN /\ merged.hw <= MaxId
        /\ \E room \in 0 .. Len(merged.rows) :
             block' = [written |-> TRUE, rows |-> Capped(merged, room), hw |-> merged.hw]
        /\ issued' = Highest({issued, merged.hw})
  /\ run' = [run EXCEPT !.posted = TRUE, !.sameHead = TRUE]

\* The review is over, or was killed: what it had not posted is lost.
EndReview ==
  /\ run # NoRun
  /\ run' = NoRun
  /\ UNCHANGED <<block, issued>>

---------------------------------------------------------------------------
\* A PR never reviewed, or one whose summary has no state block: the finding
\* comments give the priors, with what their badge still tells.
Init ==
  /\ \E m \in Markers :
       /\ block = [written |-> FALSE, hw |-> 0,
                   rows |-> [i \in DOMAIN m |-> [id |-> i, sev |-> m[i].sev,
                                                 tier |-> m[i].tier,
                                                 issue |-> m[i].issue]]]
       /\ issued = Len(m)
  /\ run = NoRun

Next == Classify \/ Pipeline \/ Post \/ EndReview

Spec == Init /\ [][Next]_vars

---------------------------------------------------------------------------
(* Properties                                                              *)

\* The block, the review and the mark have their types; the rows of the block
\* have different ids, none above the mark once one is written.
TypeOK ==
  /\ block.written \in BOOLEAN /\ block.hw \in 0 .. MaxId
  /\ \A i \in DOMAIN block.rows :
       /\ block.rows[i] \in RowType
       /\ block.written => block.rows[i].id <= block.hw
       /\ \A j \in DOMAIN block.rows : block.rows[i].id = block.rows[j].id => i = j
  /\ run.phase \in {"idle", "classified", "counted"}
  /\ run.phase = "classified" => \A i \in DOMAIN block.rows :
       /\ run.settled[i].status \in
            Live \cup Held \cup {"queued", "verified-gone", "ci-dismissed"}
       /\ run.settled[i].held \in Held \cup {"none"}
  /\ run.phase = "counted" => \A i \in DOMAIN run.live :
       run.live[i].status \in Live /\ run.live[i].id \in 1 .. MaxId
  /\ issued \in 0 .. MaxId

Counts == run.phase = "classified" /\ run'.phase = "counted"
Posts == run.phase = "counted" /\ run'.phase = "counted"

\* Gate (state.ts, the note above GateRow): a review counts every prior the
\* state block owes that neither evidence nor the CI adjudicator cleared, less
\* one for each finding demoted from blocking, whatever its own findings are
\* near; and no prior that is guarded, or may be, is ever among the released.
GateCountsWhatIsOwed ==
  [][Counts =>
       LET owed == {i \in DOMAIN block.rows :
                      /\ Owed(block.rows[i].tier)
                      /\ block.rows[i].id \notin run'.gone
                      /\ run.settled[i].status # "ci-dismissed"}
       IN /\ run'.count + run'.demoted >= Cardinality(owed)
          /\ \A i \in DOMAIN block.rows : block.rows[i].id \in run'.released =>
               /\ block.rows[i].tier = "blocking"
               /\ block.rows[i].issue \notin Guarded \cup Unreadable]_vars

\* A finding of this review raised the row the id names to what the gate counts.
Raised(id) == \E k \in DOMAIN run.live :
  run.live[k].id = id /\ ~Owed(run.live[k].tier)

\* S7: a row the gate counts leaves the block, or stops being counted, only on
\* evidence or a release of this review. No triage of the author, no severity a
\* model claims, no size cap and no re-post does it. Two cases are apart: a
\* worsening (WorseningIsCarried), and a row that this review's own first post
\* raised, whose finding a re-post may give to another row (RepostAddsNoId).
OnlyEvidenceClears ==
  [][Posts => \A i \in DOMAIN block.rows :
       Owed(block.rows[i].tier) /\ ~Raised(block.rows[i].id) =>
         \/ \E j \in DOMAIN block'.rows :
              block'.rows[j].id = block.rows[i].id /\ Owed(block'.rows[j].tier)
         \/ block.rows[i].id \in run.gone \cup run.released \cup run.worsened]_vars

\* S7, the comment above assembleLive: a prior a worsening returned is left out
\* of the block because the review's own stronger finding carries it, so a
\* counted one leaves a counted row near it.
WorseningIsCarried ==
  [][Posts => \A i \in DOMAIN block.rows :
       (Owed(block.rows[i].tier) /\ block.rows[i].id \in run.worsened \ run.gone) =>
         \E j \in DOMAIN block'.rows :
           Owed(block'.rows[j].tier) /\ Matches(block'.rows[j].issue, block.rows[i].issue)]_vars

OwedBy(rows) == Cardinality({i \in DOMAIN rows : Owed(rows[i].tier)})

\* The block a review leaves owes at least what its gate reported, so a second
\* push that touches nothing does not read fewer (mergeStateFindings).
BlockAgreesWithGate == Posts => OwedBy(block'.rows) >= run.count
AdvisorySuppressed == \E i \in DOMAIN run.live :
  run.live[i].status = "suppressed" /\ run.live[i].tier = "advisory"

\* It holds when no suppressed prior is worsened or advisory.
NextGateOwesAsMuch ==
  [][run.phase = "counted" /\ ~AdvisorySuppressed =>
       (run.worsened = {} => BlockAgreesWithGate)]_vars

\* PAIR_PREFERENCE: an advisory row never takes a row the count reads. So the
\* block owes what the gate reported even where an advisory row is suppressed.
SuppressedNeverSwallows ==
  [][run.phase = "counted" => (run.worsened = {} => BlockAgreesWithGate)]_vars

\* R2-S1: an id names one finding for good. The ids a post gives to findings it
\* could not pair were never issued before: not by an earlier block, not to a
\* row that left it, not to a prior recovered from the markers.
IdsAreNeverReused ==
  [][(Posts /\ ~run.posted) => \A id \in Merged.appended : id > issued]_vars

\* The block is the only copy of a finding outside the diff: every finding the
\* review posts is a row of the block it leaves, whatever the size cap does.
PostedFindingsAreRows ==
  [][Posts => \A f \in DOMAIN run.fresh :
       \E j \in DOMAIN block'.rows : block'.rows[j].issue = run.fresh[f].issue]_vars

\* S2: posting the same review again gives no finding a new id.
RepostAddsNoId == [][(Posts /\ run.posted) => block'.hw = block.hw]_vars

\* W-order: the verifier's word is final. A prior it refuted is not in the block
\* that the review leaves.
RefutedIsGone == run.phase = "counted" => run.gone \cap Ids(run.live) = {}
==============================================================================
