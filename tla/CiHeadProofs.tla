----------------------------- MODULE CiHeadProofs -----------------------------
(***************************************************************************)
(* Proofs about the CI reviews of one head, for every set of jobs, every   *)
(* mix of pushes and comments and every number of lost calls, kills and    *)
(* overrides.                                                              *)
(*                                                                         *)
(* The properties are about a job's last steps, and hold because of what   *)
(* it did long before: what it owes GitHub, what it knows of it, and whose *)
(* status the head shows.  JobInv is about one job alone, StatusInv about  *)
(* a job and the head's status; a step of another job disturbs neither.    *)
(* Each action is looked at once: Good says that it keeps both, and that   *)
(* it does nothing an action property forbids.                             *)
(***************************************************************************)
EXTENDS CiHead, TLAPS

-----------------------------------------------------------------------------
(* The inductive invariant.                                                *)

Early == {"queued", "gate", "skipping", "skip", "reserved", "checks",
          "sizing", "yielding", "plan"}
InReview == {"setup", "starting", "review", "deliver", "complete", "persist", "settle"}
Late == {"unlock", "close", "closing", "exited", "error", "repost"}

\* How a job ends is told by its process: a handler runs beside a CLI that was
\* cancelled and is still there.
FateInv(r) ==
  /\ r.pc \in CliPcs \cup {"queued"} => r.fate \in {"fine", "cancelled"}
  /\ r.fate = "fine" => r.sig = "no"
  /\ r.sig # "no" => r.pc \in CliPcs
  /\ r.fate = "died" => r.pc = "over"

Terminal(row) == row # NoRow /\ row.st \notin ActiveStatuses

\* The row in memory and the row at GitHub.  Whoever is about to write a
\* settlement holds one, but for the write that starts the provider, which the
\* handler may overtake; where nobody is writing and no writes crossed, a job that
\* lost no call has left no active row behind a settled one.
RowInv(r) ==
  /\ r.pc \in {"queued", "gate", "reserved"} => r.mem = NoRow
  /\ r.pc \in {"queued", "gate"} => r.row = NoRow
  /\ \/ r.sig \in {"persist", "crossed", "exit"}
     \/ r.pc \in Writing \ {"starting"}
     => Terminal(r.mem)
  /\ r.pc = "starting" =>
       r.mem # NoRow /\ (r.mem.st \in ActiveStatuses \/ r.sig \in {"persist",
       "crossed"})
  /\ /\ r.pc \in CliPcs \ (Writing \cup {"reserved"})
     /\ r.sig \notin {"persist", "crossed"} /\ r.lost = 0
     /\ r.mem.st \notin ActiveStatuses
     => r.row.st \notin ActiveStatuses

\* The record the CLI leaves to the publisher: a verdict is due only when it was
\* lost once, with the cutoff unless the signal took that.
RecordInv(r) ==
  /\ r.pc \in Early => r.rec = "none" /\ r.due = "none"
  /\ r.pc \in Early \cup {"pending", "posted", "setup", "starting"} => r.out = "none"
  /\ r.pc = "review" => r.out = "running"
  /\ r.pc = "deliver" => r.out \notin {"none", "running"}
  /\ r.due # "none" =>
       r.lost >= 1 /\ (r.cut \/ r.fate \in {"cancelled", "shot"})
  /\ r.pc = "repost" => r.due # "none"
  /\ r.pc \notin Late => r.due = "none"
  /\ r.pc \in {"pending", "posted", "setup", "starting", "review", "deliver"} =>
       r.rec \in {"reviewing", "hunters-failed"}
  /\ r.rec = "reviewed" => r.out \in {"idle", "clean", "red"}
  /\ r.out = "clean" /\ r.fate = "fine"
       /\ r.pc \in {"complete", "persist", "settle", "write"} \cup Late
     => r.rec \in {"reviewed", "error"}

\* The status lock is lost to the signal handler only.
LockInv(r) ==
  /\ r.pc \in InReview /\ ~r.lock => r.sig # "no"
  /\ r.pc = "write" /\ ~r.cut /\ Completion(r.out) \in Verdicts => r.sig # "no"

Admitted == {"reserved", "checks", "plan", "pending", "posted", "write", "unlock"}
              \cup InReview

SpentRow(row) == ~row.forced /\ row.st \notin UnspentStatuses \cup {"absent"}

\* From its reservation on a push has a row that counts, in memory too.
SpendInv(r) ==
  ~(r.kind # "push") /\ (r.pc \in Admitted \/ r.out # "none") =>
    SpentRow(r.row) /\ (r.mem = NoRow \/ SpentRow(r.mem))

JobInv(r) ==
  FateInv(r) /\ RowInv(r) /\ RecordInv(r) /\ LockInv(r) /\ SpendInv(r)

\* The head shows this job's pending: it began a review, and when it is through
\* with its settlement unharmed, a call of it was lost.
PendingInv(r) ==
  r.pc # "over" =>
    /\ r.pc \notin Early
    /\ r.rec \notin {"none", "skipped", "yielded"}
    /\ r.fate = "fine" /\ r.pc \in Late =>
         r.lost >= 1 /\ (r.rec = "reviewed" /\ r.due = "none" => r.out = "idle")

\* The head shows this job's success.
GreenInv(r) ==
  r.pc # "over" /\ r.fate = "fine" /\ r.lost = 0 =>
    /\ r.pc \in Late
    /\ r.rec = "skipped" \/ (r.out = "clean" /\ r.rec \in {"reviewed", "error"})

\* The head shows an override: a job about to write over it had asked before, or
\* could not ask.
OverrideInv(j, r, st) ==
  /\ r.pc = "skip" => j \in st.late \/ r.lost >= 1
  /\ r.pc = "write" /\ Completion(r.out) \in Verdicts =>
       j \in st.late \/ j \in st.before \/ r.lost >= 1 \/ r.sig # "no"
  /\ r.pc = "repost" => j \in st.late \/ r.lost >= 2
  /\ j \in st.before /\ r.pc \in {"posted", "write"} \cup InReview => r.lost >= 1
  /\ j \in st.before /\ r.due # "none" => r.lost >= 2

StatusInv(j, r, st) ==
  /\ st.s = "pending" /\ st.by = j => PendingInv(r)
  /\ st.s = "success" /\ st.by = j => GreenInv(r)
  /\ st.s = "override" => OverrideInv(j, r, st)

\* What a job has lost and what is still to come is within the bound.
CiInv ==
  /\ TypeOK
  /\ \A j \in Jobs :
       /\ job[j].lost + left <= MaxEvents
       /\ JobInv(job[j])
       /\ StatusInv(j, job[j], status)

-----------------------------------------------------------------------------
(* One step of a job.                                                      *)

\* The action properties, of a job that goes from r to new while the head's
\* status goes from st to st2.
PendingAnswered(j, r, new, st2) ==
  r.pc # "over" /\ new.pc = "over" /\ st2.s = "pending" /\ st2.by = j =>
    \/ new.fate = "died"
    \/ r.fate = "killed" /\ r.rec = "reviewed"
    \/ new.lost >= 2
    \/ new.lost = 1 /\ (r.fate # "fine" \/ r.out = "idle")

GreenDelivered(j, r, new, st2) ==
  r.pc # "over" /\ new.pc = "over" /\ st2.s = "success" /\ st2.by = j =>
    \/ r.rec = "skipped"
    \/ r.rec = "reviewed" /\ r.out = "clean"
    \/ r.fate # "fine" \/ new.fate = "died" \/ new.lost > 0

OverrideKept(j, r, st, st2) ==
  st.s = "override" /\ st2 # st /\ st2.by = j /\ st2.s \in Verdicts \cup {"hold"} =>
    \/ j \in st.late
    \/ r.pc = "write" /\ j \in st.before
    \/ r.lost > (IF r.pc = "repost" THEN 1 ELSE 0)
    \/ r.sig # "no"

RowLeft(r, new) ==
  r.pc \in CliPcs /\ new.pc = "exited" /\ new.row.st \in ActiveStatuses =>
    \/ new.lost > 0 \/ new.fate \in {"killed", "shot"}
    \/ r.sig \in {"empty", "crossed"}
    \/ r.sig = "exit" /\ r.pc \in Writing
    \/ r.sig = "persist" /\ r.pc = "close"

Good(j, r, new, st, st2) ==
  /\ new \in JobState /\ JobInv(new) /\ StatusInv(j, new, st2)
  /\ PendingAnswered(j, r, new, st2) /\ GreenDelivered(j, r, new, st2)
  /\ OverrideKept(j, r, st, st2) /\ RowLeft(r, new)

\* What else the steps of job j leave alone: the other jobs, and a status that is
\* not its own; and the bound.
Posts == {"pending", "hold", "success", "failure", "error"}

Frame(j) ==
  /\ job' = [job EXCEPT ![j] = job'[j]]
  /\ left' \in 0..left /\ job'[j].lost + left' <= MaxEvents
  /\ status' = status \/ \E s \in Posts : status' = StatusRow(s, j)

Kept(j) == Good(j, job[j], job'[j], status, status') /\ Frame(j)

\* The fields f names are f's, the others stay.
Pick(f, x, r) == IF x \in DOMAIN f THEN f[x] ELSE r[x]

Fields == {"pc", "kind", "mem", "row", "out", "rec", "due", "cut", "lock", "threw",
           "sig", "fate", "lost"}

Shape(new) == DOMAIN new = Fields /\ new = [x \in Fields |-> new[x]]

Becomes(r, f, row, lost, new) ==
  /\ Shape(new)
  /\ new.row = row /\ new.lost = lost
  /\ new.pc = Pick(f, "pc", r) /\ new.kind = Pick(f, "kind", r)
  /\ new.mem = Pick(f, "mem", r) /\ new.out = Pick(f, "out", r)
  /\ new.rec = Pick(f, "rec", r) /\ new.due = Pick(f, "due", r)
  /\ new.cut = Pick(f, "cut", r) /\ new.lock = Pick(f, "lock", r)
  /\ new.threw = Pick(f, "threw", r) /\ new.sig = Pick(f, "sig", r)
  /\ new.fate = Pick(f, "fate", r)

\* The job's own part of a step, and the bound.
Did(j, f, row, lost) ==
  /\ Becomes(job[j], f, row, lost, job'[j])
  /\ job' = [job EXCEPT ![j] = job'[j]]
  /\ lost \in 0..MaxEvents /\ left' \in 0..left /\ lost + left' <= MaxEvents

Changes(f) == "row" \notin DOMAIN f /\ "lost" \notin DOMAIN f

\* A job is well-formed when it has the fields of one and each is.
Typed(r) ==
  /\ r.pc \in Pcs /\ r.kind \in Kinds
  /\ r.mem \in Rows \cup {NoRow} /\ r.row \in Rows \cup {NoRow}
  /\ r.out \in Outcomes /\ r.rec \in CliRecords /\ r.due \in Verdicts \cup {"none"}
  /\ r.cut \in BOOLEAN /\ r.lock \in BOOLEAN /\ r.threw \in BOOLEAN
  /\ r.sig \in {"no", "status", "ledger", "persist", "crossed", "exit", "empty"}
  /\ r.fate \in {"fine", "cancelled", "killed", "shot", "died"}
  /\ r.lost \in 0..MaxEvents

LEMMA JobTyped == \A r \in JobState : Typed(r)
BY DEF JobState, Typed

LEMMA TypedJob == \A new : Shape(new) /\ Typed(new) => new \in JobState
BY DEF JobState, Typed, Shape, Fields

LEMMA PutIs ==
  ASSUME TypeOK, NEW j \in Jobs, NEW f, NEW row, NEW lost, Changes(f),
         Put(j, f, row, lost)
  PROVE  /\ Becomes(job[j], f, row, lost, job'[j])
         /\ job' = [job EXCEPT ![j] = job'[j]]
<1> DEFINE r == job[j]
           g == [r EXCEPT !.row = row, !.lost = lost]
           new == [x \in Fields |-> IF x \in DOMAIN f THEN f[x] ELSE g[x]]
<1>0. job \in [Jobs -> JobState]
  BY DEF TypeOK
<1>1. DOMAIN g = Fields /\ DOMAIN r = Fields
  BY <1>0 DEF JobState, Fields
<1>2. \A x \in Fields \ {"row", "lost"} : g[x] = r[x]
  BY <1>0 DEF JobState, Fields
<1>3. g["row"] = row /\ g["lost"] = lost
  BY <1>0 DEF JobState, Fields
<1>4. job' = [job EXCEPT ![j] = With(f, g)]
  BY DEF Put
<1> HIDE DEF g
<1>5. With(f, g) = new
  BY <1>1 DEF With
<1>6. job' = [job EXCEPT ![j] = new] /\ job'[j] = new
  BY <1>0, <1>4, <1>5
<1>7. Becomes(r, f, row, lost, new)
  BY <1>2, <1>3 DEF Becomes, Shape, Pick, Fields, Changes
<1> QED
  BY <1>6, <1>7

LEMMA JobOf ==
  ASSUME CiInv, NEW j \in Jobs
  PROVE  /\ job[j] \in JobState /\ JobInv(job[j]) /\ StatusInv(j, job[j], status)
         /\ job[j].lost \in 0..MaxEvents /\ left \in 0..MaxEvents
         /\ job[j].lost + left <= MaxEvents /\ MaxEvents \in Nat
BY CiHeadAssumption DEF CiInv, TypeOK, JobState

LEMMA PutDid ==
  ASSUME CiInv, NEW j \in Jobs, NEW f, NEW row, NEW lost, Changes(f),
         Put(j, f, row, lost),
         \/ lost = job[j].lost /\ (left' = left \/ Event)
         \/ lost = job[j].lost + 1 /\ Event
  PROVE  Did(j, f, row, lost)
<1>1. /\ Becomes(job[j], f, row, lost, job'[j])
      /\ job' = [job EXCEPT ![j] = job'[j]]
  BY PutIs DEF CiInv
<1>2. lost \in 0..MaxEvents /\ left' \in 0..left /\ lost + left' <= MaxEvents
  BY JobOf DEF Event
<1> QED
  BY <1>1, <1>2 DEF Did

LEMMA SetDid ==
  ASSUME CiInv, NEW j \in Jobs, NEW f, Changes(f), Set(j, f), left' = left \/ Event
  PROVE  Did(j, f, job[j].row, job[j].lost)
BY PutDid DEF Set

LEMMA SetLostDid ==
  ASSUME CiInv, NEW j \in Jobs, NEW f, NEW row, Changes(f), SetLost(j, f, row)
  PROVE  Did(j, f, row, job[j].lost + 1)
BY PutDid DEF SetLost

LEMMA PersistDid ==
  ASSUME CiInv, NEW j \in Jobs, NEW f, NEW row, Changes(f), Persist(j, row, f)
  PROVE  \/ Did(j, f, row, job[j].lost)
         \/ Did(j, f, job[j].row, job[j].lost + 1)
BY PutDid, SetLostDid DEF Persist

LEMMA PostDid ==
  ASSUME CiInv, NEW j \in Jobs, NEW s, NEW ok, NEW failed, Changes(ok), Changes(failed),
         Post(j, s, ok, failed)
  PROVE  \/ /\ Did(j, ok, job[j].row, job[j].lost)
            /\ status' = StatusRow(s, j)
         \/ /\ Did(j, failed, job[j].row, job[j].lost + 1)
            /\ status' = status \/ status' = StatusRow(s, j)
BY SetDid, SetLostDid DEF Post

\* A settlement of an active row, in memory.
LEMMA EndedIs ==
  ASSUME CiInv, NEW j \in Jobs, Active(j),
         NEW st \in TerminalStatuses \cup {"provider-started"}
  PROVE  /\ Ended(j, st) \in Rows /\ Ended(j, st) # NoRow
         /\ Ended(j, st).st = st /\ Ended(j, st).forced = job[j].mem.forced
         /\ job[j].mem # NoRow
<1>1. job[j].mem \in Rows \cup {NoRow}
  BY JobOf DEF JobState
<1>2. job[j].mem # NoRow
  BY DEF Active, NoRow, ActiveStatuses
<1> QED
  BY <1>1, <1>2 DEF Ended, Rows, NoRow, ActiveStatuses, TerminalStatuses

\* What a reservation posts: never a forced row of a push.
LEMMA ReservedIs ==
  ASSUME CiInv, NEW j \in Jobs, NEW seen \in {NoRow} \cup {job[k].row : k \in Jobs},
         seen # NoRow => seen.st \in ActiveStatuses
  PROVE  /\ Reserve(seen, Forced(j)) \in Rows
         /\ Reserve(seen, Forced(j)).st \in ActiveStatuses
         /\ job[j].kind = "push" => ~Reserve(seen, Forced(j)).forced
<1>1. seen \in Rows \cup {NoRow}
  BY JobOf DEF JobState
<1>2. Forced(j) \in BOOLEAN /\ (job[j].kind = "push" => ~Forced(j))
  BY DEF Forced
<1>3. CASE seen # NoRow /\ (Forced(j) \/ ~seen.forced)
  BY <1>1, <1>2, <1>3 DEF Reserve
<1>4. CASE ~(seen # NoRow /\ (Forced(j) \/ ~seen.forced))
  <2>1. Reserve(seen, Forced(j)) = [st |-> "reserved", forced |-> Forced(j)]
    BY <1>4 DEF Reserve
  <2> QED
    BY <1>2, <2>1 DEF Rows, ActiveStatuses
<1> QED
  BY <1>3, <1>4

-----------------------------------------------------------------------------
(* One lemma per action, one branch per way it can go: what the branch did *)
(* to the fields of the job, that the job is still well-formed, and that   *)
(* all this is Good.                                                       *)

SameOutcome(r, new) ==
  new.kind = r.kind /\ new.out = r.out /\ new.rec = r.rec /\ new.due = r.due /\ new.cut = r.cut
SameProcess(r, new) ==
  new.lock = r.lock /\ new.threw = r.threw /\ new.sig = r.sig /\ new.fate = r.fate

\* The job begins with nothing written, and its first step writes nothing.
LEMMA StartGood ==
  ASSUME CiInv, NEW j \in Jobs, Start(j)
  PROVE  Kept(j)
<1> DEFINE r == job[j]
           new == job'[j]
<1> HIDE DEF r, new
<1>0. r \in JobState /\ JobInv(r) /\ StatusInv(j, r, status) /\ r.lost \in Nat
  BY JobOf DEF r
<1>1. ASSUME Did(j, [pc |-> "gate"], job[j].row, job[j].lost), r.pc = "queued",
             status' = status
      PROVE  Kept(j)
  <2>1. /\ new.pc = "gate" /\ new.mem = r.mem /\ new.row = r.row /\ new.lost = r.lost
        /\ SameOutcome(r, new) /\ SameProcess(r, new)
    BY <1>0, <1>1 DEF Did, Becomes, Pick, SameOutcome, SameProcess, r, new
  <2>2. /\ new.mem \in Rows \cup {NoRow} /\ new.row \in Rows \cup {NoRow}
        /\ new.lost \in 0..MaxEvents
    BY <1>0, <1>1, <2>1 DEF Did, JobState, TerminalStatuses, r
  <2>3. new \in JobState
    BY <1>0, <1>1, <2>1, <2>2, JobTyped, TypedJob DEF Did, Becomes, SameOutcome,
       SameProcess, Typed, Pcs, CliPcs, Writing, CliRecords, Outcomes, new
  <2>4. Good(j, r, new, status, status')
    BY <1>0, <1>1, <2>1, <2>3, JobTyped DEF SameOutcome, SameProcess, Typed, Good,
       PendingAnswered, GreenDelivered, OverrideKept, RowLeft, JobInv, FateInv,
       RowInv, RecordInv, LockInv, SpendInv, StatusInv, PendingInv, GreenInv,
       OverrideInv, Early, Late, InReview, Admitted, Terminal, SpentRow, CliPcs,
       Writing
  <2>5. Frame(j)
    BY <1>1 DEF Did, Becomes, Frame
  <2> QED
    BY <2>4, <2>5 DEF Kept, r, new
<1> QED
  BY <1>1, SetDid DEF Start, Changes, At, r, new

\* A skip's row is settled from the start, or reserved by a call that was lost.
LEMMA GateSkipGood ==
  ASSUME CiInv, NEW j \in Jobs, GateSkip(j)
  PROVE  Kept(j)
<1> DEFINE r == job[j]
           new == job'[j]
<1> HIDE DEF r, new
<1>0. r \in JobState /\ JobInv(r) /\ StatusInv(j, r, status) /\ r.lost \in Nat
  BY JobOf DEF r
<1>a. /\ Reserve(NoRow, FALSE) = [st |-> "reserved", forced |-> FALSE]
      /\ [st |-> "reserved", forced |-> FALSE] \in Rows
  BY DEF Reserve, Rows, ActiveStatuses
<1>1. ASSUME NEW st \in {"skipped", "gate-skipped"},
             Did(j, [pc |-> IF full THEN "close" ELSE "skipping",
                       rec |-> IF full THEN "skipped" ELSE "none"],
                 [st |-> st, forced |-> FALSE], job[j].lost),
             r.pc = "gate", status' = status
      PROVE  Kept(j)
  <2>1. /\ new.pc = (IF full THEN "close" ELSE "skipping") /\ new.mem = r.mem
        /\ new.row = [st |-> st, forced |-> FALSE] /\ new.lost = r.lost
        /\ new.kind = r.kind /\ new.out = r.out
        /\ new.rec = (IF full THEN "skipped" ELSE "none") /\ new.due = r.due
        /\ new.cut = r.cut /\ SameProcess(r, new)
    BY <1>0, <1>1 DEF Did, Becomes, Pick, SameOutcome, SameProcess, r, new
  <2>2. /\ new.mem \in Rows \cup {NoRow} /\ new.row \in Rows \cup {NoRow}
        /\ new.lost \in 0..MaxEvents
    BY <1>0, <1>1, <2>1 DEF Did, JobState, TerminalStatuses, r, Rows, NoRow,
       ActiveStatuses, Reserve
  <2>3. new \in JobState
    BY <1>0, <1>1, <2>1, <2>2, JobTyped, TypedJob DEF Did, Becomes, SameOutcome,
       SameProcess, Typed, Pcs, CliPcs, Writing, CliRecords, Outcomes, new
  <2>4. Good(j, r, new, status, status')
    BY <1>0, <1>1, <2>1, <2>3, JobTyped DEF SameOutcome, SameProcess, Typed, Good,
       PendingAnswered, GreenDelivered, OverrideKept, RowLeft, JobInv, FateInv,
       RowInv, RecordInv, LockInv, SpendInv, StatusInv, PendingInv, GreenInv,
       OverrideInv, Early, Late, InReview, Admitted, Terminal, SpentRow, CliPcs,
       Writing, NoRow, Rows, Reserve, ActiveStatuses, TerminalStatuses
  <2>5. Frame(j)
    BY <1>1 DEF Did, Becomes, Frame
  <2> QED
    BY <2>4, <2>5 DEF Kept, r, new
<1>2. ASSUME NEW row \in {NoRow, [st |-> "reserved", forced |-> FALSE]},
             Did(j, [pc |-> IF full THEN "close" ELSE "skipping",
                       rec |-> IF full THEN "skipped" ELSE "none"],
                 row, job[j].lost + 1),
             r.pc = "gate", status' = status, row \in Rows \cup {NoRow}
      PROVE  Kept(j)
  <2>1. /\ new.pc = (IF full THEN "close" ELSE "skipping") /\ new.mem = r.mem
        /\ new.row = row /\ new.lost = r.lost + 1 /\ new.kind = r.kind
        /\ new.out = r.out /\ new.rec = (IF full THEN "skipped" ELSE "none")
        /\ new.due = r.due /\ new.cut = r.cut /\ SameProcess(r, new)
    BY <1>0, <1>2 DEF Did, Becomes, Pick, SameOutcome, SameProcess, r, new
  <2>2. /\ new.mem \in Rows \cup {NoRow} /\ new.row \in Rows \cup {NoRow}
        /\ new.lost \in 0..MaxEvents
    BY <1>0, <1>2, <2>1 DEF Did, JobState, TerminalStatuses, r, Rows, NoRow,
       ActiveStatuses, Reserve
  <2>3. new \in JobState
    BY <1>0, <1>2, <2>1, <2>2, JobTyped, TypedJob DEF Did, Becomes, SameOutcome,
       SameProcess, Typed, Pcs, CliPcs, Writing, CliRecords, Outcomes, new
  <2>4. Good(j, r, new, status, status')
    BY <1>0, <1>2, <2>1, <2>3, JobTyped DEF SameOutcome, SameProcess, Typed, Good,
       PendingAnswered, GreenDelivered, OverrideKept, RowLeft, JobInv, FateInv,
       RowInv, RecordInv, LockInv, SpendInv, StatusInv, PendingInv, GreenInv,
       OverrideInv, Early, Late, InReview, Admitted, Terminal, SpentRow, CliPcs,
       Writing, NoRow, Rows, Reserve, ActiveStatuses, TerminalStatuses
  <2>5. Frame(j)
    BY <1>2 DEF Did, Becomes, Frame
  <2> QED
    BY <2>4, <2>5 DEF Kept, r, new
<1> QED
  BY <1>1, <1>2, SetLostDid, PutDid, <1>a DEF GateSkip, Changes, At, r, new

\* The reservation: a row that counts, or a lost call and an error on its way out.
LEMMA ReserveRowGood ==
  ASSUME CiInv, NEW j \in Jobs, ReserveRow(j)
  PROVE  Kept(j)
<1> DEFINE r == job[j]
           new == job'[j]
<1> HIDE DEF r, new
<1>0. r \in JobState /\ JobInv(r) /\ StatusInv(j, r, status) /\ r.lost \in Nat
  BY JobOf DEF r
<1>1. ASSUME NEW row \in Rows, Did(j, [pc |-> "reserved"], row, job[j].lost),
             r.pc = "gate", status' = status, row.st \in ActiveStatuses,
             r.kind = "push" => ~row.forced
      PROVE  Kept(j)
  <2>1. /\ new.pc = "reserved" /\ new.mem = r.mem /\ new.row = row /\ new.lost = r.lost
        /\ SameOutcome(r, new) /\ SameProcess(r, new)
    BY <1>0, <1>1 DEF Did, Becomes, Pick, SameOutcome, SameProcess, r, new
  <2>2. /\ new.mem \in Rows \cup {NoRow} /\ new.row \in Rows \cup {NoRow}
        /\ new.lost \in 0..MaxEvents
    BY <1>0, <1>1, <2>1 DEF Did, JobState, TerminalStatuses, r
  <2>3. new \in JobState
    BY <1>0, <1>1, <2>1, <2>2, JobTyped, TypedJob DEF Did, Becomes, SameOutcome,
       SameProcess, Typed, Pcs, CliPcs, Writing, CliRecords, Outcomes, new
  <2>4. Good(j, r, new, status, status')
    BY <1>0, <1>1, <2>1, <2>3, JobTyped DEF SameOutcome, SameProcess, Typed, Good,
       PendingAnswered, GreenDelivered, OverrideKept, RowLeft, JobInv, FateInv,
       RowInv, RecordInv, LockInv, SpendInv, StatusInv, PendingInv, GreenInv,
       OverrideInv, Early, Late, InReview, Admitted, Terminal, SpentRow, CliPcs,
       Writing, NoRow, Rows, ActiveStatuses, UnspentStatuses
  <2>5. Frame(j)
    BY <1>1 DEF Did, Becomes, Frame
  <2> QED
    BY <2>4, <2>5 DEF Kept, r, new
<1>2. ASSUME Did(j, [pc |-> "close", threw |-> TRUE], NoRow, job[j].lost + 1),
             r.pc = "gate", status' = status
      PROVE  Kept(j)
  <2>1. /\ new.pc = "close" /\ new.mem = r.mem /\ new.row = NoRow
        /\ new.lost = r.lost + 1 /\ SameOutcome(r, new) /\ new.lock = r.lock
        /\ new.threw = TRUE /\ new.sig = r.sig /\ new.fate = r.fate
    BY <1>0, <1>2 DEF Did, Becomes, Pick, SameOutcome, SameProcess, r, new
  <2>2. /\ new.mem \in Rows \cup {NoRow} /\ new.row \in Rows \cup {NoRow}
        /\ new.lost \in 0..MaxEvents
    BY <1>0, <1>2, <2>1 DEF Did, JobState, TerminalStatuses, r
  <2>3. new \in JobState
    BY <1>0, <1>2, <2>1, <2>2, JobTyped, TypedJob DEF Did, Becomes, SameOutcome,
       SameProcess, Typed, Pcs, CliPcs, Writing, CliRecords, Outcomes, new
  <2>4. Good(j, r, new, status, status')
    BY <1>0, <1>2, <2>1, <2>3, JobTyped DEF SameOutcome, SameProcess, Typed, Good,
       PendingAnswered, GreenDelivered, OverrideKept, RowLeft, JobInv, FateInv,
       RowInv, RecordInv, LockInv, SpendInv, StatusInv, PendingInv, GreenInv,
       OverrideInv, Early, Late, InReview, Admitted, Terminal, SpentRow, CliPcs,
       Writing, NoRow, Rows, ActiveStatuses, UnspentStatuses
  <2>5. Frame(j)
    BY <1>2 DEF Did, Becomes, Frame
  <2> QED
    BY <2>4, <2>5 DEF Kept, r, new
<1> QED
  BY <1>1, <1>2, SetLostDid, PutDid, ReservedIs DEF ReserveRow, Changes, At, r, new

\* From here the row in memory is the row at GitHub.
LEMMA HoldRowGood ==
  ASSUME CiInv, NEW j \in Jobs, HoldRow(j)
  PROVE  Kept(j)
<1> DEFINE r == job[j]
           new == job'[j]
<1> HIDE DEF r, new
<1>0. r \in JobState /\ JobInv(r) /\ StatusInv(j, r, status) /\ r.lost \in Nat
  BY JobOf DEF r
<1>1. ASSUME Did(j, [pc |-> "checks", mem |-> job[j].row], job[j].row, job[j].lost),
             r.pc = "reserved", status' = status
      PROVE  Kept(j)
  <2>1. /\ new.pc = "checks" /\ new.mem = r.row /\ new.row = r.row /\ new.lost = r.lost
        /\ SameOutcome(r, new) /\ SameProcess(r, new)
    BY <1>0, <1>1 DEF Did, Becomes, Pick, SameOutcome, SameProcess, r, new
  <2>2. /\ new.mem \in Rows \cup {NoRow} /\ new.row \in Rows \cup {NoRow}
        /\ new.lost \in 0..MaxEvents
    BY <1>0, <1>1, <2>1 DEF Did, JobState, TerminalStatuses, r
  <2>3. new \in JobState
    BY <1>0, <1>1, <2>1, <2>2, JobTyped, TypedJob DEF Did, Becomes, SameOutcome,
       SameProcess, Typed, Pcs, CliPcs, Writing, CliRecords, Outcomes, new
  <2>4. Good(j, r, new, status, status')
    BY <1>0, <1>1, <2>1, <2>3, JobTyped DEF SameOutcome, SameProcess, Typed, Good,
       PendingAnswered, GreenDelivered, OverrideKept, RowLeft, JobInv, FateInv,
       RowInv, RecordInv, LockInv, SpendInv, StatusInv, PendingInv, GreenInv,
       OverrideInv, Early, Late, InReview, Admitted, Terminal, SpentRow, CliPcs,
       Writing
  <2>5. Frame(j)
    BY <1>1 DEF Did, Becomes, Frame
  <2> QED
    BY <2>4, <2>5 DEF Kept, r, new
<1> QED
  BY <1>1, SetDid DEF HoldRow, Changes, At, r, new

\* A skip after the reservation settles the row in memory; its write is to come.
LEMMA SizeSkipGood ==
  ASSUME CiInv, NEW j \in Jobs, SizeSkip(j)
  PROVE  Kept(j)
<1> DEFINE r == job[j]
           new == job'[j]
<1> HIDE DEF r, new
<1>0. r \in JobState /\ JobInv(r) /\ StatusInv(j, r, status) /\ r.lost \in Nat
  BY JobOf DEF r
<1>1. ASSUME Did(j, [pc |-> "sizing", mem |-> Ended(j, "gate-skipped")],
                 job[j].row, job[j].lost),
             r.pc \in {"checks", "plan"}, status' = status, Active(j)
      PROVE  Kept(j)
  <2>1. /\ new.pc = "sizing" /\ new.mem = Ended(j, "gate-skipped") /\ new.row = r.row
        /\ new.lost = r.lost /\ SameOutcome(r, new) /\ SameProcess(r, new)
    BY <1>0, <1>1 DEF Did, Becomes, Pick, SameOutcome, SameProcess, r, new
  <2>2. /\ new.mem \in Rows \cup {NoRow} /\ new.row \in Rows \cup {NoRow}
        /\ new.lost \in 0..MaxEvents
    BY <1>0, <1>1, <2>1, EndedIs DEF Did, JobState, TerminalStatuses, r
  <2>3. new \in JobState
    BY <1>0, <1>1, <2>1, <2>2, JobTyped, TypedJob DEF Did, Becomes, SameOutcome,
       SameProcess, Typed, Pcs, CliPcs, Writing, CliRecords, Outcomes, new
  <2>4. Good(j, r, new, status, status')
    BY <1>0, <1>1, <2>1, <2>3, EndedIs, JobTyped DEF SameOutcome, SameProcess, Typed,
       Good, PendingAnswered, GreenDelivered, OverrideKept, RowLeft, JobInv,
       FateInv, RowInv, RecordInv, LockInv, SpendInv, StatusInv, PendingInv,
       GreenInv, OverrideInv, Early, Late, InReview, Admitted, Terminal,
       SpentRow, CliPcs, Writing, Active, r, TerminalStatuses, ActiveStatuses,
       UnspentStatuses
  <2>5. Frame(j)
    BY <1>1 DEF Did, Becomes, Frame
  <2> QED
    BY <2>4, <2>5 DEF Kept, r, new
<1>2. ASSUME Did(j, [pc |-> "skipping"], job[j].row, job[j].lost),
             r.pc \in {"checks", "plan"}, status' = status
      PROVE  Kept(j)
  <2>1. /\ new.pc = "skipping" /\ new.mem = r.mem /\ new.row = r.row
        /\ new.lost = r.lost /\ SameOutcome(r, new) /\ SameProcess(r, new)
    BY <1>0, <1>2 DEF Did, Becomes, Pick, SameOutcome, SameProcess, r, new
  <2>2. /\ new.mem \in Rows \cup {NoRow} /\ new.row \in Rows \cup {NoRow}
        /\ new.lost \in 0..MaxEvents
    BY <1>0, <1>2, <2>1 DEF Did, JobState, TerminalStatuses, r
  <2>3. new \in JobState
    BY <1>0, <1>2, <2>1, <2>2, JobTyped, TypedJob DEF Did, Becomes, SameOutcome,
       SameProcess, Typed, Pcs, CliPcs, Writing, CliRecords, Outcomes, new
  <2>4. Good(j, r, new, status, status')
    BY <1>0, <1>2, <2>1, <2>3, JobTyped DEF SameOutcome, SameProcess, Typed, Good,
       PendingAnswered, GreenDelivered, OverrideKept, RowLeft, JobInv, FateInv,
       RowInv, RecordInv, LockInv, SpendInv, StatusInv, PendingInv, GreenInv,
       OverrideInv, Early, Late, InReview, Admitted, Terminal, SpentRow, CliPcs,
       Writing, Active, r, TerminalStatuses, ActiveStatuses, UnspentStatuses
  <2>5. Frame(j)
    BY <1>2 DEF Did, Becomes, Frame
  <2> QED
    BY <2>4, <2>5 DEF Kept, r, new
<1> QED
  BY <1>1, <1>2, SetDid DEF SettleRow, SizeSkip, Changes, At, r, new

\* The same for a run that stands down.
LEMMA YieldGood ==
  ASSUME CiInv, NEW j \in Jobs, Yield(j)
  PROVE  Kept(j)
<1> DEFINE r == job[j]
           new == job'[j]
<1> HIDE DEF r, new
<1>0. r \in JobState /\ JobInv(r) /\ StatusInv(j, r, status) /\ r.lost \in Nat
  BY JobOf DEF r
<1>1. ASSUME Did(j, [pc |-> "yielding", mem |-> Ended(j, "yielded")],
                 job[j].row, job[j].lost),
             r.pc = "checks", status' = status, Active(j)
      PROVE  Kept(j)
  <2>1. /\ new.pc = "yielding" /\ new.mem = Ended(j, "yielded") /\ new.row = r.row
        /\ new.lost = r.lost /\ SameOutcome(r, new) /\ SameProcess(r, new)
    BY <1>0, <1>1 DEF Did, Becomes, Pick, SameOutcome, SameProcess, r, new
  <2>2. /\ new.mem \in Rows \cup {NoRow} /\ new.row \in Rows \cup {NoRow}
        /\ new.lost \in 0..MaxEvents
    BY <1>0, <1>1, <2>1, EndedIs DEF Did, JobState, TerminalStatuses, r
  <2>3. new \in JobState
    BY <1>0, <1>1, <2>1, <2>2, JobTyped, TypedJob DEF Did, Becomes, SameOutcome,
       SameProcess, Typed, Pcs, CliPcs, Writing, CliRecords, Outcomes, new
  <2>4. Good(j, r, new, status, status')
    BY <1>0, <1>1, <2>1, <2>3, EndedIs, JobTyped DEF SameOutcome, SameProcess, Typed,
       Good, PendingAnswered, GreenDelivered, OverrideKept, RowLeft, JobInv,
       FateInv, RowInv, RecordInv, LockInv, SpendInv, StatusInv, PendingInv,
       GreenInv, OverrideInv, Early, Late, InReview, Admitted, Terminal,
       SpentRow, CliPcs, Writing, Active, r, TerminalStatuses, ActiveStatuses,
       UnspentStatuses
  <2>5. Frame(j)
    BY <1>1 DEF Did, Becomes, Frame
  <2> QED
    BY <2>4, <2>5 DEF Kept, r, new
<1>2. ASSUME Did(j, [pc |-> "close", rec |-> "yielded"], job[j].row, job[j].lost),
             r.pc = "checks", status' = status
      PROVE  Kept(j)
  <2>1. /\ new.pc = "close" /\ new.mem = r.mem /\ new.row = r.row /\ new.lost = r.lost
        /\ new.kind = r.kind /\ new.out = r.out /\ new.rec = "yielded"
        /\ new.due = r.due /\ new.cut = r.cut /\ SameProcess(r, new)
    BY <1>0, <1>2 DEF Did, Becomes, Pick, SameOutcome, SameProcess, r, new
  <2>2. /\ new.mem \in Rows \cup {NoRow} /\ new.row \in Rows \cup {NoRow}
        /\ new.lost \in 0..MaxEvents
    BY <1>0, <1>2, <2>1 DEF Did, JobState, TerminalStatuses, r
  <2>3. new \in JobState
    BY <1>0, <1>2, <2>1, <2>2, JobTyped, TypedJob DEF Did, Becomes, SameOutcome,
       SameProcess, Typed, Pcs, CliPcs, Writing, CliRecords, Outcomes, new
  <2>4. Good(j, r, new, status, status')
    BY <1>0, <1>2, <2>1, <2>3, JobTyped DEF SameOutcome, SameProcess, Typed, Good,
       PendingAnswered, GreenDelivered, OverrideKept, RowLeft, JobInv, FateInv,
       RowInv, RecordInv, LockInv, SpendInv, StatusInv, PendingInv, GreenInv,
       OverrideInv, Early, Late, InReview, Admitted, Terminal, SpentRow, CliPcs,
       Writing, Active, r, TerminalStatuses, ActiveStatuses, UnspentStatuses
  <2>5. Frame(j)
    BY <1>2 DEF Did, Becomes, Frame
  <2> QED
    BY <2>4, <2>5 DEF Kept, r, new
<1> QED
  BY <1>1, <1>2, SetDid DEF SettleRow, Yield, Changes, At, r, new

\* A run that goes on has only read.
LEMMA GoOnGood ==
  ASSUME CiInv, NEW j \in Jobs, GoOn(j)
  PROVE  Kept(j)
<1> DEFINE r == job[j]
           new == job'[j]
<1> HIDE DEF r, new
<1>0. r \in JobState /\ JobInv(r) /\ StatusInv(j, r, status) /\ r.lost \in Nat
  BY JobOf DEF r
<1>1. ASSUME NEW lost \in {r.lost, r.lost + 1},
             Did(j, [pc |-> "plan"], job[j].row, lost), r.pc = "checks",
             status' = status
      PROVE  Kept(j)
  <2>1. /\ new.pc = "plan" /\ new.mem = r.mem /\ new.row = r.row /\ new.lost = lost
        /\ SameOutcome(r, new) /\ SameProcess(r, new)
    BY <1>0, <1>1 DEF Did, Becomes, Pick, SameOutcome, SameProcess, r, new
  <2>2. /\ new.mem \in Rows \cup {NoRow} /\ new.row \in Rows \cup {NoRow}
        /\ new.lost \in 0..MaxEvents
    BY <1>0, <1>1, <2>1 DEF Did, JobState, TerminalStatuses, r
  <2>3. new \in JobState
    BY <1>0, <1>1, <2>1, <2>2, JobTyped, TypedJob DEF Did, Becomes, SameOutcome,
       SameProcess, Typed, Pcs, CliPcs, Writing, CliRecords, Outcomes, new
  <2>4. Good(j, r, new, status, status')
    BY <1>0, <1>1, <2>1, <2>3, JobTyped DEF SameOutcome, SameProcess, Typed, Good,
       PendingAnswered, GreenDelivered, OverrideKept, RowLeft, JobInv, FateInv,
       RowInv, RecordInv, LockInv, SpendInv, StatusInv, PendingInv, GreenInv,
       OverrideInv, Early, Late, InReview, Admitted, Terminal, SpentRow, CliPcs,
       Writing
  <2>5. Frame(j)
    BY <1>1 DEF Did, Becomes, Frame
  <2> QED
    BY <2>4, <2>5 DEF Kept, r, new
<1> QED
  BY <1>1, SetDid, SetLostDid DEF GoOn, Changes, At, r, new

\* A skip that saw an override does not write; one that could not ask lost a call.
LEMMA SkipReadGood ==
  ASSUME CiInv, NEW j \in Jobs, SkipRead(j)
  PROVE  Kept(j)
<1> DEFINE r == job[j]
           new == job'[j]
<1> HIDE DEF r, new
<1>0. r \in JobState /\ JobInv(r) /\ StatusInv(j, r, status) /\ r.lost \in Nat
  BY JobOf DEF r
<1>1. ASSUME Did(j, [pc |-> "close", rec |-> "skipped"], job[j].row, job[j].lost),
             r.pc = "skipping", status' = status
      PROVE  Kept(j)
  <2>1. /\ new.pc = "close" /\ new.mem = r.mem /\ new.row = r.row /\ new.lost = r.lost
        /\ new.kind = r.kind /\ new.out = r.out /\ new.rec = "skipped"
        /\ new.due = r.due /\ new.cut = r.cut /\ SameProcess(r, new)
    BY <1>0, <1>1 DEF Did, Becomes, Pick, SameOutcome, SameProcess, r, new
  <2>2. /\ new.mem \in Rows \cup {NoRow} /\ new.row \in Rows \cup {NoRow}
        /\ new.lost \in 0..MaxEvents
    BY <1>0, <1>1, <2>1 DEF Did, JobState, TerminalStatuses, r
  <2>3. new \in JobState
    BY <1>0, <1>1, <2>1, <2>2, JobTyped, TypedJob DEF Did, Becomes, SameOutcome,
       SameProcess, Typed, Pcs, CliPcs, Writing, CliRecords, Outcomes, new
  <2>4. Good(j, r, new, status, status')
    BY <1>0, <1>1, <2>1, <2>3, JobTyped DEF SameOutcome, SameProcess, Typed, Good,
       PendingAnswered, GreenDelivered, OverrideKept, RowLeft, JobInv, FateInv,
       RowInv, RecordInv, LockInv, SpendInv, StatusInv, PendingInv, GreenInv,
       OverrideInv, Early, Late, InReview, Admitted, Terminal, SpentRow, CliPcs,
       Writing
  <2>5. Frame(j)
    BY <1>1 DEF Did, Becomes, Frame
  <2> QED
    BY <2>4, <2>5 DEF Kept, r, new
<1>2. ASSUME Did(j, [pc |-> "skip"], job[j].row, job[j].lost), r.pc = "skipping",
             status' = status, status.s # "override"
      PROVE  Kept(j)
  <2>1. /\ new.pc = "skip" /\ new.mem = r.mem /\ new.row = r.row /\ new.lost = r.lost
        /\ SameOutcome(r, new) /\ SameProcess(r, new)
    BY <1>0, <1>2 DEF Did, Becomes, Pick, SameOutcome, SameProcess, r, new
  <2>2. /\ new.mem \in Rows \cup {NoRow} /\ new.row \in Rows \cup {NoRow}
        /\ new.lost \in 0..MaxEvents
    BY <1>0, <1>2, <2>1 DEF Did, JobState, TerminalStatuses, r
  <2>3. new \in JobState
    BY <1>0, <1>2, <2>1, <2>2, JobTyped, TypedJob DEF Did, Becomes, SameOutcome,
       SameProcess, Typed, Pcs, CliPcs, Writing, CliRecords, Outcomes, new
  <2>4. Good(j, r, new, status, status')
    BY <1>0, <1>2, <2>1, <2>3, JobTyped DEF SameOutcome, SameProcess, Typed, Good,
       PendingAnswered, GreenDelivered, OverrideKept, RowLeft, JobInv, FateInv,
       RowInv, RecordInv, LockInv, SpendInv, StatusInv, PendingInv, GreenInv,
       OverrideInv, Early, Late, InReview, Admitted, Terminal, SpentRow, CliPcs,
       Writing
  <2>5. Frame(j)
    BY <1>2 DEF Did, Becomes, Frame
  <2> QED
    BY <2>4, <2>5 DEF Kept, r, new
<1>3. ASSUME Did(j, [pc |-> "skip"], job[j].row, job[j].lost + 1), r.pc = "skipping",
             status' = status
      PROVE  Kept(j)
  <2>1. /\ new.pc = "skip" /\ new.mem = r.mem /\ new.row = r.row
        /\ new.lost = r.lost + 1 /\ SameOutcome(r, new) /\ SameProcess(r, new)
    BY <1>0, <1>3 DEF Did, Becomes, Pick, SameOutcome, SameProcess, r, new
  <2>2. /\ new.mem \in Rows \cup {NoRow} /\ new.row \in Rows \cup {NoRow}
        /\ new.lost \in 0..MaxEvents
    BY <1>0, <1>3, <2>1 DEF Did, JobState, TerminalStatuses, r
  <2>3. new \in JobState
    BY <1>0, <1>3, <2>1, <2>2, JobTyped, TypedJob DEF Did, Becomes, SameOutcome,
       SameProcess, Typed, Pcs, CliPcs, Writing, CliRecords, Outcomes, new
  <2>4. Good(j, r, new, status, status')
    BY <1>0, <1>3, <2>1, <2>3, JobTyped DEF SameOutcome, SameProcess, Typed, Good,
       PendingAnswered, GreenDelivered, OverrideKept, RowLeft, JobInv, FateInv,
       RowInv, RecordInv, LockInv, SpendInv, StatusInv, PendingInv, GreenInv,
       OverrideInv, Early, Late, InReview, Admitted, Terminal, SpentRow, CliPcs,
       Writing
  <2>5. Frame(j)
    BY <1>3 DEF Did, Becomes, Frame
  <2> QED
    BY <2>4, <2>5 DEF Kept, r, new
<1> QED
  BY <1>1, <1>2, <1>3, SetDid, SetLostDid DEF SkipRead, Changes, At, r, new

\* A skip that writes over an override had read the status before it was posted, or
\* could not read it.
LEMMA SkipWriteGood ==
  ASSUME CiInv, NEW j \in Jobs, SkipWrite(j)
  PROVE  Kept(j)
<1> DEFINE r == job[j]
           new == job'[j]
<1> HIDE DEF r, new
<1>0. r \in JobState /\ JobInv(r) /\ StatusInv(j, r, status) /\ r.lost \in Nat
  BY JobOf DEF r
<1>1. ASSUME NEW s \in Verdicts \cup {"hold"},
             Did(j, [pc |-> "close", rec |-> "skipped"], job[j].row, job[j].lost),
             r.pc = "skip", status' = StatusRow(s, j)
      PROVE  Kept(j)
  <2>1. /\ new.pc = "close" /\ new.mem = r.mem /\ new.row = r.row /\ new.lost = r.lost
        /\ new.kind = r.kind /\ new.out = r.out /\ new.rec = "skipped"
        /\ new.due = r.due /\ new.cut = r.cut /\ SameProcess(r, new)
    BY <1>0, <1>1 DEF Did, Becomes, Pick, SameOutcome, SameProcess, r, new
  <2>2. /\ new.mem \in Rows \cup {NoRow} /\ new.row \in Rows \cup {NoRow}
        /\ new.lost \in 0..MaxEvents
    BY <1>0, <1>1, <2>1 DEF Did, JobState, TerminalStatuses, r
  <2>3. new \in JobState
    BY <1>0, <1>1, <2>1, <2>2, JobTyped, TypedJob DEF Did, Becomes, SameOutcome,
       SameProcess, Typed, Pcs, CliPcs, Writing, CliRecords, Outcomes, new
  <2>4. Good(j, r, new, status, status')
    BY <1>0, <1>1, <2>1, <2>3, JobTyped DEF SameOutcome, SameProcess, Typed, Good,
       PendingAnswered, GreenDelivered, OverrideKept, RowLeft, JobInv, FateInv,
       RowInv, RecordInv, LockInv, SpendInv, StatusInv, PendingInv, GreenInv,
       OverrideInv, Early, Late, InReview, Admitted, Terminal, SpentRow, CliPcs,
       Writing, Verdicts, StatusRow
  <2>5. Frame(j)
    BY <1>0, <1>1, <2>1 DEF Did, Becomes, Frame, Posts, Verdicts, Completion, JobState,
       JobInv, RecordInv
  <2> QED
    BY <2>4, <2>5 DEF Kept, r, new
<1>2. ASSUME NEW s \in Verdicts \cup {"hold"},
             Did(j, [pc |-> "close", threw |-> TRUE], job[j].row, job[j].lost + 1),
             r.pc = "skip", status' = status \/ status' = StatusRow(s, j)
      PROVE  Kept(j)
  <2>1. /\ new.pc = "close" /\ new.mem = r.mem /\ new.row = r.row
        /\ new.lost = r.lost + 1 /\ SameOutcome(r, new) /\ new.lock = r.lock
        /\ new.threw = TRUE /\ new.sig = r.sig /\ new.fate = r.fate
    BY <1>0, <1>2 DEF Did, Becomes, Pick, SameOutcome, SameProcess, r, new
  <2>2. /\ new.mem \in Rows \cup {NoRow} /\ new.row \in Rows \cup {NoRow}
        /\ new.lost \in 0..MaxEvents
    BY <1>0, <1>2, <2>1 DEF Did, JobState, TerminalStatuses, r
  <2>3. new \in JobState
    BY <1>0, <1>2, <2>1, <2>2, JobTyped, TypedJob DEF Did, Becomes, SameOutcome,
       SameProcess, Typed, Pcs, CliPcs, Writing, CliRecords, Outcomes, new
  <2>4. Good(j, r, new, status, status')
    BY <1>0, <1>2, <2>1, <2>3, JobTyped DEF SameOutcome, SameProcess, Typed, Good,
       PendingAnswered, GreenDelivered, OverrideKept, RowLeft, JobInv, FateInv,
       RowInv, RecordInv, LockInv, SpendInv, StatusInv, PendingInv, GreenInv,
       OverrideInv, Early, Late, InReview, Admitted, Terminal, SpentRow, CliPcs,
       Writing, Verdicts, StatusRow
  <2>5. Frame(j)
    BY <1>0, <1>2, <2>1 DEF Did, Becomes, Frame, Posts, Verdicts, Completion, JobState,
       JobInv, RecordInv
  <2> QED
    BY <2>4, <2>5 DEF Kept, r, new
<1> QED
  BY <1>1, <1>2, PostDid DEF SkipWrite, Changes, At, r, new

\* The record says that the review began before the head says so: a publisher that
\* finds the pending finds a record to answer it by.
LEMMA BeginGood ==
  ASSUME CiInv, NEW j \in Jobs, Begin(j)
  PROVE  Kept(j)
<1> DEFINE r == job[j]
           new == job'[j]
<1> HIDE DEF r, new
<1>0. r \in JobState /\ JobInv(r) /\ StatusInv(j, r, status) /\ r.lost \in Nat
  BY JobOf DEF r
<1>1. ASSUME Did(j, [pc |-> "pending", rec |-> "reviewing"], job[j].row, job[j].lost),
             r.pc = "plan", status' = status
      PROVE  Kept(j)
  <2>1. /\ new.pc = "pending" /\ new.mem = r.mem /\ new.row = r.row /\ new.lost = r.lost
        /\ new.kind = r.kind /\ new.out = r.out /\ new.rec = "reviewing"
        /\ new.due = r.due /\ new.cut = r.cut /\ SameProcess(r, new)
    BY <1>0, <1>1 DEF Did, Becomes, Pick, SameOutcome, SameProcess, r, new
  <2>2. /\ new.mem \in Rows \cup {NoRow} /\ new.row \in Rows \cup {NoRow}
        /\ new.lost \in 0..MaxEvents
    BY <1>0, <1>1, <2>1 DEF Did, JobState, TerminalStatuses, r
  <2>3. new \in JobState
    BY <1>0, <1>1, <2>1, <2>2, JobTyped, TypedJob DEF Did, Becomes, SameOutcome,
       SameProcess, Typed, Pcs, CliPcs, Writing, CliRecords, Outcomes, new
  <2>4. Good(j, r, new, status, status')
    BY <1>0, <1>1, <2>1, <2>3, JobTyped DEF SameOutcome, SameProcess, Typed, Good,
       PendingAnswered, GreenDelivered, OverrideKept, RowLeft, JobInv, FateInv,
       RowInv, RecordInv, LockInv, SpendInv, StatusInv, PendingInv, GreenInv,
       OverrideInv, Early, Late, InReview, Admitted, Terminal, SpentRow, CliPcs,
       Writing
  <2>5. Frame(j)
    BY <1>1 DEF Did, Becomes, Frame
  <2> QED
    BY <2>4, <2>5 DEF Kept, r, new
<1> QED
  BY <1>1, SetDid DEF Begin, Changes, At, r, new

\* The pending belongs to a review with a record.
LEMMA PostPendingGood ==
  ASSUME CiInv, NEW j \in Jobs, PostPending(j)
  PROVE  Kept(j)
<1> DEFINE r == job[j]
           new == job'[j]
<1> HIDE DEF r, new
<1>0. r \in JobState /\ JobInv(r) /\ StatusInv(j, r, status) /\ r.lost \in Nat
  BY JobOf DEF r
<1>1. ASSUME Did(j, [pc |-> "posted"], job[j].row, job[j].lost), r.pc = "pending",
             status' = StatusRow("pending", j)
      PROVE  Kept(j)
  <2>1. /\ new.pc = "posted" /\ new.mem = r.mem /\ new.row = r.row /\ new.lost = r.lost
        /\ SameOutcome(r, new) /\ SameProcess(r, new)
    BY <1>0, <1>1 DEF Did, Becomes, Pick, SameOutcome, SameProcess, r, new
  <2>2. /\ new.mem \in Rows \cup {NoRow} /\ new.row \in Rows \cup {NoRow}
        /\ new.lost \in 0..MaxEvents
    BY <1>0, <1>1, <2>1 DEF Did, JobState, TerminalStatuses, r
  <2>3. new \in JobState
    BY <1>0, <1>1, <2>1, <2>2, JobTyped, TypedJob DEF Did, Becomes, SameOutcome,
       SameProcess, Typed, Pcs, CliPcs, Writing, CliRecords, Outcomes, new
  <2>4. Good(j, r, new, status, status')
    BY <1>0, <1>1, <2>1, <2>3, JobTyped DEF SameOutcome, SameProcess, Typed, Good,
       PendingAnswered, GreenDelivered, OverrideKept, RowLeft, JobInv, FateInv,
       RowInv, RecordInv, LockInv, SpendInv, StatusInv, PendingInv, GreenInv,
       OverrideInv, Early, Late, InReview, Admitted, Terminal, SpentRow, CliPcs,
       Writing, Verdicts, StatusRow
  <2>5. Frame(j)
    BY <1>0, <1>1, <2>1 DEF Did, Becomes, Frame, Posts, Verdicts, Completion, JobState,
       JobInv, RecordInv
  <2> QED
    BY <2>4, <2>5 DEF Kept, r, new
<1>2. ASSUME Did(j, [pc |-> "posted"], job[j].row, job[j].lost + 1), r.pc = "pending",
             status' = status \/ status' = StatusRow("pending", j)
      PROVE  Kept(j)
  <2>1. /\ new.pc = "posted" /\ new.mem = r.mem /\ new.row = r.row
        /\ new.lost = r.lost + 1 /\ SameOutcome(r, new) /\ SameProcess(r, new)
    BY <1>0, <1>2 DEF Did, Becomes, Pick, SameOutcome, SameProcess, r, new
  <2>2. /\ new.mem \in Rows \cup {NoRow} /\ new.row \in Rows \cup {NoRow}
        /\ new.lost \in 0..MaxEvents
    BY <1>0, <1>2, <2>1 DEF Did, JobState, TerminalStatuses, r
  <2>3. new \in JobState
    BY <1>0, <1>2, <2>1, <2>2, JobTyped, TypedJob DEF Did, Becomes, SameOutcome,
       SameProcess, Typed, Pcs, CliPcs, Writing, CliRecords, Outcomes, new
  <2>4. Good(j, r, new, status, status')
    BY <1>0, <1>2, <2>1, <2>3, JobTyped DEF SameOutcome, SameProcess, Typed, Good,
       PendingAnswered, GreenDelivered, OverrideKept, RowLeft, JobInv, FateInv,
       RowInv, RecordInv, LockInv, SpendInv, StatusInv, PendingInv, GreenInv,
       OverrideInv, Early, Late, InReview, Admitted, Terminal, SpentRow, CliPcs,
       Writing, Verdicts, StatusRow
  <2>5. Frame(j)
    BY <1>0, <1>2, <2>1 DEF Did, Becomes, Frame, Posts, Verdicts, Completion, JobState,
       JobInv, RecordInv
  <2> QED
    BY <2>4, <2>5 DEF Kept, r, new
<1> QED
  BY <1>1, <1>2, PostDid DEF PostPending, Changes, At, r, new

\* The lock is held before anything is settled.
LEMMA HoldLockGood ==
  ASSUME CiInv, NEW j \in Jobs, HoldLock(j)
  PROVE  Kept(j)
<1> DEFINE r == job[j]
           new == job'[j]
<1> HIDE DEF r, new
<1>0. r \in JobState /\ JobInv(r) /\ StatusInv(j, r, status) /\ r.lost \in Nat
  BY JobOf DEF r
<1>1. ASSUME Did(j, [pc |-> "setup", lock |-> TRUE], job[j].row, job[j].lost),
             r.pc = "posted", status' = status
      PROVE  Kept(j)
  <2>1. /\ new.pc = "setup" /\ new.mem = r.mem /\ new.row = r.row /\ new.lost = r.lost
        /\ SameOutcome(r, new) /\ new.lock = TRUE /\ new.threw = r.threw
        /\ new.sig = r.sig /\ new.fate = r.fate
    BY <1>0, <1>1 DEF Did, Becomes, Pick, SameOutcome, SameProcess, r, new
  <2>2. /\ new.mem \in Rows \cup {NoRow} /\ new.row \in Rows \cup {NoRow}
        /\ new.lost \in 0..MaxEvents
    BY <1>0, <1>1, <2>1 DEF Did, JobState, TerminalStatuses, r
  <2>3. new \in JobState
    BY <1>0, <1>1, <2>1, <2>2, JobTyped, TypedJob DEF Did, Becomes, SameOutcome,
       SameProcess, Typed, Pcs, CliPcs, Writing, CliRecords, Outcomes, new
  <2>4. Good(j, r, new, status, status')
    BY <1>0, <1>1, <2>1, <2>3, JobTyped DEF SameOutcome, SameProcess, Typed, Good,
       PendingAnswered, GreenDelivered, OverrideKept, RowLeft, JobInv, FateInv,
       RowInv, RecordInv, LockInv, SpendInv, StatusInv, PendingInv, GreenInv,
       OverrideInv, Early, Late, InReview, Admitted, Terminal, SpentRow, CliPcs,
       Writing
  <2>5. Frame(j)
    BY <1>1 DEF Did, Becomes, Frame
  <2> QED
    BY <2>4, <2>5 DEF Kept, r, new
<1> QED
  BY <1>1, SetDid DEF HoldLock, Changes, At, r, new

\* The record says so before the pipeline runs, and still counts; its write is to come.
LEMMA StartProviderGood ==
  ASSUME CiInv, NEW j \in Jobs, StartProvider(j)
  PROVE  Kept(j)
<1> DEFINE r == job[j]
           new == job'[j]
<1> HIDE DEF r, new
<1>0. r \in JobState /\ JobInv(r) /\ StatusInv(j, r, status) /\ r.lost \in Nat
  BY JobOf DEF r
<1>1. ASSUME Did(j, [pc |-> "starting", mem |-> Ended(j, "provider-started")],
                 job[j].row, job[j].lost),
             r.pc = "setup", status' = status, Active(j)
      PROVE  Kept(j)
  <2>1. /\ new.pc = "starting" /\ new.mem = Ended(j, "provider-started") /\ new.row = r.row
        /\ new.lost = r.lost /\ SameOutcome(r, new) /\ SameProcess(r, new)
    BY <1>0, <1>1 DEF Did, Becomes, Pick, SameOutcome, SameProcess, r, new
  <2>2. /\ new.mem \in Rows \cup {NoRow} /\ new.row \in Rows \cup {NoRow}
        /\ new.lost \in 0..MaxEvents
    BY <1>0, <1>1, <2>1, EndedIs DEF Did, JobState, TerminalStatuses, r
  <2>3. new \in JobState
    BY <1>0, <1>1, <2>1, <2>2, JobTyped, TypedJob DEF Did, Becomes, SameOutcome,
       SameProcess, Typed, Pcs, CliPcs, Writing, CliRecords, Outcomes, new
  <2>4. Good(j, r, new, status, status')
    BY <1>0, <1>1, <2>1, <2>3, EndedIs, JobTyped DEF SameOutcome, SameProcess, Typed,
       Good, PendingAnswered, GreenDelivered, OverrideKept, RowLeft, JobInv,
       FateInv, RowInv, RecordInv, LockInv, SpendInv, StatusInv, PendingInv,
       GreenInv, OverrideInv, Early, Late, InReview, Admitted, Terminal,
       SpentRow, CliPcs, Writing, Active, r, TerminalStatuses, ActiveStatuses,
       UnspentStatuses
  <2>5. Frame(j)
    BY <1>1 DEF Did, Becomes, Frame
  <2> QED
    BY <2>4, <2>5 DEF Kept, r, new
<1>2. ASSUME Did(j, [pc |-> "review", out |-> "running"], job[j].row, job[j].lost),
             r.pc = "setup", status' = status
      PROVE  Kept(j)
  <2>1. /\ new.pc = "review" /\ new.mem = r.mem /\ new.row = r.row /\ new.lost = r.lost
        /\ new.kind = r.kind /\ new.out = "running" /\ new.rec = r.rec
        /\ new.due = r.due /\ new.cut = r.cut /\ SameProcess(r, new)
    BY <1>0, <1>2 DEF Did, Becomes, Pick, SameOutcome, SameProcess, r, new
  <2>2. /\ new.mem \in Rows \cup {NoRow} /\ new.row \in Rows \cup {NoRow}
        /\ new.lost \in 0..MaxEvents
    BY <1>0, <1>2, <2>1 DEF Did, JobState, TerminalStatuses, r
  <2>3. new \in JobState
    BY <1>0, <1>2, <2>1, <2>2, JobTyped, TypedJob DEF Did, Becomes, SameOutcome,
       SameProcess, Typed, Pcs, CliPcs, Writing, CliRecords, Outcomes, new
  <2>4. Good(j, r, new, status, status')
    BY <1>0, <1>2, <2>1, <2>3, JobTyped DEF SameOutcome, SameProcess, Typed, Good,
       PendingAnswered, GreenDelivered, OverrideKept, RowLeft, JobInv, FateInv,
       RowInv, RecordInv, LockInv, SpendInv, StatusInv, PendingInv, GreenInv,
       OverrideInv, Early, Late, InReview, Admitted, Terminal, SpentRow, CliPcs,
       Writing, Active, r, TerminalStatuses, ActiveStatuses, UnspentStatuses
  <2>5. Frame(j)
    BY <1>2 DEF Did, Becomes, Frame
  <2> QED
    BY <2>4, <2>5 DEF Kept, r, new
<1> QED
  BY <1>1, <1>2, SetDid DEF SettleRow, StartProvider, Changes, At, r, new

\* The pipeline ends with an outcome, and a failed one leaves its own record.
LEMMA RunPipelineGood ==
  ASSUME CiInv, NEW j \in Jobs, RunPipeline(j)
  PROVE  Kept(j)
<1> DEFINE r == job[j]
           new == job'[j]
<1> HIDE DEF r, new
<1>0. r \in JobState /\ JobInv(r) /\ StatusInv(j, r, status) /\ r.lost \in Nat
  BY JobOf DEF r
<1>1. ASSUME NEW out \in {"failed", "idle", "clean", "red"},
             Did(j, [pc |-> "deliver", out |-> out,
                       rec |-> IF out = "failed" THEN "hunters-failed" ELSE job[j].rec],
                 job[j].row, job[j].lost),
             r.pc = "review", status' = status
      PROVE  Kept(j)
  <2>1. /\ new.pc = "deliver" /\ new.mem = r.mem /\ new.row = r.row /\ new.lost = r.lost
        /\ new.kind = r.kind /\ new.out = out
        /\ new.rec = (IF out = "failed" THEN "hunters-failed" ELSE r.rec)
        /\ new.due = r.due /\ new.cut = r.cut /\ SameProcess(r, new)
    BY <1>0, <1>1 DEF Did, Becomes, Pick, SameOutcome, SameProcess, r, new
  <2>2. /\ new.mem \in Rows \cup {NoRow} /\ new.row \in Rows \cup {NoRow}
        /\ new.lost \in 0..MaxEvents
    BY <1>0, <1>1, <2>1 DEF Did, JobState, TerminalStatuses, r
  <2>3. new \in JobState
    BY <1>0, <1>1, <2>1, <2>2, JobTyped, TypedJob DEF Did, Becomes, SameOutcome,
       SameProcess, Typed, Pcs, CliPcs, Writing, CliRecords, Outcomes, new
  <2>4. Good(j, r, new, status, status')
    BY <1>0, <1>1, <2>1, <2>3, JobTyped DEF SameOutcome, SameProcess, Typed, Good,
       PendingAnswered, GreenDelivered, OverrideKept, RowLeft, JobInv, FateInv,
       RowInv, RecordInv, LockInv, SpendInv, StatusInv, PendingInv, GreenInv,
       OverrideInv, Early, Late, InReview, Admitted, Terminal, SpentRow, CliPcs,
       Writing, Outcomes
  <2>5. Frame(j)
    BY <1>1 DEF Did, Becomes, Frame
  <2> QED
    BY <2>4, <2>5 DEF Kept, r, new
<1> QED
  BY <1>1, SetDid DEF RunPipeline, Changes, At, r, new

\* An error thrown in the body leaves no outcome that is green.
LEMMA ThrowGood ==
  ASSUME CiInv, NEW j \in Jobs, Throw(j)
  PROVE  Kept(j)
<1> DEFINE r == job[j]
           new == job'[j]
<1> HIDE DEF r, new
<1>0. r \in JobState /\ JobInv(r) /\ StatusInv(j, r, status) /\ r.lost \in Nat
  BY JobOf DEF r
<1>1. ASSUME Did(j, [pc |-> "settle", threw |-> TRUE,
                       out |-> IF At(j, "deliver") THEN "running" ELSE job[j].out],
                 job[j].row, job[j].lost),
             r.pc \in {"setup", "review", "deliver"}, status' = status
      PROVE  Kept(j)
  <2>1. /\ new.pc = "settle" /\ new.mem = r.mem /\ new.row = r.row /\ new.lost = r.lost
        /\ new.kind = r.kind
        /\ new.out = (IF r.pc = "deliver" THEN "running" ELSE r.out) /\ new.rec = r.rec
        /\ new.due = r.due /\ new.cut = r.cut /\ new.lock = r.lock /\ new.threw = TRUE
        /\ new.sig = r.sig /\ new.fate = r.fate
    BY <1>0, <1>1 DEF Did, Becomes, Pick, SameOutcome, SameProcess, r, new, At
  <2>2. /\ new.mem \in Rows \cup {NoRow} /\ new.row \in Rows \cup {NoRow}
        /\ new.lost \in 0..MaxEvents
    BY <1>0, <1>1, <2>1 DEF Did, JobState, TerminalStatuses, r
  <2>3. new \in JobState
    BY <1>0, <1>1, <2>1, <2>2, JobTyped, TypedJob DEF Did, Becomes, SameOutcome,
       SameProcess, Typed, Pcs, CliPcs, Writing, CliRecords, Outcomes, new
  <2>4. Good(j, r, new, status, status')
    BY <1>0, <1>1, <2>1, <2>3, JobTyped DEF SameOutcome, SameProcess, Typed, Good,
       PendingAnswered, GreenDelivered, OverrideKept, RowLeft, JobInv, FateInv,
       RowInv, RecordInv, LockInv, SpendInv, StatusInv, PendingInv, GreenInv,
       OverrideInv, Early, Late, InReview, Admitted, Terminal, SpentRow, CliPcs,
       Writing, Outcomes
  <2>5. Frame(j)
    BY <1>1 DEF Did, Becomes, Frame
  <2> QED
    BY <2>4, <2>5 DEF Kept, r, new
<1> QED
  BY <1>1, SetDid DEF Throw, Changes, At, r, new

\* Findings that could not be posted leave the error in the record.
LEMMA PostingFailsGood ==
  ASSUME CiInv, NEW j \in Jobs, PostingFails(j)
  PROVE  Kept(j)
<1> DEFINE r == job[j]
           new == job'[j]
<1> HIDE DEF r, new
<1>0. r \in JobState /\ JobInv(r) /\ StatusInv(j, r, status) /\ r.lost \in Nat
  BY JobOf DEF r
<1>1. ASSUME Did(j, [pc |-> "settle", rec |-> "error"], job[j].row, job[j].lost),
             r.pc = "deliver", status' = status
      PROVE  Kept(j)
  <2>1. /\ new.pc = "settle" /\ new.mem = r.mem /\ new.row = r.row /\ new.lost = r.lost
        /\ new.kind = r.kind /\ new.out = r.out /\ new.rec = "error" /\ new.due = r.due
        /\ new.cut = r.cut /\ SameProcess(r, new)
    BY <1>0, <1>1 DEF Did, Becomes, Pick, SameOutcome, SameProcess, r, new
  <2>2. /\ new.mem \in Rows \cup {NoRow} /\ new.row \in Rows \cup {NoRow}
        /\ new.lost \in 0..MaxEvents
    BY <1>0, <1>1, <2>1 DEF Did, JobState, TerminalStatuses, r
  <2>3. new \in JobState
    BY <1>0, <1>1, <2>1, <2>2, JobTyped, TypedJob DEF Did, Becomes, SameOutcome,
       SameProcess, Typed, Pcs, CliPcs, Writing, CliRecords, Outcomes, new
  <2>4. Good(j, r, new, status, status')
    BY <1>0, <1>1, <2>1, <2>3, JobTyped DEF SameOutcome, SameProcess, Typed, Good,
       PendingAnswered, GreenDelivered, OverrideKept, RowLeft, JobInv, FateInv,
       RowInv, RecordInv, LockInv, SpendInv, StatusInv, PendingInv, GreenInv,
       OverrideInv, Early, Late, InReview, Admitted, Terminal, SpentRow, CliPcs,
       Writing
  <2>5. Frame(j)
    BY <1>1 DEF Did, Becomes, Frame
  <2> QED
    BY <2>4, <2>5 DEF Kept, r, new
<1> QED
  BY <1>1, SetDid DEF PostingFails, Changes, At, r, new

\* A clean review has its record before its status.
LEMMA DeliverGood ==
  ASSUME CiInv, NEW j \in Jobs, Deliver(j)
  PROVE  Kept(j)
<1> DEFINE r == job[j]
           new == job'[j]
<1> HIDE DEF r, new
<1>0. r \in JobState /\ JobInv(r) /\ StatusInv(j, r, status) /\ r.lost \in Nat
  BY JobOf DEF r
<1>1. ASSUME Did(j, [pc |-> "complete",
       rec |-> IF job[j].out = "failed" THEN job[j].rec ELSE "reviewed"], job[j].row,
       job[j].lost), r.pc = "deliver", status' = status
      PROVE  Kept(j)
  <2>1. /\ new.pc = "complete" /\ new.mem = r.mem /\ new.row = r.row
        /\ new.lost = r.lost /\ new.kind = r.kind /\ new.out = r.out
        /\ new.rec = (IF r.out = "failed" THEN r.rec ELSE "reviewed") /\ new.due = r.due
        /\ new.cut = r.cut /\ SameProcess(r, new)
    BY <1>0, <1>1 DEF Did, Becomes, Pick, SameOutcome, SameProcess, r, new
  <2>2. /\ new.mem \in Rows \cup {NoRow} /\ new.row \in Rows \cup {NoRow}
        /\ new.lost \in 0..MaxEvents
    BY <1>0, <1>1, <2>1 DEF Did, JobState, TerminalStatuses, r
  <2>3. new \in JobState
    BY <1>0, <1>1, <2>1, <2>2, JobTyped, TypedJob DEF Did, Becomes, SameOutcome,
       SameProcess, Typed, Pcs, CliPcs, Writing, CliRecords, Outcomes, new
  <2>4. Good(j, r, new, status, status')
    BY <1>0, <1>1, <2>1, <2>3, JobTyped DEF SameOutcome, SameProcess, Typed, Good,
       PendingAnswered, GreenDelivered, OverrideKept, RowLeft, JobInv, FateInv,
       RowInv, RecordInv, LockInv, SpendInv, StatusInv, PendingInv, GreenInv,
       OverrideInv, Early, Late, InReview, Admitted, Terminal, SpentRow, CliPcs,
       Writing, Outcomes
  <2>5. Frame(j)
    BY <1>1 DEF Did, Becomes, Frame
  <2> QED
    BY <2>4, <2>5 DEF Kept, r, new
<1> QED
  BY <1>1, SetDid DEF Deliver, Changes, At, r, new

\* The row is settled in memory first.
LEMMA CompleteGood ==
  ASSUME CiInv, NEW j \in Jobs, Complete(j)
  PROVE  Kept(j)
<1> DEFINE r == job[j]
           new == job'[j]
<1> HIDE DEF r, new
<1>0. r \in JobState /\ JobInv(r) /\ StatusInv(j, r, status) /\ r.lost \in Nat
  BY JobOf DEF r
<1>1. ASSUME NEW st \in {"failed", "completed"},
             Did(j, [pc |-> "persist", mem |-> Ended(j, st)], job[j].row, job[j].lost),
             r.pc = "complete", status' = status, Active(j)
      PROVE  Kept(j)
  <2>1. /\ new.pc = "persist" /\ new.mem = Ended(j, st) /\ new.row = r.row
        /\ new.lost = r.lost /\ SameOutcome(r, new) /\ SameProcess(r, new)
    BY <1>0, <1>1 DEF Did, Becomes, Pick, SameOutcome, SameProcess, r, new
  <2>2. /\ new.mem \in Rows \cup {NoRow} /\ new.row \in Rows \cup {NoRow}
        /\ new.lost \in 0..MaxEvents
    BY <1>0, <1>1, <2>1, EndedIs DEF Did, JobState, TerminalStatuses, r
  <2>3. new \in JobState
    BY <1>0, <1>1, <2>1, <2>2, JobTyped, TypedJob DEF Did, Becomes, SameOutcome,
       SameProcess, Typed, Pcs, CliPcs, Writing, CliRecords, Outcomes, new
  <2>4. Good(j, r, new, status, status')
    BY <1>0, <1>1, <2>1, <2>3, EndedIs, JobTyped DEF SameOutcome, SameProcess, Typed,
       Good, PendingAnswered, GreenDelivered, OverrideKept, RowLeft, JobInv,
       FateInv, RowInv, RecordInv, LockInv, SpendInv, StatusInv, PendingInv,
       GreenInv, OverrideInv, Early, Late, InReview, Admitted, Terminal,
       SpentRow, CliPcs, Writing, Active, r, TerminalStatuses, ActiveStatuses,
       UnspentStatuses
  <2>5. Frame(j)
    BY <1>1 DEF Did, Becomes, Frame
  <2> QED
    BY <2>4, <2>5 DEF Kept, r, new
<1>2. ASSUME Did(j, [pc |-> "settle"], job[j].row, job[j].lost), r.pc = "complete",
             status' = status
      PROVE  Kept(j)
  <2>1. /\ new.pc = "settle" /\ new.mem = r.mem /\ new.row = r.row /\ new.lost = r.lost
        /\ SameOutcome(r, new) /\ SameProcess(r, new)
    BY <1>0, <1>2 DEF Did, Becomes, Pick, SameOutcome, SameProcess, r, new
  <2>2. /\ new.mem \in Rows \cup {NoRow} /\ new.row \in Rows \cup {NoRow}
        /\ new.lost \in 0..MaxEvents
    BY <1>0, <1>2, <2>1 DEF Did, JobState, TerminalStatuses, r
  <2>3. new \in JobState
    BY <1>0, <1>2, <2>1, <2>2, JobTyped, TypedJob DEF Did, Becomes, SameOutcome,
       SameProcess, Typed, Pcs, CliPcs, Writing, CliRecords, Outcomes, new
  <2>4. Good(j, r, new, status, status')
    BY <1>0, <1>2, <2>1, <2>3, JobTyped DEF SameOutcome, SameProcess, Typed, Good,
       PendingAnswered, GreenDelivered, OverrideKept, RowLeft, JobInv, FateInv,
       RowInv, RecordInv, LockInv, SpendInv, StatusInv, PendingInv, GreenInv,
       OverrideInv, Early, Late, InReview, Admitted, Terminal, SpentRow, CliPcs,
       Writing, Active, r, TerminalStatuses, ActiveStatuses, UnspentStatuses
  <2>5. Frame(j)
    BY <1>2 DEF Did, Becomes, Frame
  <2> QED
    BY <2>4, <2>5 DEF Kept, r, new
<1> QED
  BY <1>1, <1>2, SetDid DEF SettleRow, Complete, Changes, At, r, new

\* The record that starts the provider, as its write carries it, is well-formed
\* and counts as the one in memory does.
LEMMA StartedIs ==
  ASSUME CiInv, NEW j \in Jobs, job[j].pc = "starting"
  PROVE  /\ Ended(j, "provider-started") \in Rows
         /\ Ended(j, "provider-started").st = "provider-started"
         /\ Ended(j, "provider-started").forced = job[j].mem.forced
<1>1. job[j].mem \in Rows
  BY JobOf DEF JobState, JobInv, RowInv
<1> QED
  BY <1>1 DEF Ended, Rows, ActiveStatuses

\* The settlement lands, or a call was lost.
LEMMA PersistRowGood ==
  ASSUME CiInv, NEW j \in Jobs, PersistRow(j)
  PROVE  Kept(j)
<1> DEFINE r == job[j]
           new == job'[j]
<1> HIDE DEF r, new
<1>0. r \in JobState /\ JobInv(r) /\ StatusInv(j, r, status) /\ r.lost \in Nat
  BY JobOf DEF r
<1>1. ASSUME NEW next \in {"skipping", "settle"},
             NEW row \in {r.mem, r.row}, NEW lost \in {r.lost, r.lost + 1},
             row = r.mem \/ lost = r.lost + 1,
             Did(j, [pc |-> next], row, lost),
             r.pc = (IF next = "settle" THEN "persist" ELSE "sizing"), status' = status
      PROVE  Kept(j)
  <2>1. /\ new.pc = next /\ new.mem = r.mem /\ new.row = row /\ new.lost = lost
        /\ SameOutcome(r, new) /\ SameProcess(r, new)
    BY <1>0, <1>1 DEF Did, Becomes, Pick, SameOutcome, SameProcess, r, new
  <2>2. /\ new.mem \in Rows \cup {NoRow} /\ new.row \in Rows \cup {NoRow}
        /\ new.lost \in 0..MaxEvents
    BY <1>0, <1>1, <2>1 DEF Did, JobState, TerminalStatuses, r
  <2>3. new \in JobState
    BY <1>0, <1>1, <2>1, <2>2, JobTyped, TypedJob DEF Did, Becomes, SameOutcome,
       SameProcess, Typed, Pcs, CliPcs, Writing, CliRecords, Outcomes, new
  <2>4. Good(j, r, new, status, status')
    BY <1>0, <1>1, <2>1, <2>3, JobTyped DEF SameOutcome, SameProcess, Typed, Good,
       PendingAnswered, GreenDelivered, OverrideKept, RowLeft, JobInv, FateInv,
       RowInv, RecordInv, LockInv, SpendInv, StatusInv, PendingInv, GreenInv,
       OverrideInv, Early, Late, InReview, Admitted, Terminal, SpentRow, CliPcs,
       Writing
  <2>5. Frame(j)
    BY <1>1 DEF Did, Becomes, Frame
  <2> QED
    BY <2>4, <2>5 DEF Kept, r, new
<1>2. ASSUME NEW row \in {r.mem, r.row}, NEW lost \in {r.lost, r.lost + 1},
             row = r.mem \/ lost = r.lost + 1,
             Did(j, [pc |-> "close", rec |-> "yielded"], row, lost),
             r.pc = "yielding", status' = status
      PROVE  Kept(j)
  <2>1. /\ new.pc = "close" /\ new.mem = r.mem /\ new.row = row /\ new.lost = lost
        /\ new.kind = r.kind /\ new.out = r.out /\ new.rec = "yielded"
        /\ new.due = r.due /\ new.cut = r.cut /\ SameProcess(r, new)
    BY <1>0, <1>2 DEF Did, Becomes, Pick, SameOutcome, SameProcess, r, new
  <2>2. /\ new.mem \in Rows \cup {NoRow} /\ new.row \in Rows \cup {NoRow}
        /\ new.lost \in 0..MaxEvents
    BY <1>0, <1>2, <2>1 DEF Did, JobState, TerminalStatuses, r
  <2>3. new \in JobState
    BY <1>0, <1>2, <2>1, <2>2, JobTyped, TypedJob DEF Did, Becomes, SameOutcome,
       SameProcess, Typed, Pcs, CliPcs, Writing, CliRecords, Outcomes, new
  <2>4. Good(j, r, new, status, status')
    BY <1>0, <1>2, <2>1, <2>3, JobTyped DEF SameOutcome, SameProcess, Typed, Good,
       PendingAnswered, GreenDelivered, OverrideKept, RowLeft, JobInv, FateInv,
       RowInv, RecordInv, LockInv, SpendInv, StatusInv, PendingInv, GreenInv,
       OverrideInv, Early, Late, InReview, Admitted, Terminal, SpentRow, CliPcs,
       Writing
  <2>5. Frame(j)
    BY <1>2 DEF Did, Becomes, Frame
  <2> QED
    BY <2>4, <2>5 DEF Kept, r, new
<1>3. ASSUME NEW row \in {Ended(j, "provider-started"), r.row},
             NEW lost \in {r.lost, r.lost + 1},
             row # r.row => lost = r.lost,
             Did(j, [pc |-> "review", out |-> "running"], row, lost),
             r.pc = "starting", status' = status
      PROVE  Kept(j)
  <2>1. /\ new.pc = "review" /\ new.mem = r.mem /\ new.row = row /\ new.lost = lost
        /\ new.kind = r.kind /\ new.out = "running" /\ new.rec = r.rec
        /\ new.due = r.due /\ new.cut = r.cut /\ SameProcess(r, new)
    BY <1>0, <1>3 DEF Did, Becomes, Pick, SameOutcome, SameProcess, r, new
  <2>2. /\ new.mem \in Rows \cup {NoRow} /\ new.row \in Rows \cup {NoRow}
        /\ new.lost \in 0..MaxEvents
    BY <1>0, <1>3, <2>1, StartedIs DEF Did, JobState, TerminalStatuses, r
  <2>3. new \in JobState
    BY <1>0, <1>3, <2>1, <2>2, JobTyped, TypedJob DEF Did, Becomes, SameOutcome,
       SameProcess, Typed, Pcs, CliPcs, Writing, CliRecords, Outcomes, new
  <2>4. Good(j, r, new, status, status')
    BY <1>0, <1>3, <2>1, <2>3, StartedIs, JobTyped DEF SameOutcome, SameProcess, Typed,
       Good, PendingAnswered, GreenDelivered, OverrideKept, RowLeft, JobInv,
       FateInv, RowInv, RecordInv, LockInv, SpendInv, StatusInv, PendingInv,
       GreenInv, OverrideInv, Early, Late, InReview, Admitted, Terminal,
       SpentRow, CliPcs, Writing, Active, r, TerminalStatuses, ActiveStatuses,
       UnspentStatuses
  <2>5. Frame(j)
    BY <1>3 DEF Did, Becomes, Frame
  <2> QED
    BY <2>4, <2>5 DEF Kept, r, new
<1> QED
  BY <1>1, <1>2, <1>3, PersistDid DEF PersistRow, Changes, At, r, new

\* A verdict is written only by a job that asked for an override, or could not ask, or
\* lost its lock to the signal.
LEMMA SettleGood ==
  ASSUME CiInv, NEW j \in Jobs, Settle(j)
  PROVE  Kept(j)
<1> DEFINE r == job[j]
           new == job'[j]
<1> HIDE DEF r, new
<1>0. r \in JobState /\ JobInv(r) /\ StatusInv(j, r, status) /\ r.lost \in Nat
  BY JobOf DEF r
<1>1. ASSUME Did(j, [pc |-> "unlock"], job[j].row, job[j].lost), r.pc = "settle",
             status' = status, status.s = "override"
      PROVE  Kept(j)
  <2>1. /\ new.pc = "unlock" /\ new.mem = r.mem /\ new.row = r.row /\ new.lost = r.lost
        /\ SameOutcome(r, new) /\ SameProcess(r, new)
    BY <1>0, <1>1 DEF Did, Becomes, Pick, SameOutcome, SameProcess, r, new
  <2>2. /\ new.mem \in Rows \cup {NoRow} /\ new.row \in Rows \cup {NoRow}
        /\ new.lost \in 0..MaxEvents
    BY <1>0, <1>1, <2>1 DEF Did, JobState, TerminalStatuses, r
  <2>3. new \in JobState
    BY <1>0, <1>1, <2>1, <2>2, JobTyped, TypedJob DEF Did, Becomes, SameOutcome,
       SameProcess, Typed, Pcs, CliPcs, Writing, CliRecords, Outcomes, new
  <2>4. Good(j, r, new, status, status')
    BY <1>0, <1>1, <2>1, <2>3, JobTyped DEF SameOutcome, SameProcess, Typed, Good,
       PendingAnswered, GreenDelivered, OverrideKept, RowLeft, JobInv, FateInv,
       RowInv, RecordInv, LockInv, SpendInv, StatusInv, PendingInv, GreenInv,
       OverrideInv, Early, Late, InReview, Admitted, Terminal, SpentRow, CliPcs,
       Writing
  <2>5. Frame(j)
    BY <1>1 DEF Did, Becomes, Frame
  <2> QED
    BY <2>4, <2>5 DEF Kept, r, new
<1>2. ASSUME NEW cut \in BOOLEAN,
             Did(j, [pc |-> "write", cut |-> cut], job[j].row, job[j].lost),
             r.pc = "settle", status' = status,
             cut => ~(status.s = "override") \/ j \in status.before,
             ~cut => Completion(r.out) \notin Verdicts \/ ~r.lock
      PROVE  Kept(j)
  <2>1. /\ new.pc = "write" /\ new.mem = r.mem /\ new.row = r.row /\ new.lost = r.lost
        /\ new.kind = r.kind /\ new.out = r.out /\ new.rec = r.rec /\ new.due = r.due
        /\ new.cut = cut /\ SameProcess(r, new)
    BY <1>0, <1>2 DEF Did, Becomes, Pick, SameOutcome, SameProcess, r, new
  <2>2. /\ new.mem \in Rows \cup {NoRow} /\ new.row \in Rows \cup {NoRow}
        /\ new.lost \in 0..MaxEvents
    BY <1>0, <1>2, <2>1 DEF Did, JobState, TerminalStatuses, r
  <2>3. new \in JobState
    BY <1>0, <1>2, <2>1, <2>2, JobTyped, TypedJob DEF Did, Becomes, SameOutcome,
       SameProcess, Typed, Pcs, CliPcs, Writing, CliRecords, Outcomes, new
  <2>4. Good(j, r, new, status, status')
    BY <1>0, <1>2, <2>1, <2>3, JobTyped DEF SameOutcome, SameProcess, Typed, Good,
       PendingAnswered, GreenDelivered, OverrideKept, RowLeft, JobInv, FateInv,
       RowInv, RecordInv, LockInv, SpendInv, StatusInv, PendingInv, GreenInv,
       OverrideInv, Early, Late, InReview, Admitted, Terminal, SpentRow, CliPcs,
       Writing
  <2>5. Frame(j)
    BY <1>2 DEF Did, Becomes, Frame
  <2> QED
    BY <2>4, <2>5 DEF Kept, r, new
<1>3. ASSUME Did(j, [pc |-> "write", cut |-> TRUE], job[j].row, job[j].lost + 1),
             r.pc = "settle", status' = status
      PROVE  Kept(j)
  <2>1. /\ new.pc = "write" /\ new.mem = r.mem /\ new.row = r.row
        /\ new.lost = r.lost + 1 /\ new.kind = r.kind /\ new.out = r.out
        /\ new.rec = r.rec /\ new.due = r.due /\ new.cut = TRUE /\ SameProcess(r, new)
    BY <1>0, <1>3 DEF Did, Becomes, Pick, SameOutcome, SameProcess, r, new
  <2>2. /\ new.mem \in Rows \cup {NoRow} /\ new.row \in Rows \cup {NoRow}
        /\ new.lost \in 0..MaxEvents
    BY <1>0, <1>3, <2>1 DEF Did, JobState, TerminalStatuses, r
  <2>3. new \in JobState
    BY <1>0, <1>3, <2>1, <2>2, JobTyped, TypedJob DEF Did, Becomes, SameOutcome,
       SameProcess, Typed, Pcs, CliPcs, Writing, CliRecords, Outcomes, new
  <2>4. Good(j, r, new, status, status')
    BY <1>0, <1>3, <2>1, <2>3, JobTyped DEF SameOutcome, SameProcess, Typed, Good,
       PendingAnswered, GreenDelivered, OverrideKept, RowLeft, JobInv, FateInv,
       RowInv, RecordInv, LockInv, SpendInv, StatusInv, PendingInv, GreenInv,
       OverrideInv, Early, Late, InReview, Admitted, Terminal, SpentRow, CliPcs,
       Writing
  <2>5. Frame(j)
    BY <1>3 DEF Did, Becomes, Frame
  <2> QED
    BY <2>4, <2>5 DEF Kept, r, new
<1> QED
  BY <1>1, <1>2, <1>3, SetDid, SetLostDid DEF Settle, Changes, At, r, new, Stands

\* The final write lands, or its verdict is due and a call was lost.
LEMMA WriteGood ==
  ASSUME CiInv, NEW j \in Jobs, Write(j)
  PROVE  Kept(j)
<1> DEFINE r == job[j]
           new == job'[j]
<1> HIDE DEF r, new
<1>0. r \in JobState /\ JobInv(r) /\ StatusInv(j, r, status) /\ r.lost \in Nat
  BY JobOf DEF r
<1>1. ASSUME Did(j, [pc |-> "unlock", cut |-> FALSE], job[j].row, job[j].lost),
             r.pc = "write", status' = StatusRow(Completion(r.out), j)
      PROVE  Kept(j)
  <2>1. /\ new.pc = "unlock" /\ new.mem = r.mem /\ new.row = r.row /\ new.lost = r.lost
        /\ new.kind = r.kind /\ new.out = r.out /\ new.rec = r.rec /\ new.due = r.due
        /\ new.cut = FALSE /\ SameProcess(r, new)
    BY <1>0, <1>1 DEF Did, Becomes, Pick, SameOutcome, SameProcess, r, new
  <2>2. /\ new.mem \in Rows \cup {NoRow} /\ new.row \in Rows \cup {NoRow}
        /\ new.lost \in 0..MaxEvents
    BY <1>0, <1>1, <2>1 DEF Did, JobState, TerminalStatuses, r
  <2>3. new \in JobState
    BY <1>0, <1>1, <2>1, <2>2, JobTyped, TypedJob DEF Did, Becomes, SameOutcome,
       SameProcess, Typed, Pcs, CliPcs, Writing, CliRecords, Outcomes, new,
       Verdicts, Completion
  <2>4. Good(j, r, new, status, status')
    BY <1>0, <1>1, <2>1, <2>3, JobTyped DEF SameOutcome, SameProcess, Typed, Good,
       PendingAnswered, GreenDelivered, OverrideKept, RowLeft, JobInv, FateInv,
       RowInv, RecordInv, LockInv, SpendInv, StatusInv, PendingInv, GreenInv,
       OverrideInv, Early, Late, InReview, Admitted, Terminal, SpentRow, CliPcs,
       Writing, Verdicts, StatusRow, Completion, Outcomes
  <2>5. Frame(j)
    BY <1>0, <1>1, <2>1 DEF Did, Becomes, Frame, Posts, Verdicts, Completion, JobState,
       JobInv, RecordInv
  <2> QED
    BY <2>4, <2>5 DEF Kept, r, new
<1>2. ASSUME Did(j, [pc |-> "unlock",
       cut |-> (Completion(job[j].out) \in Verdicts /\ job[j].rec = "reviewed")
                                /\ job[j].cut,
       due |-> IF Completion(job[j].out) \in Verdicts /\ job[j].rec = "reviewed"
                                 THEN Completion(job[j].out) ELSE "none"],
                 job[j].row, job[j].lost + 1),
             r.pc = "write",
             status' = status \/ status' = StatusRow(Completion(r.out), j)
      PROVE  Kept(j)
  <2>1. /\ new.pc = "unlock" /\ new.mem = r.mem /\ new.row = r.row
        /\ new.lost = r.lost + 1 /\ new.kind = r.kind /\ new.out = r.out
        /\ new.rec = r.rec
        /\ new.due = (IF Completion(r.out) \in Verdicts /\ r.rec = "reviewed"
                      THEN Completion(r.out) ELSE "none")
        /\ new.cut = ((Completion(r.out) \in Verdicts /\ r.rec = "reviewed") /\ r.cut)
        /\ SameProcess(r, new)
    BY <1>0, <1>2 DEF Did, Becomes, Pick, SameOutcome, SameProcess, r, new
  <2>2. /\ new.mem \in Rows \cup {NoRow} /\ new.row \in Rows \cup {NoRow}
        /\ new.lost \in 0..MaxEvents
    BY <1>0, <1>2, <2>1 DEF Did, JobState, TerminalStatuses, r
  <2>3. new \in JobState
    BY <1>0, <1>2, <2>1, <2>2, JobTyped, TypedJob DEF Did, Becomes, SameOutcome,
       SameProcess, Typed, Pcs, CliPcs, Writing, CliRecords, Outcomes, new,
       Verdicts, Completion
  <2>4. Good(j, r, new, status, status')
    BY <1>0, <1>2, <2>1, <2>3, JobTyped DEF SameOutcome, SameProcess, Typed, Good,
       PendingAnswered, GreenDelivered, OverrideKept, RowLeft, JobInv, FateInv,
       RowInv, RecordInv, LockInv, SpendInv, StatusInv, PendingInv, GreenInv,
       OverrideInv, Early, Late, InReview, Admitted, Terminal, SpentRow, CliPcs,
       Writing, Verdicts, StatusRow, Completion, Outcomes
  <2>5. Frame(j)
    BY <1>0, <1>2, <2>1 DEF Did, Becomes, Frame, Posts, Verdicts, Completion, JobState,
       JobInv, RecordInv
  <2> QED
    BY <2>4, <2>5 DEF Kept, r, new
<1> QED
  BY <1>1, <1>2, PostDid DEF Write, Changes, At, r, new

\* Unlocking writes nothing.
LEMMA UnlockGood ==
  ASSUME CiInv, NEW j \in Jobs, Unlock(j)
  PROVE  Kept(j)
<1> DEFINE r == job[j]
           new == job'[j]
<1> HIDE DEF r, new
<1>0. r \in JobState /\ JobInv(r) /\ StatusInv(j, r, status) /\ r.lost \in Nat
  BY JobOf DEF r
<1>1. ASSUME Did(j, [pc |-> "close", lock |-> FALSE], job[j].row, job[j].lost),
             r.pc = "unlock", status' = status
      PROVE  Kept(j)
  <2>1. /\ new.pc = "close" /\ new.mem = r.mem /\ new.row = r.row /\ new.lost = r.lost
        /\ SameOutcome(r, new) /\ new.lock = FALSE /\ new.threw = r.threw
        /\ new.sig = r.sig /\ new.fate = r.fate
    BY <1>0, <1>1 DEF Did, Becomes, Pick, SameOutcome, SameProcess, r, new
  <2>2. /\ new.mem \in Rows \cup {NoRow} /\ new.row \in Rows \cup {NoRow}
        /\ new.lost \in 0..MaxEvents
    BY <1>0, <1>1, <2>1 DEF Did, JobState, TerminalStatuses, r
  <2>3. new \in JobState
    BY <1>0, <1>1, <2>1, <2>2, JobTyped, TypedJob DEF Did, Becomes, SameOutcome,
       SameProcess, Typed, Pcs, CliPcs, Writing, CliRecords, Outcomes, new
  <2>4. Good(j, r, new, status, status')
    BY <1>0, <1>1, <2>1, <2>3, JobTyped DEF SameOutcome, SameProcess, Typed, Good,
       PendingAnswered, GreenDelivered, OverrideKept, RowLeft, JobInv, FateInv,
       RowInv, RecordInv, LockInv, SpendInv, StatusInv, PendingInv, GreenInv,
       OverrideInv, Early, Late, InReview, Admitted, Terminal, SpentRow, CliPcs,
       Writing
  <2>5. Frame(j)
    BY <1>1 DEF Did, Becomes, Frame
  <2> QED
    BY <2>4, <2>5 DEF Kept, r, new
<1> QED
  BY <1>1, SetDid DEF Unlock, Changes, At, r, new

\* The CLI leaves with a row that is settled in memory, or settles it first.
LEMMA CloseGood ==
  ASSUME CiInv, NEW j \in Jobs, Close(j)
  PROVE  Kept(j)
<1> DEFINE r == job[j]
           new == job'[j]
<1> HIDE DEF r, new
<1>0. r \in JobState /\ JobInv(r) /\ StatusInv(j, r, status) /\ r.lost \in Nat
  BY JobOf DEF r
<1>1. ASSUME Did(j, [pc |-> "closing", mem |-> Ended(j, "failed")],
                 job[j].row, job[j].lost),
             r.pc = "close", status' = status, Active(j)
      PROVE  Kept(j)
  <2>1. /\ new.pc = "closing" /\ new.mem = Ended(j, "failed") /\ new.row = r.row
        /\ new.lost = r.lost /\ SameOutcome(r, new) /\ SameProcess(r, new)
    BY <1>0, <1>1 DEF Did, Becomes, Pick, SameOutcome, SameProcess, r, new
  <2>2. /\ new.mem \in Rows \cup {NoRow} /\ new.row \in Rows \cup {NoRow}
        /\ new.lost \in 0..MaxEvents
    BY <1>0, <1>1, <2>1, EndedIs DEF Did, JobState, TerminalStatuses, r
  <2>3. new \in JobState
    BY <1>0, <1>1, <2>1, <2>2, JobTyped, TypedJob DEF Did, Becomes, SameOutcome,
       SameProcess, Typed, Pcs, CliPcs, Writing, CliRecords, Outcomes, new
  <2>4. Good(j, r, new, status, status')
    BY <1>0, <1>1, <2>1, <2>3, EndedIs, JobTyped DEF SameOutcome, SameProcess, Typed,
       Good, PendingAnswered, GreenDelivered, OverrideKept, RowLeft, JobInv,
       FateInv, RowInv, RecordInv, LockInv, SpendInv, StatusInv, PendingInv,
       GreenInv, OverrideInv, Early, Late, InReview, Admitted, Terminal,
       SpentRow, CliPcs, Writing, Active, r, TerminalStatuses, ActiveStatuses,
       UnspentStatuses
  <2>5. Frame(j)
    BY <1>1 DEF Did, Becomes, Frame
  <2> QED
    BY <2>4, <2>5 DEF Kept, r, new
<1>2. ASSUME Did(j, Exit(Fatal(j), job[j].fate), job[j].row, job[j].lost),
             r.pc = "close", status' = status, ~Active(j)
      PROVE  Kept(j)
  <2>1. /\ new.pc = "exited" /\ new.mem = NoRow /\ new.row = r.row /\ new.lost = r.lost
        /\ new.kind = r.kind /\ new.out = r.out
       /\ new.rec = (IF r.threw /\ r.rec \in {"none", "reviewing"} THEN "error" ELSE
       r.rec)
        /\ new.due = r.due /\ new.cut = r.cut /\ new.lock = FALSE /\ new.threw = FALSE
        /\ new.sig = "no" /\ new.fate = r.fate
    BY <1>0, <1>2 DEF Did, Becomes, Pick, SameOutcome, SameProcess, r, new, Exit, Fatal
  <2>2. /\ new.mem \in Rows \cup {NoRow} /\ new.row \in Rows \cup {NoRow}
        /\ new.lost \in 0..MaxEvents
    BY <1>0, <1>2, <2>1 DEF Did, JobState, TerminalStatuses, r
  <2>3. new \in JobState
    BY <1>0, <1>2, <2>1, <2>2, JobTyped, TypedJob DEF Did, Becomes, SameOutcome,
       SameProcess, Typed, Pcs, CliPcs, Writing, CliRecords, Outcomes, new
  <2>4. Good(j, r, new, status, status')
    BY <1>0, <1>2, <2>1, <2>3, JobTyped DEF SameOutcome, SameProcess, Typed, Good,
       PendingAnswered, GreenDelivered, OverrideKept, RowLeft, JobInv, FateInv,
       RowInv, RecordInv, LockInv, SpendInv, StatusInv, PendingInv, GreenInv,
       OverrideInv, Early, Late, InReview, Admitted, Terminal, SpentRow, CliPcs,
       Writing, Active, r, TerminalStatuses, ActiveStatuses, UnspentStatuses
  <2>5. Frame(j)
    BY <1>2 DEF Did, Becomes, Frame
  <2> QED
    BY <2>4, <2>5 DEF Kept, r, new
<1> QED
  BY <1>1, <1>2, SetDid DEF SettleRow, Close, Changes, At, r, new, Exit

\* The last settlement lands, or a call was lost.
LEMMA ClosingGood ==
  ASSUME CiInv, NEW j \in Jobs, Closing(j)
  PROVE  Kept(j)
<1> DEFINE r == job[j]
           new == job'[j]
<1> HIDE DEF r, new
<1>0. r \in JobState /\ JobInv(r) /\ StatusInv(j, r, status) /\ r.lost \in Nat
  BY JobOf DEF r
<1>1. ASSUME Did(j, Exit(Fatal(j), job[j].fate), job[j].mem, job[j].lost),
             r.pc = "closing", status' = status
      PROVE  Kept(j)
  <2>1. /\ new.pc = "exited" /\ new.mem = NoRow /\ new.row = r.mem /\ new.lost = r.lost
        /\ new.kind = r.kind /\ new.out = r.out
       /\ new.rec = (IF r.threw /\ r.rec \in {"none", "reviewing"} THEN "error" ELSE
       r.rec)
        /\ new.due = r.due /\ new.cut = r.cut /\ new.lock = FALSE /\ new.threw = FALSE
        /\ new.sig = "no" /\ new.fate = r.fate
    BY <1>0, <1>1 DEF Did, Becomes, Pick, SameOutcome, SameProcess, r, new, Exit, Fatal
  <2>2. /\ new.mem \in Rows \cup {NoRow} /\ new.row \in Rows \cup {NoRow}
        /\ new.lost \in 0..MaxEvents
    BY <1>0, <1>1, <2>1 DEF Did, JobState, TerminalStatuses, r
  <2>3. new \in JobState
    BY <1>0, <1>1, <2>1, <2>2, JobTyped, TypedJob DEF Did, Becomes, SameOutcome,
       SameProcess, Typed, Pcs, CliPcs, Writing, CliRecords, Outcomes, new
  <2>4. Good(j, r, new, status, status')
    BY <1>0, <1>1, <2>1, <2>3, JobTyped DEF SameOutcome, SameProcess, Typed, Good,
       PendingAnswered, GreenDelivered, OverrideKept, RowLeft, JobInv, FateInv,
       RowInv, RecordInv, LockInv, SpendInv, StatusInv, PendingInv, GreenInv,
       OverrideInv, Early, Late, InReview, Admitted, Terminal, SpentRow, CliPcs,
       Writing
  <2>5. Frame(j)
    BY <1>1 DEF Did, Becomes, Frame
  <2> QED
    BY <2>4, <2>5 DEF Kept, r, new
<1>2. ASSUME Did(j, Exit(Fatal(j), job[j].fate), job[j].row, job[j].lost + 1),
             r.pc = "closing", status' = status
      PROVE  Kept(j)
  <2>1. /\ new.pc = "exited" /\ new.mem = NoRow /\ new.row = r.row
        /\ new.lost = r.lost + 1 /\ new.kind = r.kind /\ new.out = r.out
       /\ new.rec = (IF r.threw /\ r.rec \in {"none", "reviewing"} THEN "error" ELSE
       r.rec)
        /\ new.due = r.due /\ new.cut = r.cut /\ new.lock = FALSE /\ new.threw = FALSE
        /\ new.sig = "no" /\ new.fate = r.fate
    BY <1>0, <1>2 DEF Did, Becomes, Pick, SameOutcome, SameProcess, r, new, Exit, Fatal
  <2>2. /\ new.mem \in Rows \cup {NoRow} /\ new.row \in Rows \cup {NoRow}
        /\ new.lost \in 0..MaxEvents
    BY <1>0, <1>2, <2>1 DEF Did, JobState, TerminalStatuses, r
  <2>3. new \in JobState
    BY <1>0, <1>2, <2>1, <2>2, JobTyped, TypedJob DEF Did, Becomes, SameOutcome,
       SameProcess, Typed, Pcs, CliPcs, Writing, CliRecords, Outcomes, new
  <2>4. Good(j, r, new, status, status')
    BY <1>0, <1>2, <2>1, <2>3, JobTyped DEF SameOutcome, SameProcess, Typed, Good,
       PendingAnswered, GreenDelivered, OverrideKept, RowLeft, JobInv, FateInv,
       RowInv, RecordInv, LockInv, SpendInv, StatusInv, PendingInv, GreenInv,
       OverrideInv, Early, Late, InReview, Admitted, Terminal, SpentRow, CliPcs,
       Writing
  <2>5. Frame(j)
    BY <1>2 DEF Did, Becomes, Frame
  <2> QED
    BY <2>4, <2>5 DEF Kept, r, new
<1> QED
  BY <1>1, <1>2, PersistDid DEF Closing, Changes, At, r, new, Exit

\* The signal takes the lock from a job that holds it.
LEMMA CancelGood ==
  ASSUME CiInv, NEW j \in Jobs, Cancel(j)
  PROVE  Kept(j)
<1> DEFINE r == job[j]
           new == job'[j]
<1> HIDE DEF r, new
<1>0. r \in JobState /\ JobInv(r) /\ StatusInv(j, r, status) /\ r.lost \in Nat
  BY JobOf DEF r
<1>1. ASSUME Did(j, [fate |-> "cancelled", lock |-> FALSE,
                       sig |-> IF job[j].lock THEN "status" ELSE "ledger"],
                 job[j].row, job[j].lost),
             r.pc \in CliPcs, status' = status, r.fate = "fine"
      PROVE  Kept(j)
  <2>1. /\ new.pc = r.pc /\ new.mem = r.mem /\ new.row = r.row /\ new.lost = r.lost
        /\ SameOutcome(r, new) /\ new.lock = FALSE /\ new.threw = r.threw
        /\ new.sig = (IF r.lock THEN "status" ELSE "ledger") /\ new.fate = "cancelled"
    BY <1>0, <1>1 DEF Did, Becomes, Pick, SameOutcome, SameProcess, r, new
  <2>2. /\ new.mem \in Rows \cup {NoRow} /\ new.row \in Rows \cup {NoRow}
        /\ new.lost \in 0..MaxEvents
    BY <1>0, <1>1, <2>1 DEF Did, JobState, TerminalStatuses, r
  <2>3. new \in JobState
    BY <1>0, <1>1, <2>1, <2>2, JobTyped, TypedJob DEF Did, Becomes, SameOutcome,
       SameProcess, Typed, Pcs, CliPcs, Writing, CliRecords, Outcomes, new
  <2>4. Good(j, r, new, status, status')
    BY <1>0, <1>1, <2>1, <2>3, JobTyped DEF SameOutcome, SameProcess, Typed, Good,
       PendingAnswered, GreenDelivered, OverrideKept, RowLeft, JobInv, FateInv,
       RowInv, RecordInv, LockInv, SpendInv, StatusInv, PendingInv, GreenInv,
       OverrideInv, Early, Late, InReview, Admitted, Terminal, SpentRow, CliPcs,
       Writing
  <2>5. Frame(j)
    BY <1>1 DEF Did, Becomes, Frame
  <2> QED
    BY <2>4, <2>5 DEF Kept, r, new
<1>2. ASSUME Did(j, [fate |-> "cancelled"], job[j].row, job[j].lost), r.pc = "exited",
             status' = status, r.fate = "fine"
      PROVE  Kept(j)
  <2>1. /\ new.pc = r.pc /\ new.mem = r.mem /\ new.row = r.row /\ new.lost = r.lost
        /\ SameOutcome(r, new) /\ new.lock = r.lock /\ new.threw = r.threw
        /\ new.sig = r.sig /\ new.fate = "cancelled"
    BY <1>0, <1>2 DEF Did, Becomes, Pick, SameOutcome, SameProcess, r, new
  <2>2. /\ new.mem \in Rows \cup {NoRow} /\ new.row \in Rows \cup {NoRow}
        /\ new.lost \in 0..MaxEvents
    BY <1>0, <1>2, <2>1 DEF Did, JobState, TerminalStatuses, r
  <2>3. new \in JobState
    BY <1>0, <1>2, <2>1, <2>2, JobTyped, TypedJob DEF Did, Becomes, SameOutcome,
       SameProcess, Typed, Pcs, CliPcs, Writing, CliRecords, Outcomes, new
  <2>4. Good(j, r, new, status, status')
    BY <1>0, <1>2, <2>1, <2>3, JobTyped DEF SameOutcome, SameProcess, Typed, Good,
       PendingAnswered, GreenDelivered, OverrideKept, RowLeft, JobInv, FateInv,
       RowInv, RecordInv, LockInv, SpendInv, StatusInv, PendingInv, GreenInv,
       OverrideInv, Early, Late, InReview, Admitted, Terminal, SpentRow, CliPcs,
       Writing
  <2>5. Frame(j)
    BY <1>2 DEF Did, Becomes, Frame
  <2> QED
    BY <2>4, <2>5 DEF Kept, r, new
<1> QED
  BY <1>1, <1>2, SetDid DEF Cancel, Changes, At, r, new, Running

\* The handler's error is no verdict.
LEMMA HandlerStatusGood ==
  ASSUME CiInv, NEW j \in Jobs, HandlerStatus(j)
  PROVE  Kept(j)
<1> DEFINE r == job[j]
           new == job'[j]
<1> HIDE DEF r, new
<1>0. r \in JobState /\ JobInv(r) /\ StatusInv(j, r, status) /\ r.lost \in Nat
  BY JobOf DEF r
<1>1. ASSUME Did(j, [sig |-> "ledger"], job[j].row, job[j].lost), r.pc \in CliPcs,
             r.sig = "status", status' = StatusRow("error", j)
      PROVE  Kept(j)
  <2>1. /\ new.pc = r.pc /\ new.mem = r.mem /\ new.row = r.row /\ new.lost = r.lost
        /\ SameOutcome(r, new) /\ new.lock = r.lock /\ new.threw = r.threw
        /\ new.sig = "ledger" /\ new.fate = r.fate
    BY <1>0, <1>1 DEF Did, Becomes, Pick, SameOutcome, SameProcess, r, new
  <2>2. /\ new.mem \in Rows \cup {NoRow} /\ new.row \in Rows \cup {NoRow}
        /\ new.lost \in 0..MaxEvents
    BY <1>0, <1>1, <2>1 DEF Did, JobState, TerminalStatuses, r
  <2>3. new \in JobState
    BY <1>0, <1>1, <2>1, <2>2, JobTyped, TypedJob DEF Did, Becomes, SameOutcome,
       SameProcess, Typed, Pcs, CliPcs, Writing, CliRecords, Outcomes, new
  <2>4. Good(j, r, new, status, status')
    BY <1>0, <1>1, <2>1, <2>3, JobTyped DEF SameOutcome, SameProcess, Typed, Good,
       PendingAnswered, GreenDelivered, OverrideKept, RowLeft, JobInv, FateInv,
       RowInv, RecordInv, LockInv, SpendInv, StatusInv, PendingInv, GreenInv,
       OverrideInv, Early, Late, InReview, Admitted, Terminal, SpentRow, CliPcs,
       Writing, Verdicts, StatusRow
  <2>5. Frame(j)
    BY <1>0, <1>1, <2>1 DEF Did, Becomes, Frame, Posts, Verdicts, Completion, JobState,
       JobInv, RecordInv
  <2> QED
    BY <2>4, <2>5 DEF Kept, r, new
<1>2. ASSUME Did(j, [sig |-> "ledger"], job[j].row, job[j].lost + 1), r.pc \in CliPcs,
             r.sig = "status", status' = status \/ status' = StatusRow("error", j)
      PROVE  Kept(j)
  <2>1. /\ new.pc = r.pc /\ new.mem = r.mem /\ new.row = r.row /\ new.lost = r.lost + 1
        /\ SameOutcome(r, new) /\ new.lock = r.lock /\ new.threw = r.threw
        /\ new.sig = "ledger" /\ new.fate = r.fate
    BY <1>0, <1>2 DEF Did, Becomes, Pick, SameOutcome, SameProcess, r, new
  <2>2. /\ new.mem \in Rows \cup {NoRow} /\ new.row \in Rows \cup {NoRow}
        /\ new.lost \in 0..MaxEvents
    BY <1>0, <1>2, <2>1 DEF Did, JobState, TerminalStatuses, r
  <2>3. new \in JobState
    BY <1>0, <1>2, <2>1, <2>2, JobTyped, TypedJob DEF Did, Becomes, SameOutcome,
       SameProcess, Typed, Pcs, CliPcs, Writing, CliRecords, Outcomes, new
  <2>4. Good(j, r, new, status, status')
    BY <1>0, <1>2, <2>1, <2>3, JobTyped DEF SameOutcome, SameProcess, Typed, Good,
       PendingAnswered, GreenDelivered, OverrideKept, RowLeft, JobInv, FateInv,
       RowInv, RecordInv, LockInv, SpendInv, StatusInv, PendingInv, GreenInv,
       OverrideInv, Early, Late, InReview, Admitted, Terminal, SpentRow, CliPcs,
       Writing, Verdicts, StatusRow
  <2>5. Frame(j)
    BY <1>0, <1>2, <2>1 DEF Did, Becomes, Frame, Posts, Verdicts, Completion, JobState,
       JobInv, RecordInv
  <2> QED
    BY <2>4, <2>5 DEF Kept, r, new
<1> QED
  BY <1>1, <1>2, PostDid DEF HandlerStatus, Changes, At, r, new, Running

\* The handler settles the row it finds, in memory first.
LEMMA HandlerLedgerGood ==
  ASSUME CiInv, NEW j \in Jobs, HandlerLedger(j)
  PROVE  Kept(j)
<1> DEFINE r == job[j]
           new == job'[j]
<1> HIDE DEF r, new
<1>0. r \in JobState /\ JobInv(r) /\ StatusInv(j, r, status) /\ r.lost \in Nat
  BY JobOf DEF r
<1>1. ASSUME Did(j, [sig |-> "persist", mem |-> Ended(j, "cancelled")],
                 job[j].row, job[j].lost),
             r.pc \in CliPcs, r.sig = "ledger", status' = status, Active(j)
      PROVE  Kept(j)
  <2>1. /\ new.pc = r.pc /\ new.mem = Ended(j, "cancelled") /\ new.row = r.row
        /\ new.lost = r.lost /\ SameOutcome(r, new) /\ new.lock = r.lock
        /\ new.threw = r.threw /\ new.sig = "persist" /\ new.fate = r.fate
    BY <1>0, <1>1 DEF Did, Becomes, Pick, SameOutcome, SameProcess, r, new
  <2>2. /\ new.mem \in Rows \cup {NoRow} /\ new.row \in Rows \cup {NoRow}
        /\ new.lost \in 0..MaxEvents
    BY <1>0, <1>1, <2>1, EndedIs DEF Did, JobState, TerminalStatuses, r
  <2>3. new \in JobState
    BY <1>0, <1>1, <2>1, <2>2, JobTyped, TypedJob DEF Did, Becomes, SameOutcome,
       SameProcess, Typed, Pcs, CliPcs, Writing, CliRecords, Outcomes, new
  <2>4. Good(j, r, new, status, status')
    BY <1>0, <1>1, <2>1, <2>3, EndedIs, JobTyped DEF SameOutcome, SameProcess, Typed,
       Good, PendingAnswered, GreenDelivered, OverrideKept, RowLeft, JobInv,
       FateInv, RowInv, RecordInv, LockInv, SpendInv, StatusInv, PendingInv,
       GreenInv, OverrideInv, Early, Late, InReview, Admitted, Terminal,
       SpentRow, CliPcs, Writing, Active, r, TerminalStatuses, ActiveStatuses,
       UnspentStatuses
  <2>5. Frame(j)
    BY <1>1 DEF Did, Becomes, Frame
  <2> QED
    BY <2>4, <2>5 DEF Kept, r, new
<1>2. ASSUME Did(j, [sig |-> IF job[j].mem = NoRow THEN "empty" ELSE "exit"],
                 job[j].row, job[j].lost),
             r.pc \in CliPcs, r.sig = "ledger", status' = status, ~Active(j)
      PROVE  Kept(j)
  <2>1. /\ new.pc = r.pc /\ new.mem = r.mem /\ new.row = r.row /\ new.lost = r.lost
        /\ SameOutcome(r, new) /\ new.lock = r.lock /\ new.threw = r.threw
        /\ new.sig = (IF r.mem = NoRow THEN "empty" ELSE "exit") /\ new.fate = r.fate
    BY <1>0, <1>2 DEF Did, Becomes, Pick, SameOutcome, SameProcess, r, new
  <2>2. /\ new.mem \in Rows \cup {NoRow} /\ new.row \in Rows \cup {NoRow}
        /\ new.lost \in 0..MaxEvents
    BY <1>0, <1>2, <2>1 DEF Did, JobState, TerminalStatuses, r
  <2>3. new \in JobState
    BY <1>0, <1>2, <2>1, <2>2, JobTyped, TypedJob DEF Did, Becomes, SameOutcome,
       SameProcess, Typed, Pcs, CliPcs, Writing, CliRecords, Outcomes, new
  <2>4. Good(j, r, new, status, status')
    BY <1>0, <1>2, <2>1, <2>3, JobTyped DEF SameOutcome, SameProcess, Typed, Good,
       PendingAnswered, GreenDelivered, OverrideKept, RowLeft, JobInv, FateInv,
       RowInv, RecordInv, LockInv, SpendInv, StatusInv, PendingInv, GreenInv,
       OverrideInv, Early, Late, InReview, Admitted, Terminal, SpentRow, CliPcs,
       Writing, Active, r, TerminalStatuses, ActiveStatuses, UnspentStatuses
  <2>5. Frame(j)
    BY <1>2 DEF Did, Becomes, Frame
  <2> QED
    BY <2>4, <2>5 DEF Kept, r, new
<1> QED
  BY <1>1, <1>2, SetDid DEF HandlerLedger, Changes, At, r, new, Running

\* The handler's settlement lands, or a call was lost.
LEMMA HandlerPersistGood ==
  ASSUME CiInv, NEW j \in Jobs, HandlerPersist(j)
  PROVE  Kept(j)
<1> DEFINE r == job[j]
           new == job'[j]
<1> HIDE DEF r, new
<1>0. r \in JobState /\ JobInv(r) /\ StatusInv(j, r, status) /\ r.lost \in Nat
  BY JobOf DEF r
<1>1. ASSUME Did(j, [sig |-> IF At(j, "starting") THEN "crossed" ELSE "exit"],
                 job[j].mem, job[j].lost),
             r.pc \in CliPcs, r.sig = "persist", status' = status
      PROVE  Kept(j)
  <2>1. /\ new.pc = r.pc /\ new.mem = r.mem /\ new.row = r.mem /\ new.lost = r.lost
        /\ SameOutcome(r, new) /\ new.lock = r.lock /\ new.threw = r.threw
       /\ new.sig = (IF r.pc = "starting" THEN "crossed" ELSE "exit") /\ new.fate =
       r.fate
    BY <1>0, <1>1 DEF Did, Becomes, Pick, SameOutcome, SameProcess, At, r, new
  <2>2. /\ new.mem \in Rows \cup {NoRow} /\ new.row \in Rows \cup {NoRow}
        /\ new.lost \in 0..MaxEvents
    BY <1>0, <1>1, <2>1 DEF Did, JobState, TerminalStatuses, r
  <2>3. new \in JobState
    BY <1>0, <1>1, <2>1, <2>2, JobTyped, TypedJob DEF Did, Becomes, SameOutcome,
       SameProcess, Typed, Pcs, CliPcs, Writing, CliRecords, Outcomes, new
  <2>4. Good(j, r, new, status, status')
    BY <1>0, <1>1, <2>1, <2>3, JobTyped DEF SameOutcome, SameProcess, Typed, Good,
       PendingAnswered, GreenDelivered, OverrideKept, RowLeft, JobInv, FateInv,
       RowInv, RecordInv, LockInv, SpendInv, StatusInv, PendingInv, GreenInv,
       OverrideInv, Early, Late, InReview, Admitted, Terminal, SpentRow, CliPcs,
       Writing
  <2>5. Frame(j)
    BY <1>1 DEF Did, Becomes, Frame
  <2> QED
    BY <2>4, <2>5 DEF Kept, r, new
<1>2. ASSUME Did(j, [sig |-> IF At(j, "starting") THEN "crossed" ELSE "exit"],
                 job[j].row, job[j].lost + 1),
             r.pc \in CliPcs, r.sig = "persist", status' = status
      PROVE  Kept(j)
  <2>1. /\ new.pc = r.pc /\ new.mem = r.mem /\ new.row = r.row /\ new.lost = r.lost + 1
        /\ SameOutcome(r, new) /\ new.lock = r.lock /\ new.threw = r.threw
       /\ new.sig = (IF r.pc = "starting" THEN "crossed" ELSE "exit") /\ new.fate =
       r.fate
    BY <1>0, <1>2 DEF Did, Becomes, Pick, SameOutcome, SameProcess, At, r, new
  <2>2. /\ new.mem \in Rows \cup {NoRow} /\ new.row \in Rows \cup {NoRow}
        /\ new.lost \in 0..MaxEvents
    BY <1>0, <1>2, <2>1 DEF Did, JobState, TerminalStatuses, r
  <2>3. new \in JobState
    BY <1>0, <1>2, <2>1, <2>2, JobTyped, TypedJob DEF Did, Becomes, SameOutcome,
       SameProcess, Typed, Pcs, CliPcs, Writing, CliRecords, Outcomes, new
  <2>4. Good(j, r, new, status, status')
    BY <1>0, <1>2, <2>1, <2>3, JobTyped DEF SameOutcome, SameProcess, Typed, Good,
       PendingAnswered, GreenDelivered, OverrideKept, RowLeft, JobInv, FateInv,
       RowInv, RecordInv, LockInv, SpendInv, StatusInv, PendingInv, GreenInv,
       OverrideInv, Early, Late, InReview, Admitted, Terminal, SpentRow, CliPcs,
       Writing
  <2>5. Frame(j)
    BY <1>2 DEF Did, Becomes, Frame
  <2> QED
    BY <2>4, <2>5 DEF Kept, r, new
<1> QED
  BY <1>1, <1>2, PersistDid DEF HandlerPersist, Changes, At, r, new, Running

\* The handler exits with a settled row, or with none in its hands, unless a write of
\* the CLI is under way or crossed its own.
LEMMA HandlerExitGood ==
  ASSUME CiInv, NEW j \in Jobs, HandlerExit(j)
  PROVE  Kept(j)
<1> DEFINE r == job[j]
           new == job'[j]
<1> HIDE DEF r, new
<1>0. r \in JobState /\ JobInv(r) /\ StatusInv(j, r, status) /\ r.lost \in Nat
  BY JobOf DEF r
<1>1. ASSUME Did(j, Exit(job[j].rec, job[j].fate), job[j].row, job[j].lost),
             r.pc \in CliPcs, r.sig \in {"exit", "crossed", "empty"}, status' = status
      PROVE  Kept(j)
  <2>1. /\ new.pc = "exited" /\ new.mem = NoRow /\ new.row = r.row /\ new.lost = r.lost
        /\ SameOutcome(r, new) /\ new.lock = FALSE /\ new.threw = FALSE
        /\ new.sig = "no" /\ new.fate = r.fate
    BY <1>0, <1>1 DEF Did, Becomes, Pick, SameOutcome, SameProcess, r, new, Exit
  <2>2. /\ new.mem \in Rows \cup {NoRow} /\ new.row \in Rows \cup {NoRow}
        /\ new.lost \in 0..MaxEvents
    BY <1>0, <1>1, <2>1 DEF Did, JobState, TerminalStatuses, r
  <2>3. new \in JobState
    BY <1>0, <1>1, <2>1, <2>2, JobTyped, TypedJob DEF Did, Becomes, SameOutcome,
       SameProcess, Typed, Pcs, CliPcs, Writing, CliRecords, Outcomes, new
  <2>4. Good(j, r, new, status, status')
    BY <1>0, <1>1, <2>1, <2>3, JobTyped DEF SameOutcome, SameProcess, Typed, Good,
       PendingAnswered, GreenDelivered, OverrideKept, RowLeft, JobInv, FateInv,
       RowInv, RecordInv, LockInv, SpendInv, StatusInv, PendingInv, GreenInv,
       OverrideInv, Early, Late, InReview, Admitted, Terminal, SpentRow, CliPcs,
       Writing, NoRow
  <2>5. Frame(j)
    BY <1>1 DEF Did, Becomes, Frame
  <2> QED
    BY <2>4, <2>5 DEF Kept, r, new
<1> QED
  BY <1>1, SetDid DEF HandlerExit, Changes, At, r, new, Running, Exit

\* A killed CLI shows it in its fate.
LEMMA KillCliGood ==
  ASSUME CiInv, NEW j \in Jobs, KillCli(j)
  PROVE  Kept(j)
<1> DEFINE r == job[j]
           new == job'[j]
<1> HIDE DEF r, new
<1>0. r \in JobState /\ JobInv(r) /\ StatusInv(j, r, status) /\ r.lost \in Nat
  BY JobOf DEF r
<1>1. ASSUME Did(j, Exit(job[j].rec, IF job[j].fate = "cancelled" THEN "shot" ELSE "killed"),
                 job[j].row, job[j].lost),
             r.pc \in CliPcs, status' = status
      PROVE  Kept(j)
  <2>1. /\ new.pc = "exited" /\ new.mem = NoRow /\ new.row = r.row /\ new.lost = r.lost
        /\ SameOutcome(r, new) /\ new.lock = FALSE /\ new.threw = FALSE
        /\ new.sig = "no"
        /\ new.fate = (IF r.fate = "cancelled" THEN "shot" ELSE "killed")
    BY <1>0, <1>1 DEF Did, Becomes, Pick, SameOutcome, SameProcess, r, new, Exit
  <2>2. /\ new.mem \in Rows \cup {NoRow} /\ new.row \in Rows \cup {NoRow}
        /\ new.lost \in 0..MaxEvents
    BY <1>0, <1>1, <2>1 DEF Did, JobState, TerminalStatuses, r
  <2>3. new \in JobState
    BY <1>0, <1>1, <2>1, <2>2, JobTyped, TypedJob DEF Did, Becomes, SameOutcome,
       SameProcess, Typed, Pcs, CliPcs, Writing, CliRecords, Outcomes, new
  <2>4. Good(j, r, new, status, status')
    BY <1>0, <1>1, <2>1, <2>3, JobTyped DEF SameOutcome, SameProcess, Typed, Good,
       PendingAnswered, GreenDelivered, OverrideKept, RowLeft, JobInv, FateInv,
       RowInv, RecordInv, LockInv, SpendInv, StatusInv, PendingInv, GreenInv,
       OverrideInv, Early, Late, InReview, Admitted, Terminal, SpentRow, CliPcs,
       Writing
  <2>5. Frame(j)
    BY <1>1 DEF Did, Becomes, Frame
  <2> QED
    BY <2>4, <2>5 DEF Kept, r, new
<1> QED
  BY <1>1, SetDid DEF KillCli, Changes, At, r, new, Running, Exit

\* So does a job whose runner is gone.
LEMMA KillRunnerGood ==
  ASSUME CiInv, NEW j \in Jobs, KillRunner(j)
  PROVE  Kept(j)
<1> DEFINE r == job[j]
           new == job'[j]
<1> HIDE DEF r, new
<1>0. r \in JobState /\ JobInv(r) /\ StatusInv(j, r, status) /\ r.lost \in Nat
  BY JobOf DEF r
<1>1. ASSUME Did(j, End(j, "died"), job[j].row, job[j].lost),
             r.pc \notin {"queued", "over"}, status' = status
      PROVE  Kept(j)
  <2>1. /\ new.pc = "over" /\ new.mem = NoRow /\ new.row = r.row /\ new.lost = r.lost
        /\ new.kind = r.kind /\ new.out = (IF r.out = "none" THEN "none" ELSE "running")
        /\ new.rec = "none" /\ new.due = "none" /\ new.cut = FALSE /\ new.lock = FALSE
        /\ new.threw = FALSE /\ new.sig = "no" /\ new.fate = "died"
    BY <1>0, <1>1 DEF Did, Becomes, Pick, SameOutcome, SameProcess, r, new, End
  <2>2. /\ new.mem \in Rows \cup {NoRow} /\ new.row \in Rows \cup {NoRow}
        /\ new.lost \in 0..MaxEvents
    BY <1>0, <1>1, <2>1 DEF Did, JobState, TerminalStatuses, r
  <2>3. new \in JobState
    BY <1>0, <1>1, <2>1, <2>2, JobTyped, TypedJob DEF Did, Becomes, SameOutcome,
       SameProcess, Typed, Pcs, CliPcs, Writing, CliRecords, Outcomes, new
  <2>4. Good(j, r, new, status, status')
    BY <1>0, <1>1, <2>1, <2>3, JobTyped DEF SameOutcome, SameProcess, Typed, Good,
       PendingAnswered, GreenDelivered, OverrideKept, RowLeft, JobInv, FateInv,
       RowInv, RecordInv, LockInv, SpendInv, StatusInv, PendingInv, GreenInv,
       OverrideInv, Early, Late, InReview, Admitted, Terminal, SpentRow, CliPcs,
       Writing, Outcomes
  <2>5. Frame(j)
    BY <1>1 DEF Did, Becomes, Frame
  <2> QED
    BY <2>4, <2>5 DEF Kept, r, new
<1> QED
  BY <1>1, SetDid DEF KillRunner, Changes, At, r, new, End

\* Before it writes again the publisher asks for an override, if the cutoff is known;
\* a job over which one was posted meanwhile lost two calls by then.
LEMMA RepostReadGood ==
  ASSUME CiInv, NEW j \in Jobs, RepostRead(j)
  PROVE  Kept(j)
<1> DEFINE r == job[j]
           new == job'[j]
<1> HIDE DEF r, new
<1>0. r \in JobState /\ JobInv(r) /\ StatusInv(j, r, status) /\ r.lost \in Nat
  BY JobOf DEF r
<1>1. ASSUME Did(j, Left(j), job[j].row, job[j].lost), r.pc = "exited",
             status' = status, status.s = "override"
      PROVE  Kept(j)
  <2>1. /\ new.pc = "over" /\ new.mem = NoRow /\ new.row = r.row /\ new.lost = r.lost
        /\ new.kind = r.kind /\ new.out = (IF r.out = "none" THEN "none" ELSE "running")
        /\ new.rec = "none" /\ new.due = "none" /\ new.cut = FALSE /\ new.lock = FALSE
        /\ new.threw = FALSE /\ new.sig = "no" /\ new.fate = "fine"
    BY <1>0, <1>1 DEF Did, Becomes, Pick, SameOutcome, SameProcess, r, new, End, Left
  <2>2. /\ new.mem \in Rows \cup {NoRow} /\ new.row \in Rows \cup {NoRow}
        /\ new.lost \in 0..MaxEvents
    BY <1>0, <1>1, <2>1 DEF Did, JobState, TerminalStatuses, r
  <2>3. new \in JobState
    BY <1>0, <1>1, <2>1, <2>2, JobTyped, TypedJob DEF Did, Becomes, SameOutcome,
       SameProcess, Typed, Pcs, CliPcs, Writing, CliRecords, Outcomes, new
  <2>4. Good(j, r, new, status, status')
    BY <1>0, <1>1, <2>1, <2>3, JobTyped DEF SameOutcome, SameProcess, Typed, Good,
       PendingAnswered, GreenDelivered, OverrideKept, RowLeft, JobInv, FateInv,
       RowInv, RecordInv, LockInv, SpendInv, StatusInv, PendingInv, GreenInv,
       OverrideInv, Early, Late, InReview, Admitted, Terminal, SpentRow, CliPcs,
       Writing, Stands, Outcomes
  <2>5. Frame(j)
    BY <1>1 DEF Did, Becomes, Frame
  <2> QED
    BY <2>4, <2>5 DEF Kept, r, new
<1>2. ASSUME Did(j, [pc |-> "repost"], job[j].row, job[j].lost), r.pc = "exited",
             r.fate \notin {"cancelled", "shot"}, r.due # "none", status' = status,
             ~(r.cut /\ Stands(j))
      PROVE  Kept(j)
  <2>1. /\ new.pc = "repost" /\ new.mem = r.mem /\ new.row = r.row /\ new.lost = r.lost
        /\ SameOutcome(r, new) /\ SameProcess(r, new)
    BY <1>0, <1>2 DEF Did, Becomes, Pick, SameOutcome, SameProcess, r, new
  <2>2. /\ new.mem \in Rows \cup {NoRow} /\ new.row \in Rows \cup {NoRow}
        /\ new.lost \in 0..MaxEvents
    BY <1>0, <1>2, <2>1 DEF Did, JobState, TerminalStatuses, r
  <2>3. new \in JobState
    BY <1>0, <1>2, <2>1, <2>2, JobTyped, TypedJob DEF Did, Becomes, SameOutcome,
       SameProcess, Typed, Pcs, CliPcs, Writing, CliRecords, Outcomes, new
  <2>4. Good(j, r, new, status, status')
    BY <1>0, <1>2, <2>1, <2>3, JobTyped DEF SameOutcome, SameProcess, Typed, Good,
       PendingAnswered, GreenDelivered, OverrideKept, RowLeft, JobInv, FateInv,
       RowInv, RecordInv, LockInv, SpendInv, StatusInv, PendingInv, GreenInv,
       OverrideInv, Early, Late, InReview, Admitted, Terminal, SpentRow, CliPcs,
       Writing, Stands, Outcomes
  <2>5. Frame(j)
    BY <1>2 DEF Did, Becomes, Frame
  <2> QED
    BY <2>4, <2>5 DEF Kept, r, new
<1>3. ASSUME Did(j, [pc |-> "repost"], job[j].row, job[j].lost + 1), r.pc = "exited",
             r.due # "none", status' = status
      PROVE  Kept(j)
  <2>1. /\ new.pc = "repost" /\ new.mem = r.mem /\ new.row = r.row
        /\ new.lost = r.lost + 1 /\ SameOutcome(r, new) /\ SameProcess(r, new)
    BY <1>0, <1>3 DEF Did, Becomes, Pick, SameOutcome, SameProcess, r, new
  <2>2. /\ new.mem \in Rows \cup {NoRow} /\ new.row \in Rows \cup {NoRow}
        /\ new.lost \in 0..MaxEvents
    BY <1>0, <1>3, <2>1 DEF Did, JobState, TerminalStatuses, r
  <2>3. new \in JobState
    BY <1>0, <1>3, <2>1, <2>2, JobTyped, TypedJob DEF Did, Becomes, SameOutcome,
       SameProcess, Typed, Pcs, CliPcs, Writing, CliRecords, Outcomes, new
  <2>4. Good(j, r, new, status, status')
    BY <1>0, <1>3, <2>1, <2>3, JobTyped DEF SameOutcome, SameProcess, Typed, Good,
       PendingAnswered, GreenDelivered, OverrideKept, RowLeft, JobInv, FateInv,
       RowInv, RecordInv, LockInv, SpendInv, StatusInv, PendingInv, GreenInv,
       OverrideInv, Early, Late, InReview, Admitted, Terminal, SpentRow, CliPcs,
       Writing, Stands, Outcomes
  <2>5. Frame(j)
    BY <1>3 DEF Did, Becomes, Frame
  <2> QED
    BY <2>4, <2>5 DEF Kept, r, new
<1> QED
  BY <1>1, <1>2, <1>3, SetDid, SetLostDid DEF RepostRead, Changes, At, r, new, End, Left,
     Stands, Cancelled

\* The verdict that was due lands, or a second call was lost.
LEMMA RepostGood ==
  ASSUME CiInv, NEW j \in Jobs, Repost(j)
  PROVE  Kept(j)
<1> DEFINE r == job[j]
           new == job'[j]
<1> HIDE DEF r, new
<1>0. r \in JobState /\ JobInv(r) /\ StatusInv(j, r, status) /\ r.lost \in Nat
  BY JobOf DEF r
<1>1. ASSUME Did(j, Left(j), job[j].row, job[j].lost), r.pc = "repost",
             status' = StatusRow(r.due, j)
      PROVE  Kept(j)
  <2>1. /\ new.pc = "over" /\ new.mem = NoRow /\ new.row = r.row /\ new.lost = r.lost
        /\ new.kind = r.kind /\ new.out = (IF r.out = "none" THEN "none" ELSE "running")
        /\ new.rec = "none" /\ new.due = "none" /\ new.cut = FALSE /\ new.lock = FALSE
        /\ new.threw = FALSE /\ new.sig = "no" /\ new.fate = "fine"
    BY <1>0, <1>1 DEF Did, Becomes, Pick, SameOutcome, SameProcess, r, new, End, Left
  <2>2. /\ new.mem \in Rows \cup {NoRow} /\ new.row \in Rows \cup {NoRow}
        /\ new.lost \in 0..MaxEvents
    BY <1>0, <1>1, <2>1 DEF Did, JobState, TerminalStatuses, r
  <2>3. new \in JobState
    BY <1>0, <1>1, <2>1, <2>2, JobTyped, TypedJob DEF Did, Becomes, SameOutcome,
       SameProcess, Typed, Pcs, CliPcs, Writing, CliRecords, Outcomes, new
  <2>4. Good(j, r, new, status, status')
    BY <1>0, <1>1, <2>1, <2>3, JobTyped DEF SameOutcome, SameProcess, Typed, Good,
       PendingAnswered, GreenDelivered, OverrideKept, RowLeft, JobInv, FateInv,
       RowInv, RecordInv, LockInv, SpendInv, StatusInv, PendingInv, GreenInv,
       OverrideInv, Early, Late, InReview, Admitted, Terminal, SpentRow, CliPcs,
       Writing, Verdicts, StatusRow, Outcomes
  <2>5. Frame(j)
    BY <1>0, <1>1, <2>1 DEF Did, Becomes, Frame, Posts, Verdicts, Completion, JobState,
       JobInv, RecordInv
  <2> QED
    BY <2>4, <2>5 DEF Kept, r, new
<1>2. ASSUME Did(j, Left(j), job[j].row, job[j].lost + 1), r.pc = "repost",
             status' = status \/ status' = StatusRow(r.due, j)
      PROVE  Kept(j)
  <2>1. /\ new.pc = "over" /\ new.mem = NoRow /\ new.row = r.row
        /\ new.lost = r.lost + 1 /\ new.kind = r.kind
        /\ new.out = (IF r.out = "none" THEN "none" ELSE "running") /\ new.rec = "none"
        /\ new.due = "none" /\ new.cut = FALSE /\ new.lock = FALSE /\ new.threw = FALSE
        /\ new.sig = "no" /\ new.fate = "fine"
    BY <1>0, <1>2 DEF Did, Becomes, Pick, SameOutcome, SameProcess, r, new, End, Left
  <2>2. /\ new.mem \in Rows \cup {NoRow} /\ new.row \in Rows \cup {NoRow}
        /\ new.lost \in 0..MaxEvents
    BY <1>0, <1>2, <2>1 DEF Did, JobState, TerminalStatuses, r
  <2>3. new \in JobState
    BY <1>0, <1>2, <2>1, <2>2, JobTyped, TypedJob DEF Did, Becomes, SameOutcome,
       SameProcess, Typed, Pcs, CliPcs, Writing, CliRecords, Outcomes, new
  <2>4. Good(j, r, new, status, status')
    BY <1>0, <1>2, <2>1, <2>3, JobTyped DEF SameOutcome, SameProcess, Typed, Good,
       PendingAnswered, GreenDelivered, OverrideKept, RowLeft, JobInv, FateInv,
       RowInv, RecordInv, LockInv, SpendInv, StatusInv, PendingInv, GreenInv,
       OverrideInv, Early, Late, InReview, Admitted, Terminal, SpentRow, CliPcs,
       Writing, Verdicts, StatusRow, Outcomes
  <2>5. Frame(j)
    BY <1>0, <1>2, <2>1 DEF Did, Becomes, Frame, Posts, Verdicts, Completion, JobState,
       JobInv, RecordInv
  <2> QED
    BY <2>4, <2>5 DEF Kept, r, new
<1> QED
  BY <1>1, <1>2, PostDid DEF Repost, Changes, At, r, new, End, Left

\* A job that leaves a pending behind has a record for which the publisher writes an
\* error, or lost a call.
LEMMA PublishGood ==
  ASSUME CiInv, NEW j \in Jobs, Publish(j)
  PROVE  Kept(j)
<1> DEFINE r == job[j]
           new == job'[j]
<1> HIDE DEF r, new
<1>0. r \in JobState /\ JobInv(r) /\ StatusInv(j, r, status) /\ r.lost \in Nat
  BY JobOf DEF r
<1>1. ASSUME Did(j, [pc |-> "error"], job[j].row, job[j].lost), r.pc = "exited",
             r.fate \notin {"cancelled", "shot"}, status' = status
      PROVE  Kept(j)
  <2>1. /\ new.pc = "error" /\ new.mem = r.mem /\ new.row = r.row /\ new.lost = r.lost
        /\ SameOutcome(r, new) /\ SameProcess(r, new)
    BY <1>0, <1>1 DEF Did, Becomes, Pick, SameOutcome, SameProcess, r, new
  <2>2. /\ new.mem \in Rows \cup {NoRow} /\ new.row \in Rows \cup {NoRow}
        /\ new.lost \in 0..MaxEvents
    BY <1>0, <1>1, <2>1 DEF Did, JobState, TerminalStatuses, r
  <2>3. new \in JobState
    BY <1>0, <1>1, <2>1, <2>2, JobTyped, TypedJob DEF Did, Becomes, SameOutcome,
       SameProcess, Typed, Pcs, CliPcs, Writing, CliRecords, Outcomes, new
  <2>4. Good(j, r, new, status, status')
    BY <1>0, <1>1, <2>1, <2>3, JobTyped DEF SameOutcome, SameProcess, Typed, Good,
       PendingAnswered, GreenDelivered, OverrideKept, RowLeft, JobInv, FateInv,
       RowInv, RecordInv, LockInv, SpendInv, StatusInv, PendingInv, GreenInv,
       OverrideInv, Early, Late, InReview, Admitted, Terminal, SpentRow, CliPcs,
       Writing, PublisherError, Settled, CliRecords, Outcomes
  <2>5. Frame(j)
    BY <1>1 DEF Did, Becomes, Frame
  <2> QED
    BY <2>4, <2>5 DEF Kept, r, new
<1>2. ASSUME Did(j, Left(j), job[j].row, job[j].lost), r.pc = "exited",
             r.fate \notin {"cancelled", "shot"}, r.due = "none", status' = status,
             ~PublisherError(r.rec, status.s)
      PROVE  Kept(j)
  <2>1. /\ new.pc = "over" /\ new.mem = NoRow /\ new.row = r.row /\ new.lost = r.lost
        /\ new.kind = r.kind /\ new.out = (IF r.out = "none" THEN "none" ELSE "running")
        /\ new.rec = "none" /\ new.due = "none" /\ new.cut = FALSE /\ new.lock = FALSE
        /\ new.threw = FALSE /\ new.sig = "no" /\ new.fate = "fine"
    BY <1>0, <1>2 DEF Did, Becomes, Pick, SameOutcome, SameProcess, r, new, End, Left
  <2>2. /\ new.mem \in Rows \cup {NoRow} /\ new.row \in Rows \cup {NoRow}
        /\ new.lost \in 0..MaxEvents
    BY <1>0, <1>2, <2>1 DEF Did, JobState, TerminalStatuses, r
  <2>3. new \in JobState
    BY <1>0, <1>2, <2>1, <2>2, JobTyped, TypedJob DEF Did, Becomes, SameOutcome,
       SameProcess, Typed, Pcs, CliPcs, Writing, CliRecords, Outcomes, new
  <2>4. Good(j, r, new, status, status')
    BY <1>0, <1>2, <2>1, <2>3, JobTyped DEF SameOutcome, SameProcess, Typed, Good,
       PendingAnswered, GreenDelivered, OverrideKept, RowLeft, JobInv, FateInv,
       RowInv, RecordInv, LockInv, SpendInv, StatusInv, PendingInv, GreenInv,
       OverrideInv, Early, Late, InReview, Admitted, Terminal, SpentRow, CliPcs,
       Writing, PublisherError, Settled, CliRecords, Outcomes
  <2>5. Frame(j)
    BY <1>2 DEF Did, Becomes, Frame
  <2> QED
    BY <2>4, <2>5 DEF Kept, r, new
<1>3. ASSUME Did(j, [pc |-> "error"], job[j].row, job[j].lost + 1), r.pc = "exited",
             r.fate \notin {"cancelled", "shot"}, status' = status
      PROVE  Kept(j)
  <2>1. /\ new.pc = "error" /\ new.mem = r.mem /\ new.row = r.row
        /\ new.lost = r.lost + 1 /\ SameOutcome(r, new) /\ SameProcess(r, new)
    BY <1>0, <1>3 DEF Did, Becomes, Pick, SameOutcome, SameProcess, r, new
  <2>2. /\ new.mem \in Rows \cup {NoRow} /\ new.row \in Rows \cup {NoRow}
        /\ new.lost \in 0..MaxEvents
    BY <1>0, <1>3, <2>1 DEF Did, JobState, TerminalStatuses, r
  <2>3. new \in JobState
    BY <1>0, <1>3, <2>1, <2>2, JobTyped, TypedJob DEF Did, Becomes, SameOutcome,
       SameProcess, Typed, Pcs, CliPcs, Writing, CliRecords, Outcomes, new
  <2>4. Good(j, r, new, status, status')
    BY <1>0, <1>3, <2>1, <2>3, JobTyped DEF SameOutcome, SameProcess, Typed, Good,
       PendingAnswered, GreenDelivered, OverrideKept, RowLeft, JobInv, FateInv,
       RowInv, RecordInv, LockInv, SpendInv, StatusInv, PendingInv, GreenInv,
       OverrideInv, Early, Late, InReview, Admitted, Terminal, SpentRow, CliPcs,
       Writing, PublisherError, Settled, CliRecords, Outcomes
  <2>5. Frame(j)
    BY <1>3 DEF Did, Becomes, Frame
  <2> QED
    BY <2>4, <2>5 DEF Kept, r, new
<1> QED
  BY <1>1, <1>2, <1>3, SetDid, SetLostDid DEF Publish, Changes, At, r, new, End, Left,
     Cancelled

\* A cancelled job whose pending is still shown settles it, or lost a call.
LEMMA CancelSettleGood ==
  ASSUME CiInv, NEW j \in Jobs, CancelSettle(j)
  PROVE  Kept(j)
<1> DEFINE r == job[j]
           new == job'[j]
<1> HIDE DEF r, new
<1>0. r \in JobState /\ JobInv(r) /\ StatusInv(j, r, status) /\ r.lost \in Nat
  BY JobOf DEF r
<1>1. ASSUME Did(j, [pc |-> "error"], job[j].row, job[j].lost), r.pc = "exited",
             r.fate \in {"cancelled", "shot"}, status' = status
      PROVE  Kept(j)
  <2>1. /\ new.pc = "error" /\ new.mem = r.mem /\ new.row = r.row /\ new.lost = r.lost
        /\ SameOutcome(r, new) /\ SameProcess(r, new)
    BY <1>0, <1>1 DEF Did, Becomes, Pick, SameOutcome, SameProcess, r, new
  <2>2. /\ new.mem \in Rows \cup {NoRow} /\ new.row \in Rows \cup {NoRow}
        /\ new.lost \in 0..MaxEvents
    BY <1>0, <1>1, <2>1 DEF Did, JobState, TerminalStatuses, r
  <2>3. new \in JobState
    BY <1>0, <1>1, <2>1, <2>2, JobTyped, TypedJob DEF Did, Becomes, SameOutcome,
       SameProcess, Typed, Pcs, CliPcs, Writing, CliRecords, Outcomes, new
  <2>4. Good(j, r, new, status, status')
    BY <1>0, <1>1, <2>1, <2>3, JobTyped DEF SameOutcome, SameProcess, Typed, Good,
       PendingAnswered, GreenDelivered, OverrideKept, RowLeft, JobInv, FateInv,
       RowInv, RecordInv, LockInv, SpendInv, StatusInv, PendingInv, GreenInv,
       OverrideInv, Early, Late, InReview, Admitted, Terminal, SpentRow, CliPcs,
       Writing, CancelSettles, CliRecords, Outcomes
  <2>5. Frame(j)
    BY <1>1 DEF Did, Becomes, Frame
  <2> QED
    BY <2>4, <2>5 DEF Kept, r, new
<1>2. ASSUME Did(j, Left(j), job[j].row, job[j].lost), r.pc = "exited",
             r.fate \in {"cancelled", "shot"}, status' = status,
             ~CancelSettles(r.rec, status.s, status.by = j)
      PROVE  Kept(j)
  <2>1. /\ new.pc = "over" /\ new.mem = NoRow /\ new.row = r.row /\ new.lost = r.lost
        /\ new.kind = r.kind /\ new.out = (IF r.out = "none" THEN "none" ELSE "running")
        /\ new.rec = "none" /\ new.due = "none" /\ new.cut = FALSE /\ new.lock = FALSE
        /\ new.threw = FALSE /\ new.sig = "no" /\ new.fate = "fine"
    BY <1>0, <1>2 DEF Did, Becomes, Pick, SameOutcome, SameProcess, r, new, End, Left
  <2>2. /\ new.mem \in Rows \cup {NoRow} /\ new.row \in Rows \cup {NoRow}
        /\ new.lost \in 0..MaxEvents
    BY <1>0, <1>2, <2>1 DEF Did, JobState, TerminalStatuses, r
  <2>3. new \in JobState
    BY <1>0, <1>2, <2>1, <2>2, JobTyped, TypedJob DEF Did, Becomes, SameOutcome,
       SameProcess, Typed, Pcs, CliPcs, Writing, CliRecords, Outcomes, new
  <2>4. Good(j, r, new, status, status')
    BY <1>0, <1>2, <2>1, <2>3, JobTyped DEF SameOutcome, SameProcess, Typed, Good,
       PendingAnswered, GreenDelivered, OverrideKept, RowLeft, JobInv, FateInv,
       RowInv, RecordInv, LockInv, SpendInv, StatusInv, PendingInv, GreenInv,
       OverrideInv, Early, Late, InReview, Admitted, Terminal, SpentRow, CliPcs,
       Writing, CancelSettles, CliRecords, Outcomes
  <2>5. Frame(j)
    BY <1>2 DEF Did, Becomes, Frame
  <2> QED
    BY <2>4, <2>5 DEF Kept, r, new
<1>3. ASSUME Did(j, Left(j), job[j].row, job[j].lost + 1), r.pc = "exited",
             r.fate \in {"cancelled", "shot"}, status' = status
      PROVE  Kept(j)
  <2>1. /\ new.pc = "over" /\ new.mem = NoRow /\ new.row = r.row
        /\ new.lost = r.lost + 1 /\ new.kind = r.kind
        /\ new.out = (IF r.out = "none" THEN "none" ELSE "running") /\ new.rec = "none"
        /\ new.due = "none" /\ new.cut = FALSE /\ new.lock = FALSE /\ new.threw = FALSE
        /\ new.sig = "no" /\ new.fate = "fine"
    BY <1>0, <1>3 DEF Did, Becomes, Pick, SameOutcome, SameProcess, r, new, End, Left
  <2>2. /\ new.mem \in Rows \cup {NoRow} /\ new.row \in Rows \cup {NoRow}
        /\ new.lost \in 0..MaxEvents
    BY <1>0, <1>3, <2>1 DEF Did, JobState, TerminalStatuses, r
  <2>3. new \in JobState
    BY <1>0, <1>3, <2>1, <2>2, JobTyped, TypedJob DEF Did, Becomes, SameOutcome,
       SameProcess, Typed, Pcs, CliPcs, Writing, CliRecords, Outcomes, new
  <2>4. Good(j, r, new, status, status')
    BY <1>0, <1>3, <2>1, <2>3, JobTyped DEF SameOutcome, SameProcess, Typed, Good,
       PendingAnswered, GreenDelivered, OverrideKept, RowLeft, JobInv, FateInv,
       RowInv, RecordInv, LockInv, SpendInv, StatusInv, PendingInv, GreenInv,
       OverrideInv, Early, Late, InReview, Admitted, Terminal, SpentRow, CliPcs,
       Writing, CancelSettles, CliRecords, Outcomes
  <2>5. Frame(j)
    BY <1>3 DEF Did, Becomes, Frame
  <2> QED
    BY <2>4, <2>5 DEF Kept, r, new
<1> QED
  BY <1>1, <1>2, <1>3, SetDid, SetLostDid DEF CancelSettle, Changes, At, r, new, End,
     Left, Cancelled

\* The error answers the pending, or a call was lost.
LEMMA PostErrorGood ==
  ASSUME CiInv, NEW j \in Jobs, PostError(j)
  PROVE  Kept(j)
<1> DEFINE r == job[j]
           new == job'[j]
<1> HIDE DEF r, new
<1>0. r \in JobState /\ JobInv(r) /\ StatusInv(j, r, status) /\ r.lost \in Nat
  BY JobOf DEF r
<1>1. ASSUME Did(j, Left(j), job[j].row, job[j].lost), r.pc = "error",
             status' = StatusRow("error", j)
      PROVE  Kept(j)
  <2>1. /\ new.pc = "over" /\ new.mem = NoRow /\ new.row = r.row /\ new.lost = r.lost
        /\ new.kind = r.kind /\ new.out = (IF r.out = "none" THEN "none" ELSE "running")
        /\ new.rec = "none" /\ new.due = "none" /\ new.cut = FALSE /\ new.lock = FALSE
        /\ new.threw = FALSE /\ new.sig = "no" /\ new.fate = "fine"
    BY <1>0, <1>1 DEF Did, Becomes, Pick, SameOutcome, SameProcess, r, new, End, Left
  <2>2. /\ new.mem \in Rows \cup {NoRow} /\ new.row \in Rows \cup {NoRow}
        /\ new.lost \in 0..MaxEvents
    BY <1>0, <1>1, <2>1 DEF Did, JobState, TerminalStatuses, r
  <2>3. new \in JobState
    BY <1>0, <1>1, <2>1, <2>2, JobTyped, TypedJob DEF Did, Becomes, SameOutcome,
       SameProcess, Typed, Pcs, CliPcs, Writing, CliRecords, Outcomes, new
  <2>4. Good(j, r, new, status, status')
    BY <1>0, <1>1, <2>1, <2>3, JobTyped DEF SameOutcome, SameProcess, Typed, Good,
       PendingAnswered, GreenDelivered, OverrideKept, RowLeft, JobInv, FateInv,
       RowInv, RecordInv, LockInv, SpendInv, StatusInv, PendingInv, GreenInv,
       OverrideInv, Early, Late, InReview, Admitted, Terminal, SpentRow, CliPcs,
       Writing, Verdicts, StatusRow, Outcomes
  <2>5. Frame(j)
    BY <1>0, <1>1, <2>1 DEF Did, Becomes, Frame, Posts, Verdicts, Completion, JobState,
       JobInv, RecordInv
  <2> QED
    BY <2>4, <2>5 DEF Kept, r, new
<1>2. ASSUME Did(j, Left(j), job[j].row, job[j].lost + 1), r.pc = "error",
             status' = status \/ status' = StatusRow("error", j)
      PROVE  Kept(j)
  <2>1. /\ new.pc = "over" /\ new.mem = NoRow /\ new.row = r.row
        /\ new.lost = r.lost + 1 /\ new.kind = r.kind
        /\ new.out = (IF r.out = "none" THEN "none" ELSE "running") /\ new.rec = "none"
        /\ new.due = "none" /\ new.cut = FALSE /\ new.lock = FALSE /\ new.threw = FALSE
        /\ new.sig = "no" /\ new.fate = "fine"
    BY <1>0, <1>2 DEF Did, Becomes, Pick, SameOutcome, SameProcess, r, new, End, Left
  <2>2. /\ new.mem \in Rows \cup {NoRow} /\ new.row \in Rows \cup {NoRow}
        /\ new.lost \in 0..MaxEvents
    BY <1>0, <1>2, <2>1 DEF Did, JobState, TerminalStatuses, r
  <2>3. new \in JobState
    BY <1>0, <1>2, <2>1, <2>2, JobTyped, TypedJob DEF Did, Becomes, SameOutcome,
       SameProcess, Typed, Pcs, CliPcs, Writing, CliRecords, Outcomes, new
  <2>4. Good(j, r, new, status, status')
    BY <1>0, <1>2, <2>1, <2>3, JobTyped DEF SameOutcome, SameProcess, Typed, Good,
       PendingAnswered, GreenDelivered, OverrideKept, RowLeft, JobInv, FateInv,
       RowInv, RecordInv, LockInv, SpendInv, StatusInv, PendingInv, GreenInv,
       OverrideInv, Early, Late, InReview, Admitted, Terminal, SpentRow, CliPcs,
       Writing, Verdicts, StatusRow, Outcomes
  <2>5. Frame(j)
    BY <1>0, <1>2, <2>1 DEF Did, Becomes, Frame, Posts, Verdicts, Completion, JobState,
       JobInv, RecordInv
  <2> QED
    BY <2>4, <2>5 DEF Kept, r, new
<1> QED
  BY <1>1, <1>2, PostDid DEF PostError, Changes, At, r, new, End, Left

-----------------------------------------------------------------------------
(* All jobs, and the override command.                                     *)

JobNext(j) ==
  \/ Start(j) \/ GateSkip(j) \/ ReserveRow(j) \/ HoldRow(j)
  \/ SizeSkip(j) \/ Yield(j) \/ GoOn(j) \/ SkipRead(j) \/ SkipWrite(j)
  \/ Begin(j) \/ PostPending(j) \/ HoldLock(j) \/ StartProvider(j)
  \/ RunPipeline(j) \/ Throw(j) \/ PostingFails(j) \/ Deliver(j)
  \/ Complete(j) \/ PersistRow(j) \/ Settle(j) \/ Write(j) \/ Unlock(j)
  \/ Close(j) \/ Closing(j)
  \/ Cancel(j) \/ HandlerStatus(j) \/ HandlerLedger(j) \/ HandlerPersist(j)
  \/ HandlerExit(j) \/ KillCli(j) \/ KillRunner(j)
  \/ Publish(j) \/ CancelSettle(j) \/ PostError(j) \/ RepostRead(j) \/ Repost(j)

\* Every action keeps what it must.
LEMMA JobNextKept ==
  ASSUME CiInv, NEW j \in Jobs, JobNext(j)
  PROVE  Kept(j)
BY StartGood, GateSkipGood, ReserveRowGood, HoldRowGood, SizeSkipGood, YieldGood, GoOnGood,
   SkipReadGood, SkipWriteGood, BeginGood, PostPendingGood, HoldLockGood, StartProviderGood,
   RunPipelineGood, ThrowGood, PostingFailsGood, DeliverGood, CompleteGood, PersistRowGood,
   SettleGood, WriteGood, UnlockGood, CloseGood, ClosingGood, CancelGood, HandlerStatusGood,
   HandlerLedgerGood, HandlerPersistGood, HandlerExitGood, KillCliGood, KillRunnerGood,
   PublishGood, CancelSettleGood, PostErrorGood, RepostReadGood, RepostGood DEF JobNext

\* The newest row and the completed review are set by three actions.
LEMMA FlagsOf ==
  ASSUME TypeOK, NEW j \in Jobs, JobNext(j)
  PROVE  newest' \in {newest, j} /\ full' \in {full, TRUE}
<1>1. CASE GateSkip(j) \/ ReserveRow(j)
  BY <1>1 DEF GateSkip, ReserveRow
<1>2. CASE Deliver(j)
  <2>1. newest' = newest
    BY <1>2 DEF Deliver
  <2>2. full' \in {full, TRUE}
    BY <1>2 DEF Deliver
  <2> QED
    BY <2>1, <2>2
<1>3. CASE \/ Start(j) \/ HoldRow(j) \/ SizeSkip(j) \/ Yield(j) \/ GoOn(j) \/ SkipRead(j)
       \/ SkipWrite(j) \/ Begin(j) \/ PostPending(j) \/ HoldLock(j) \/ StartProvider(j)
  BY <1>3 DEF Start, HoldRow, SizeSkip, Yield, GoOn, SkipRead, SkipWrite, Begin,
     PostPending, HoldLock, StartProvider
<1>4. CASE \/ RunPipeline(j) \/ Throw(j) \/ PostingFails(j) \/ Complete(j) \/ PersistRow(j)
           \/ Settle(j) \/ Write(j) \/ Unlock(j) \/ Close(j) \/ Closing(j)
  BY <1>4 DEF RunPipeline, Throw, PostingFails, Complete, PersistRow, Settle, Write, Unlock,
     Close, Closing
<1>5. CASE \/ Cancel(j) \/ HandlerStatus(j) \/ HandlerLedger(j) \/ HandlerPersist(j)
           \/ HandlerExit(j) \/ KillCli(j) \/ KillRunner(j) \/ Publish(j)
           \/ CancelSettle(j) \/ PostError(j) \/ RepostRead(j) \/ Repost(j)
  BY <1>5 DEF Cancel, HandlerStatus, HandlerLedger, HandlerPersist, HandlerExit, KillCli,
     KillRunner, Publish, CancelSettle, PostError, RepostRead, Repost
<1> QED
  BY <1>1, <1>2, <1>3, <1>4, <1>5 DEF JobNext

\* Another job's step leaves a job alone, and shows no status that is its own.
LEMMA OthersKept ==
  ASSUME CiInv, NEW j \in Jobs, Frame(j), NEW k \in Jobs, k # j
  PROVE  /\ job'[k] = job[k] /\ StatusInv(k, job'[k], status')
         /\ job'[k].lost + left' <= MaxEvents
<1>1. job'[k] = job[k]
  BY DEF Frame, CiInv, TypeOK
<1>2. /\ StatusInv(k, job[k], status)
      /\ job[k].lost \in 0..MaxEvents /\ left \in 0..MaxEvents
      /\ job[k].lost + left <= MaxEvents /\ MaxEvents \in Nat
  BY JobOf
<1>3. job'[k].lost + left' <= MaxEvents
  BY <1>1, <1>2 DEF Frame
<1>4. CASE status' = status
  BY <1>1, <1>2, <1>3, <1>4
<1>5. CASE \E s \in Posts : status' = StatusRow(s, j)
  <2>1. status'.by # k /\ status'.s # "override"
    BY <1>5 DEF StatusRow, Posts
  <2>2. StatusInv(k, job[k], status')
    BY <2>1 DEF StatusInv
  <2> QED
    BY <1>1, <1>3, <2>2
<1> QED
  BY <1>4, <1>5 DEF Frame

\* A step of one job keeps the invariant for all of them.
LEMMA JobKeepsInv ==
  ASSUME CiInv, NEW j \in Jobs, JobNext(j)
  PROVE  CiInv'
<1>1. Good(j, job[j], job'[j], status, status') /\ Frame(j)
  BY JobNextKept DEF Kept
<1>2. job'[j] \in JobState /\ JobInv(job'[j]) /\ StatusInv(j, job'[j], status')
  BY <1>1 DEF Good
<1>3. TypeOK'
  <2>1. job' \in [Jobs -> JobState]
    BY <1>1, <1>2 DEF CiInv, TypeOK, Frame
  <2>2. newest' \in Jobs \cup {NoJob} /\ full' \in BOOLEAN
    BY FlagsOf DEF CiInv, TypeOK
  <2>3. left' \in 0..MaxEvents
    BY <1>1, CiHeadAssumption DEF CiInv, TypeOK, Frame
  <2>4. status' \in Status
    BY <1>1 DEF CiInv, TypeOK, Frame, Status, Settled, Posts, StatusRow
  <2> QED
    BY <2>1, <2>2, <2>3, <2>4 DEF TypeOK
<1>4. ASSUME NEW k \in Jobs
      PROVE  /\ job'[k].lost + left' <= MaxEvents
             /\ JobInv(job'[k]) /\ StatusInv(k, job'[k], status')
  <2>1. CASE k = j
    BY <1>1, <1>2, <2>1 DEF Frame
  <2>2. CASE k # j
    <3>1. /\ job'[k] = job[k] /\ StatusInv(k, job'[k], status')
          /\ job'[k].lost + left' <= MaxEvents
      BY <1>1, <2>2, OthersKept
    <3>2. JobInv(job[k])
      BY JobOf
    <3> QED
      BY <3>1, <3>2
  <2> QED
    BY <2>1, <2>2
<1> QED
  BY <1>3, <1>4 DEF CiInv

\* The override command remembers who had not begun and who was about to write.
LEMMA OverrideKeepsInv ==
  ASSUME CiInv, Override
  PROVE  CiInv'
<1>1. job' = job /\ newest' = newest /\ full' = full /\ left' \in 0..left
  BY CiHeadAssumption DEF Override, Event, CiInv, TypeOK
<1>2. /\ status'.s = "override" /\ status'.by = NoJob
      /\ status'.before = {j \in Jobs : job[j].pc \in Early}
      /\ status'.late = {j \in Jobs : job[j].pc \in {"skip", "write", "repost"}}
  BY DEF Override, Early
<1>3. TypeOK'
  <2>1. status' \in Status
    BY DEF Override, Status, Settled
  <2> QED
    BY <1>1, <2>1, CiHeadAssumption DEF CiInv, TypeOK
<1>4. ASSUME NEW k \in Jobs
      PROVE  /\ job'[k].lost + left' <= MaxEvents
             /\ JobInv(job'[k]) /\ StatusInv(k, job'[k], status')
  <2>1. /\ JobInv(job[k]) /\ job[k].lost \in 0..MaxEvents /\ left \in 0..MaxEvents
        /\ job[k].lost + left <= MaxEvents /\ MaxEvents \in Nat
    BY JobOf
  <2>2. OverrideInv(k, job[k], status')
    BY <1>2, <2>1 DEF OverrideInv, JobInv, RecordInv, Early, InReview
  <2>3. StatusInv(k, job[k], status')
    BY <1>2, <2>2 DEF StatusInv
  <2> QED
    BY <1>1, <2>1, <2>3
<1> QED
  BY <1>3, <1>4 DEF CiInv

LEMMA InitInv == Init => CiInv
<1> SUFFICES ASSUME Init PROVE CiInv
  OBVIOUS
<1>1. PICK kinds \in [Jobs -> Kinds] : job = [j \in Jobs |-> Fresh(kinds[j])]
  BY DEF Init
<1>2. ASSUME NEW j \in Jobs
      PROVE  /\ job[j] = Fresh(kinds[j]) /\ job[j] \in JobState
             /\ JobInv(job[j]) /\ job[j].lost = 0
  <2>1. job[j] = Fresh(kinds[j]) /\ job[j].lost = 0
    BY <1>1 DEF Fresh
  <2>2. Fresh(kinds[j]) \in JobState
    BY CiHeadAssumption DEF Fresh, JobState, Pcs, CliRecords, Outcomes
  <2>3. JobInv(Fresh(kinds[j]))
    BY DEF Fresh, JobInv, FateInv, RowInv, RecordInv, LockInv, SpendInv, Early, Late,
       InReview, CliPcs, Writing, Admitted, Terminal, NoRow, ActiveStatuses
  <2> QED
    BY <2>1, <2>2, <2>3
<1>3. status.s = "none" /\ status \in Status /\ newest = NoJob /\ full = FALSE
      /\ left = MaxEvents
  BY DEF Init, Status
<1>4. TypeOK
  <2>1. job \in [Jobs -> JobState]
    <3>1. \A j \in Jobs : Fresh(kinds[j]) \in JobState
      BY <1>2
    <3> QED
      BY <1>1, <3>1
  <2>2. newest \in Jobs \cup {NoJob} /\ full \in BOOLEAN
    BY <1>3
  <2>3. left \in 0..MaxEvents
    BY <1>3, CiHeadAssumption
  <2> QED
    BY <1>3, <2>1, <2>2, <2>3 DEF TypeOK
<1>5. ASSUME NEW j \in Jobs
      PROVE  /\ job[j].lost + left <= MaxEvents
             /\ JobInv(job[j]) /\ StatusInv(j, job[j], status)
  BY <1>2, <1>3, CiHeadAssumption DEF StatusInv
<1> QED
  BY <1>4, <1>5 DEF CiInv

LEMMA StepInv == CiInv /\ [Next]_vars => CiInv'
<1> SUFFICES ASSUME CiInv, [Next]_vars PROVE CiInv'
  OBVIOUS
<1>1. CASE UNCHANGED vars
  BY <1>1 DEF vars, CiInv, TypeOK
<1>2. CASE \E j \in Jobs : JobNext(j)
  BY <1>2, JobKeepsInv
<1>3. CASE Override
  BY <1>3, OverrideKeepsInv
<1> QED
  BY <1>1, <1>2, <1>3 DEF Next, JobNext, Done

\* What the jobs of a head owe each other holds in every reachable state.
THEOREM CiHeadInvariant == Spec => []CiInv
BY InitInv, StepInv, PTL DEF Spec

\* Every step is a step of one job that did only what Good allows, or moves no job:
\* then an override is posted, or nothing happens at all.
LEMMA StepIs ==
  ASSUME CiInv, [Next]_vars
  PROVE  \/ \E j \in Jobs : Kept(j)
         \/ job' = job /\ (status' = status \/ status'.by = NoJob)
<1>1. CASE UNCHANGED vars
  BY <1>1 DEF vars
<1>2. CASE \E j \in Jobs : JobNext(j)
  BY <1>2, JobNextKept
<1>3. CASE Override
  BY <1>3 DEF Override
<1> QED
  BY <1>1, <1>2, <1>3 DEF Next, JobNext, Done

\* What the action properties say of job j holds in a step that changes another job
\* or none.
LEMMA StaysOrKept ==
  ASSUME CiInv, [Next]_vars, NEW j \in Jobs
  PROVE  \/ Good(j, job[j], job'[j], status, status')
         \/ job'[j] = job[j] /\ (status' = status \/ status'.by # j)
<1>1. CASE \E i \in Jobs : Kept(i)
  <2>1. PICK i \in Jobs : Kept(i)
    BY <1>1
  <2>2. CASE i = j
    BY <2>1, <2>2 DEF Kept
  <2>3. CASE i # j
    <3>1. job'[j] = job[j]
      BY <2>1, <2>3, OthersKept DEF Kept
    <3>2. status' = status \/ status'.by # j
      BY <2>1, <2>3 DEF Kept, Frame, StatusRow
    <3> QED
      BY <3>1, <3>2
  <2> QED
    BY <2>2, <2>3
<1>2. CASE job' = job /\ (status' = status \/ status'.by = NoJob)
  BY <1>2, CiHeadAssumption
<1> QED
  BY <1>1, <1>2, StepIs

\* The steps of the four action properties: Good says them of the job that moves, and
\* the other jobs neither end nor write.
LEMMA PendingStep ==
  ASSUME CiInv, [Next]_vars
  PROVE  \A j \in Jobs : Ends(j) /\ status'.s = "pending" /\ status'.by = j =>
           \/ job'[j].fate = "died"
           \/ job[j].fate = "killed" /\ job[j].rec = "reviewed"
           \/ job'[j].lost >= 2
           \/ job'[j].lost = 1 /\ (job[j].fate # "fine" \/ job[j].out = "idle")
<1> TAKE j \in Jobs
<1>1. CASE Good(j, job[j], job'[j], status, status')
  BY <1>1 DEF Good, PendingAnswered, Ends, At
<1>2. CASE job'[j] = job[j]
  BY <1>2 DEF Ends, At
<1> QED
  BY <1>1, <1>2, StaysOrKept

LEMMA GreenStep ==
  ASSUME CiInv, [Next]_vars
  PROVE  \A j \in Jobs : Ends(j) /\ status'.s = "success" /\ status'.by = j =>
           \/ job[j].rec = "skipped"
           \/ job[j].rec = "reviewed" /\ job[j].out = "clean"
           \/ job[j].fate # "fine" \/ job'[j].fate = "died" \/ job'[j].lost > 0
<1> TAKE j \in Jobs
<1>1. CASE Good(j, job[j], job'[j], status, status')
  BY <1>1 DEF Good, GreenDelivered, Ends, At
<1>2. CASE job'[j] = job[j]
  BY <1>2 DEF Ends, At
<1> QED
  BY <1>1, <1>2, StaysOrKept

LEMMA OverrideStep ==
  ASSUME CiInv, [Next]_vars
  PROVE  \A j \in Jobs :
           status.s = "override" /\ status' # status /\ status'.by = j
             /\ status'.s \in Verdicts \cup {"hold"} =>
               \/ j \in status.late
               \/ At(j, "write") /\ j \in status.before
               \/ job[j].lost > (IF At(j, "repost") THEN 1 ELSE 0)
               \/ job[j].sig # "no"
<1> TAKE j \in Jobs
<1>1. CASE Good(j, job[j], job'[j], status, status')
  BY <1>1 DEF Good, OverrideKept, At
<1>2. CASE status' = status \/ status'.by # j
  BY <1>2
<1> QED
  BY <1>1, <1>2, StaysOrKept

LEMMA RowStep ==
  ASSUME CiInv, [Next]_vars
  PROVE  \A j \in Jobs : Running(j) /\ At(j, "exited")'
             /\ job'[j].row.st \in ActiveStatuses =>
           \/ job'[j].lost > 0 \/ job'[j].fate \in {"killed", "shot"}
           \/ job[j].sig \in {"empty", "crossed"}
           \/ job[j].sig = "exit" /\ job[j].pc \in Writing
           \/ job[j].sig = "persist" /\ At(j, "close")
<1> TAKE j \in Jobs
<1>1. CASE Good(j, job[j], job'[j], status, status')
  BY <1>1 DEF Good, RowLeft, Running, At
<1>2. CASE job'[j] = job[j]
  BY <1>2 DEF Running, At, CliPcs, Writing
<1> QED
  BY <1>1, <1>2, StaysOrKept

\* A head never stays pending on a job that is over, one lost call included: the CLI
\* settles its status, the publisher answers the record it left, or the cancel-settle
\* step does, unless the runner died or two calls were lost.
THEOREM EveryPendingIsAnswered == Spec => PendingIsAnswered
<1>1. CiInv /\ [Next]_vars =>
        [\A j \in Jobs : Ends(j) /\ status'.s = "pending" /\ status'.by = j =>
           \/ job'[j].fate = "died"
           \/ job[j].fate = "killed" /\ job[j].rec = "reviewed"
           \/ job'[j].lost >= 2
           \/ job'[j].lost = 1 /\ (job[j].fate # "fine" \/ job[j].out = "idle")]_vars
  BY PendingStep
<1> QED
  BY <1>1, CiHeadInvariant, PTL DEF Spec, PendingIsAnswered

\* A green that a job leaves behind stands for a clean review that reached the pull
\* request, or was carried by a skip.
THEOREM EveryGreenIsDelivered == Spec => GreenIsDelivered
<1>1. CiInv /\ [Next]_vars =>
        [\A j \in Jobs : Ends(j) /\ status'.s = "success" /\ status'.by = j =>
           \/ job[j].rec = "skipped"
           \/ job[j].rec = "reviewed" /\ job[j].out = "clean"
           \/ job[j].fate # "fine" \/ job'[j].fate = "died" \/ job'[j].lost > 0]_vars
  BY GreenStep
<1> QED
  BY <1>1, CiHeadInvariant, PTL DEF Spec, GreenIsDelivered

\* An override posted while a review ran keeps the gate, in the CLI and in the
\* publisher, whoever else is at work on the head.
THEOREM OverridesHold == Spec => OverrideHolds
<1>1. CiInv /\ [Next]_vars =>
        [\A j \in Jobs :
           status.s = "override" /\ status' # status /\ status'.by = j
             /\ status'.s \in Verdicts \cup {"hold"} =>
               \/ j \in status.late
               \/ At(j, "write") /\ j \in status.before
               \/ job[j].lost > (IF At(j, "repost") THEN 1 ELSE 0)
               \/ job[j].sig # "no"]_vars
  BY OverrideStep
<1> QED
  BY <1>1, CiHeadInvariant, PTL DEF Spec, OverrideHolds

\* A CLI leaves no active row in the admission ledger, and a cancelled one neither,
\* unless a call was lost, it was killed, or the handler and the CLI's own flow cut
\* short or crossed each other's write.
THEOREM EveryRowIsSettled == Spec => RowIsSettled
<1>1. CiInv /\ [Next]_vars =>
        [\A j \in Jobs : Running(j) /\ At(j, "exited")'
             /\ job'[j].row.st \in ActiveStatuses =>
           \/ job'[j].lost > 0 \/ job'[j].fate \in {"killed", "shot"}
           \/ job[j].sig \in {"empty", "crossed"}
           \/ job[j].sig = "exit" /\ job[j].pc \in Writing
           \/ job[j].sig = "persist" /\ At(j, "close")]_vars
  BY RowStep
<1> QED
  BY <1>1, CiHeadInvariant, PTL DEF Spec, RowIsSettled

\* The state is well-formed, and a head on which an automatic review ran stays in the
\* attempt count, whatever the rows of the other jobs say.
THEOREM EverySpendingIsSeen == Spec => []SpendingIsSeen
<1>1. CiInv => SpendingIsSeen
  <2> SUFFICES ASSUME CiInv, NEW j \in Jobs, ~Forced(j), job[j].out # "none"
               PROVE  Countable({job[k].row : k \in Jobs} \ {NoRow})
    BY DEF CiInv, SpendingIsSeen
  <2>1. SpentRow(job[j].row)
    BY JobOf DEF JobInv, SpendInv, Forced
  <2>2. job[j].row \in {job[k].row : k \in Jobs} \ {NoRow}
    BY <2>1 DEF SpentRow, NoRow
  <2> QED
    BY <2>1, <2>2 DEF Countable, SpentRow
<1> QED
  BY <1>1, CiHeadInvariant, PTL
===============================================================================
