----------------------------- MODULE Tools_proofs -----------------------------
(***************************************************************************)
(* Theorems about the tools around a campaign, which share nothing but     *)
(* files: the SCML preflight (ScmlGate), the reducer (Reducer) and the     *)
(* build cache (BuildCache).  The names of the three modules are distinct. *)
(***************************************************************************)
EXTENDS ScmlGate, Reducer, BuildCache, SequenceTheorems, TLAPS

-----------------------------------------------------------------------------
(* The SCML preflight: its two lists and the evidence beside them.         *)

\* A program has a task only in a sweep that has selected it, and a full sweep, which has
\* selected every program, counts as unpublished from its beginning to its end.
TasksOfSweep ==
    /\ \A p \in Programs : task[p] # "idle" => phase # "idle" /\ p \in selected
    /\ phase # "idle" /\ ~limited => selected = Programs /\ unpublished

\* An exception of a task is remembered; only a full sweep without one gets to publish.
OnlyWholeSweepsPublish ==
    /\ \A p \in Programs : task[p] = "raised" => raised
    /\ phase \in {"eligible", "rejections", "summary"} =>
         /\ ~limited
         /\ \A p \in selected : task[p] = "done"

\* The evidence of an accepted program, and that of one rejected for these reasons.
AcceptedIsBacked(p) ==
    /\ attempt[p] = "matched"
    /\ \A l \in printed[p] : l.form = "unsupported" /\ (l.of \in Targets => l.read = "")

RejectedIsBacked(p, reasons) ==
    \/ attempt[p] \in Taxonomy /\ reasons = {attempt[p]}
    \/ attempt[p] = "matcher failed" /\ "scml_parser_gap" \in reasons
    \/ attempt[p] = "matched" /\ \E l \in printed[p] :
                                  l.form = "parse error" \/ l.of \in Targets

\* A full sweep has replaced the evidence of a program by the time it has judged it.
VerdictsAreBacked ==
    phase # "idle" /\ ~limited =>
        \A p \in Programs : task[p] = "done" =>
            IF verdict[p] = {} THEN AcceptedIsBacked(p) ELSE RejectedIsBacked(p, verdict[p])

\* The files that a sweep has written so far are made of its verdicts.
WrittenSoFar ==
    /\ phase \in {"rejections", "summary"} => torn /\ eligible = Accepted
    /\ phase = "summary" => rejections = [p \in Done \ Accepted |-> verdict[p]]

GateInv ==
    /\ GateTypeOK
    /\ TasksOfSweep
    /\ OnlyWholeSweepsPublish
    /\ VerdictsAreBacked
    /\ WrittenSoFar
    /\ PublishedIsWhole
    /\ ListsAreBacked

-----------------------------------------------------------------------------
\* Every reason that a line is given is of the taxonomy.
LEMMA ReasonIsOfTaxonomy ==
    ASSUME NEW l \in Lines
    PROVE  Reason(l) \in Taxonomy
<1>1. PatternReason(l) \in Taxonomy
  BY DEF PatternReason, Taxonomy
<1>2. Deferred(l.read) \in Taxonomy
  BY DEF Deferred, Taxonomy
<1>3. /\ "scml_parser_gap" \in Taxonomy
      /\ "syscall_not_in_manifest" \in Taxonomy
  BY DEF Taxonomy
<1> QED
  BY <1>1, <1>2, <1>3 DEF Reason

\* The verdict on what sctrace printed is a set of reasons of the taxonomy.
LEMMA ReasonsType ==
    ASSUME NEW lines \in Outputs, NEW succeeded \in BOOLEAN
    PROVE  Reasons(lines, succeeded) \subseteq Taxonomy
<1>1. \A l \in Relevant(lines) : l \in Lines
  BY DEF Relevant, Lines
<1>2. "scml_parser_gap" \in Taxonomy
  BY DEF Taxonomy
<1> QED
  BY <1>1, <1>2, ReasonIsOfTaxonomy DEF Reasons

\* What the verdict of a matcher that succeeded says of the lines, and that one that failed
\* is a parser gap, whatever it printed.
LEMMA ReasonsAreBacked ==
    ASSUME NEW lines \in Outputs
    PROVE  /\ Reasons(lines, TRUE) = {} =>
                \A l \in lines : l.form = "unsupported" /\ (l.of \in Targets => l.read = "")
           /\ Reasons(lines, TRUE) # {} =>
                \E l \in lines : l.form = "parse error" \/ l.of \in Targets
           /\ "scml_parser_gap" \in Reasons(lines, FALSE)
<1>1. \A l \in lines : /\ l.form \in {"unsupported", "parse error"}
                       /\ l.read \in {"", l.of}
  BY GateAssumption DEF Lines
<1>2. Reasons(lines, TRUE) = {Reason(l) : l \in Relevant(lines)}
  BY DEF Reasons
<1>3. ASSUME Reasons(lines, TRUE) = {}, NEW l \in lines
      PROVE  l.form = "unsupported" /\ (l.of \in Targets => l.read = "")
  <2>1. l \notin Relevant(lines)
    BY <1>2, <1>3
  <2> QED
    BY <2>1, <1>1, <1>3 DEF Relevant
<1>4. ASSUME Reasons(lines, TRUE) # {}
      PROVE  \E l \in lines : l.form = "parse error" \/ l.of \in Targets
  <2>1. PICK l \in Relevant(lines) : TRUE
    BY <1>2, <1>4
  <2>2. l \in lines /\ (l.form = "parse error" \/ l.read \in Targets)
    BY <2>1 DEF Relevant
  <2>3. l.read \in Targets => l.of \in Targets
    BY <1>1, <2>2, GateAssumption
  <2> QED
    BY <2>2, <2>3
<1>5. "scml_parser_gap" \in Reasons(lines, FALSE)
  BY DEF Reasons
<1> QED
  BY <1>3, <1>4, <1>5

\* Nothing has been published when the first sweep begins.
LEMMA GateInitInv ==
    ASSUME GateInit
    PROVE  GateInv
<1>1. GateTypeOK
  <2>1. /\ verdict \in [Programs -> SUBSET Taxonomy]
        /\ printed \in [Programs -> Outputs]
    BY GateAssumption DEF GateInit
  <2>2. attempt \in [Programs -> Taxonomy \cup {"none", "matched", "matcher failed", "raised"}]
    BY DEF GateInit
  <2>3. DOMAIN rejections = {}
    BY DEF GateInit
  <2>4. sweeps = 0 /\ kills = 0
    BY DEF GateInit
  <2>5. MaxSweeps \in Nat /\ MaxKills \in Nat
    BY GateAssumption
  <2>6. sweeps \in 0 .. MaxSweeps /\ kills \in 0 .. MaxKills
    BY <2>4, <2>5
  <2> QED
    BY <2>1, <2>2, <2>3, <2>6 DEF GateInit, GateTypeOK
<1>2. TasksOfSweep /\ OnlyWholeSweepsPublish
  BY DEF GateInit, TasksOfSweep, OnlyWholeSweepsPublish
<1>3. VerdictsAreBacked /\ WrittenSoFar
  BY DEF GateInit, VerdictsAreBacked, WrittenSoFar
<1>4. torn /\ unpublished
  BY DEF GateInit
<1>5. PublishedIsWhole /\ ListsAreBacked
  BY <1>4 DEF PublishedIsWhole, ListsAreBacked
<1> QED
  BY <1>1, <1>2, <1>3, <1>5 DEF GateInv

\* The invariant survives a step of the thread that has program p, if the step touches
\* nothing of another program and nothing that was published, and if the evidence that a
\* full sweep leaves when it judges p accounts for the verdict.
LEMMA TaskStepPreserves ==
    ASSUME GateInv, GateTypeOK', NEW p \in Programs, phase = "tasks", p \in selected,
           UNCHANGED sweepOnly,
           NEW x \in {"build", "trace", "match", "done", "raised"},
           task' = [task EXCEPT ![p] = x],
           raised => raised', x = "raised" => raised',
           \A q \in Programs \ {p} : /\ verdict'[q] = verdict[q]
                                     /\ attempt'[q] = attempt[q]
                                     /\ printed'[q] = printed[q],
           limited => UNCHANGED evidence,
           x = "done" /\ ~limited => IF verdict'[p] = {} THEN AcceptedIsBacked(p)'
                                     ELSE RejectedIsBacked(p, verdict[p])'
    PROVE  GateInv'
<1> USE DEF GateInv
<1>1. /\ UNCHANGED <<phase, selected, limited, eligible, rejections, summary>>
      /\ UNCHANGED <<unpublished, torn>>
  BY DEF sweepOnly, published
<1>2. /\ task'[p] = x
      /\ \A q \in Programs \ {p} : task'[q] = task[q]
  BY DEF GateTypeOK
<1>3. TasksOfSweep'
  BY <1>1, <1>2 DEF TasksOfSweep
<1>4. OnlyWholeSweepsPublish'
  BY <1>1, <1>2 DEF OnlyWholeSweepsPublish
<1>5. VerdictsAreBacked'
  <2> SUFFICES ASSUME ~limited', NEW q \in Programs, task'[q] = "done"
               PROVE  IF verdict'[q] = {} THEN AcceptedIsBacked(q)'
                      ELSE RejectedIsBacked(q, verdict[q])'
    BY DEF VerdictsAreBacked
  <2>1. CASE q = p
    BY <2>1, <1>1, <1>2
  <2>2. CASE q # p
    <3>1. IF verdict[q] = {} THEN AcceptedIsBacked(q) ELSE RejectedIsBacked(q, verdict[q])
      BY <2>2, <1>1, <1>2 DEF VerdictsAreBacked
    <3> QED
      BY <3>1, <2>2 DEF AcceptedIsBacked, RejectedIsBacked
  <2> QED
    BY <2>1, <2>2
<1>6. WrittenSoFar'
  BY <1>1 DEF WrittenSoFar
<1>7. PublishedIsWhole'
  BY <1>1 DEF PublishedIsWhole
<1>8. ListsAreBacked'
  <2> SUFFICES ASSUME ~unpublished'
               PROVE  ListsAreBacked'
    BY DEF ListsAreBacked
  <2>1. UNCHANGED evidence
    BY <1>1 DEF TasksOfSweep
  <2> QED
    BY <2>1, <1>1 DEF ListsAreBacked, evidence
<1> QED
  BY <1>3, <1>4, <1>5, <1>6, <1>7, <1>8

\* A thread that has a program is part of a sweep that is not publishing yet.
LEMMA BusyIsInTasks ==
    ASSUME GateInv, NEW p \in Programs, task[p] \in {"queued", "build", "trace", "match"}
    PROVE  phase = "tasks" /\ p \in selected
<1>1. phase # "idle" /\ p \in selected
  BY DEF GateInv, TasksOfSweep
<1>2. phase \notin {"eligible", "rejections", "summary"}
  BY <1>1 DEF GateInv, OnlyWholeSweepsPublish
<1> QED
  BY <1>1, <1>2 DEF GateInv, GateTypeOK

LEMMA TakePreserves ==
    ASSUME GateInv, NEW p \in Programs, Take(p)
    PROVE  GateInv'
<1>1. /\ task' = [task EXCEPT ![p] = "build"]
      /\ UNCHANGED sweepOnly /\ UNCHANGED raised /\ UNCHANGED verdict /\ UNCHANGED evidence
  BY DEF Take, Advance
<1>2. task[p] = "queued"
  BY DEF Take
<1>3. UNCHANGED <<attempt, printed>>
  BY <1>1 DEF evidence
<1>4. GateTypeOK'
  BY <1>1, <1>3 DEF GateInv, GateTypeOK, sweepOnly, published
<1> QED
  BY <1>1, <1>2, <1>3, <1>4, BusyIsInTasks, TaskStepPreserves

\* A program that is rejected for a reason of the taxonomy leaves that reason as evidence,
\* whatever was printed.
LEMMA RejectPreserves ==
    ASSUME GateInv, NEW p \in Programs, task[p] \in {"build", "trace", "match"},
           NEW r \in Taxonomy, Reject(p, r), UNCHANGED sweepOnly, UNCHANGED raised,
           printed' \in [Programs -> Outputs],
           \A q \in Programs \ {p} : printed'[q] = printed[q],
           limited => UNCHANGED printed
    PROVE  GateInv'
<1>1. /\ verdict' = [verdict EXCEPT ![p] = {r}]
      /\ attempt' = IF ~limited THEN [attempt EXCEPT ![p] = r] ELSE attempt
      /\ task' = [task EXCEPT ![p] = "done"]
  BY DEF Reject, Attempt, WritesEvidence, Advance
<1>2. /\ verdict \in [Programs -> SUBSET Taxonomy]
      /\ attempt \in [Programs -> Taxonomy \cup {"none", "matched", "matcher failed", "raised"}]
      /\ task \in [Programs -> {"idle", "queued", "build", "trace", "match", "done", "raised"}]
  BY DEF GateInv, GateTypeOK
<1>3. /\ verdict' \in [Programs -> SUBSET Taxonomy]
      /\ attempt' \in [Programs -> Taxonomy \cup {"none", "matched", "matcher failed", "raised"}]
      /\ task' \in [Programs -> {"idle", "queued", "build", "trace", "match", "done", "raised"}]
  BY <1>1, <1>2
<1>4. GateTypeOK'
  BY <1>3 DEF GateInv, GateTypeOK, sweepOnly, published
<1>5. /\ verdict'[p] = {r}
      /\ \A q \in Programs \ {p} : verdict'[q] = verdict[q] /\ attempt'[q] = attempt[q]
  BY <1>1, <1>2
<1>6. limited => UNCHANGED evidence
  BY <1>1 DEF evidence
<1>7. ~limited => RejectedIsBacked(p, verdict[p])'
  BY <1>1, <1>2, <1>5 DEF RejectedIsBacked
<1>8. phase = "tasks" /\ p \in selected
  BY BusyIsInTasks
<1>9. raised => raised'
  OBVIOUS
<1> QED
  BY <1>1, <1>4, <1>5, <1>6, <1>7, <1>8, <1>9, TaskStepPreserves

\* A step of a thread to its next step judges nothing and prints nothing.
LEMMA AdvancePreserves ==
    ASSUME GateInv, NEW p \in Programs, task[p] \in {"build", "trace", "match"},
           NEW x \in {"trace", "match"}, Advance(p, x), UNCHANGED sweepOnly,
           UNCHANGED raised, UNCHANGED verdict, UNCHANGED attempt, UNCHANGED printed
    PROVE  GateInv'
<1>1. task' = [task EXCEPT ![p] = x]
  BY DEF Advance
<1>2. GateTypeOK'
  BY <1>1 DEF GateInv, GateTypeOK, sweepOnly, published
<1>3. phase = "tasks" /\ p \in selected
  BY BusyIsInTasks
<1>4. UNCHANGED evidence
  BY DEF evidence
<1>5. raised => raised'
  OBVIOUS
<1> QED
  BY <1>1, <1>2, <1>3, <1>4, <1>5, TaskStepPreserves

LEMMA BuildPreserves ==
    ASSUME GateInv, NEW p \in Programs, Build(p)
    PROVE  GateInv'
<1>1. task[p] = "build" /\ UNCHANGED sweepOnly /\ UNCHANGED raised /\ UNCHANGED printed
  BY DEF Build
<1>2. \/ Reject(p, "preflight_build_failure")
      \/ Advance(p, "trace") /\ UNCHANGED verdict /\ UNCHANGED attempt
  BY DEF Build
<1>3. printed' \in [Programs -> Outputs]
  BY <1>1 DEF GateInv, GateTypeOK
<1>4. "preflight_build_failure" \in Taxonomy
  BY DEF Taxonomy
<1>5. CASE Reject(p, "preflight_build_failure")
  BY <1>1, <1>3, <1>4, <1>5, RejectPreserves
<1>6. CASE Advance(p, "trace") /\ UNCHANGED verdict /\ UNCHANGED attempt
  BY <1>1, <1>6, AdvancePreserves
<1> QED
  BY <1>2, <1>5, <1>6

LEMMA TracePreserves ==
    ASSUME GateInv, NEW p \in Programs, Trace(p)
    PROVE  GateInv'
<1>1. task[p] = "trace" /\ UNCHANGED sweepOnly /\ UNCHANGED raised /\ UNCHANGED printed
  BY DEF Trace
<1>2. \/ \E r \in {"preflight_runtime_timeout", "preflight_runtime_failure"} : Reject(p, r)
      \/ Advance(p, "match") /\ UNCHANGED verdict /\ UNCHANGED attempt
  BY DEF Trace
<1>3. printed' \in [Programs -> Outputs]
  BY <1>1 DEF GateInv, GateTypeOK
<1>4. CASE \E r \in {"preflight_runtime_timeout", "preflight_runtime_failure"} : Reject(p, r)
  <2>1. PICK r \in {"preflight_runtime_timeout", "preflight_runtime_failure"} : Reject(p, r)
    BY <1>4
  <2>2. r \in Taxonomy
    BY DEF Taxonomy
  <2> QED
    BY <1>1, <1>3, <2>1, <2>2, RejectPreserves
<1>5. CASE Advance(p, "match") /\ UNCHANGED verdict /\ UNCHANGED attempt
  BY <1>1, <1>5, AdvancePreserves
<1> QED
  BY <1>2, <1>4, <1>5

LEMMA MatchPreserves ==
    ASSUME GateInv, NEW p \in Programs, Match(p)
    PROVE  GateInv'
<1>1. task[p] = "match" /\ UNCHANGED sweepOnly /\ UNCHANGED raised
  BY DEF Match
<1>2. PICK lines \in Outputs :
         /\ printed' = IF WritesEvidence THEN [printed EXCEPT ![p] = lines] ELSE printed
         /\ \/ Reject(p, "preflight_matcher_timeout")
            \/ \E succeeded \in BOOLEAN :
                 /\ verdict' = [verdict EXCEPT ![p] = Reasons(lines, succeeded)]
                 /\ Attempt(p, IF succeeded THEN "matched" ELSE "matcher failed")
                 /\ Advance(p, "done")
  BY DEF Match
<1>3. printed \in [Programs -> Outputs]
  BY DEF GateInv, GateTypeOK
<1>4. /\ printed' \in [Programs -> Outputs]
      /\ \A q \in Programs \ {p} : printed'[q] = printed[q]
      /\ limited => UNCHANGED printed
      /\ ~limited => printed'[p] = lines
  BY <1>2, <1>3 DEF WritesEvidence
<1>5. CASE Reject(p, "preflight_matcher_timeout")
  <2>1. "preflight_matcher_timeout" \in Taxonomy
    BY DEF Taxonomy
  <2> QED
    BY <1>1, <1>4, <1>5, <2>1, RejectPreserves
<1>6. ASSUME NEW succeeded \in BOOLEAN,
             verdict' = [verdict EXCEPT ![p] = Reasons(lines, succeeded)],
             Attempt(p, IF succeeded THEN "matched" ELSE "matcher failed"),
             Advance(p, "done")
      PROVE  GateInv'
  <2> DEFINE outcome == IF succeeded THEN "matched" ELSE "matcher failed"
  <2>1. /\ task' = [task EXCEPT ![p] = "done"]
        /\ attempt' = IF ~limited THEN [attempt EXCEPT ![p] = outcome] ELSE attempt
    BY <1>6 DEF Advance, Attempt, WritesEvidence
  <2>2. /\ verdict \in [Programs -> SUBSET Taxonomy]
        /\ attempt \in [Programs -> Taxonomy \cup {"none", "matched", "matcher failed", "raised"}]
        /\ task \in [Programs -> {"idle", "queued", "build", "trace", "match", "done", "raised"}]
    BY DEF GateInv, GateTypeOK
  <2>3. Reasons(lines, succeeded) \subseteq Taxonomy
    BY ReasonsType
  <2>4. /\ verdict' \in [Programs -> SUBSET Taxonomy]
        /\ verdict'[p] = Reasons(lines, succeeded)
        /\ \A q \in Programs \ {p} : verdict'[q] = verdict[q]
    BY <1>6, <2>2, <2>3
  <2>5. outcome \in {"matched", "matcher failed"}
    OBVIOUS
  <2>6. /\ attempt' \in [Programs -> Taxonomy \cup {"none", "matched", "matcher failed", "raised"}]
        /\ ~limited => attempt'[p] = outcome
        /\ limited => UNCHANGED attempt
        /\ \A q \in Programs \ {p} : attempt'[q] = attempt[q]
    <3> HIDE DEF outcome
    <3> QED
      BY <2>1, <2>2, <2>5
  <2>7. GateTypeOK'
    BY <1>1, <1>4, <2>1, <2>2, <2>4, <2>6 DEF GateInv, GateTypeOK, sweepOnly, published
  <2>8. limited => UNCHANGED evidence
    BY <1>4, <2>6 DEF evidence
  <2>9. ASSUME ~limited
        PROVE  IF verdict'[p] = {} THEN AcceptedIsBacked(p)' ELSE RejectedIsBacked(p, verdict[p])'
    <3>1. printed'[p] = lines /\ attempt'[p] = outcome
      BY <1>4, <2>6, <2>9
    <3>2. CASE succeeded
      <4>1. verdict'[p] = Reasons(lines, TRUE) /\ attempt'[p] = "matched"
        BY <2>4, <3>1, <3>2
      <4>2. CASE verdict'[p] = {}
        <5>1. \A l \in lines : l.form = "unsupported" /\ (l.of \in Targets => l.read = "")
          BY <4>1, <4>2, ReasonsAreBacked
        <5>2. AcceptedIsBacked(p)'
          BY <3>1, <4>1, <5>1 DEF AcceptedIsBacked
        <5> QED
          BY <4>2, <5>2
      <4>3. CASE verdict'[p] # {}
        <5>1. \E l \in lines : l.form = "parse error" \/ l.of \in Targets
          BY <4>1, <4>3, ReasonsAreBacked
        <5>2. RejectedIsBacked(p, verdict[p])'
          BY <3>1, <4>1, <5>1 DEF RejectedIsBacked
        <5> QED
          BY <4>3, <5>2
      <4> QED
        BY <4>2, <4>3
    <3>3. CASE ~succeeded
      <4>1. verdict'[p] = Reasons(lines, FALSE) /\ attempt'[p] = "matcher failed"
        BY <2>4, <3>1, <3>3
      <4>2. "scml_parser_gap" \in verdict'[p]
        BY <4>1, ReasonsAreBacked
      <4> QED
        BY <4>1, <4>2 DEF RejectedIsBacked
    <3> QED
      BY <3>2, <3>3
  <2>10. phase = "tasks" /\ p \in selected
    BY <1>1, BusyIsInTasks
  <2>11. raised => raised'
    BY <1>1
  <2> HIDE DEF outcome
  <2> QED
    BY <1>1, <1>4, <2>1, <2>4, <2>6, <2>7, <2>8, <2>9, <2>10, <2>11, TaskStepPreserves
<1> QED
  BY <1>2, <1>5, <1>6

LEMMA RaisePreserves ==
    ASSUME GateInv, NEW p \in Programs, Raise(p)
    PROVE  GateInv'
<1>1. /\ task' = [task EXCEPT ![p] = "raised"]
      /\ attempt' = IF ~limited THEN [attempt EXCEPT ![p] = "raised"] ELSE attempt
      /\ UNCHANGED sweepOnly /\ UNCHANGED verdict
  BY DEF Raise, Advance, Attempt, WritesEvidence
<1>2. raised' = TRUE
  BY DEF Raise
<1>3. task[p] \in {"build", "trace", "match"}
  BY DEF Raise, Busy
<1>4. printed \in [Programs -> Outputs]
  BY DEF GateInv, GateTypeOK
<1>5. /\ printed' \in [Programs -> Outputs]
      /\ \A q \in Programs \ {p} : printed'[q] = printed[q]
      /\ limited => UNCHANGED printed
  BY <1>4 DEF Raise, WritesEvidence
<1>6. /\ attempt \in [Programs -> Taxonomy \cup {"none", "matched", "matcher failed", "raised"}]
      /\ task \in [Programs -> {"idle", "queued", "build", "trace", "match", "done", "raised"}]
  BY DEF GateInv, GateTypeOK
<1>7. /\ attempt' \in [Programs -> Taxonomy \cup {"none", "matched", "matcher failed", "raised"}]
      /\ \A q \in Programs \ {p} : attempt'[q] = attempt[q]
      /\ task' \in [Programs -> {"idle", "queued", "build", "trace", "match", "done", "raised"}]
  BY <1>1, <1>6
<1>8. raised' \in BOOLEAN /\ raised'
  BY <1>2
<1>9. GateTypeOK'
  BY <1>1, <1>7, <1>8, <1>5 DEF GateInv, GateTypeOK, sweepOnly, published
<1>10. limited => UNCHANGED evidence
  <2>1. limited => attempt' = attempt
    BY <1>1
  <2>2. limited => printed' = printed
    BY <1>5
  <2> QED
    BY <2>1, <2>2 DEF evidence
<1>11. phase = "tasks" /\ p \in selected
  BY <1>3, BusyIsInTasks
<1>12. \A q \in Programs \ {p} : /\ verdict'[q] = verdict[q]
                                /\ attempt'[q] = attempt[q]
                                /\ printed'[q] = printed[q]
  <2>1. verdict' = verdict
    BY <1>1
  <2>2. \A q \in Programs \ {p} : verdict'[q] = verdict[q]
    BY <2>1
  <2>3. \A q \in Programs \ {p} : attempt'[q] = attempt[q]
    BY <1>7
  <2>4. \A q \in Programs \ {p} : printed'[q] = printed[q]
    BY <1>5
  <2> QED
    BY <2>2, <2>3, <2>4
<1> DEFINE x == "raised"
<1>13. x \in {"build", "trace", "match", "done", "raised"} /\ x # "done"
  OBVIOUS
<1>14. UNCHANGED sweepOnly /\ task' = [task EXCEPT ![p] = x]
  BY <1>1
<1> HIDE DEF x
<1> QED
  BY <1>8, <1>9, <1>10, <1>11, <1>12, <1>13, <1>14, TaskStepPreserves

-----------------------------------------------------------------------------
(* The sweep as a whole.                                                   *)

LEMMA BeginPreserves ==
    ASSUME GateInv, NEW programs \in SUBSET Programs, NEW option \in BOOLEAN,
           Begin(programs, option)
    PROVE  GateInv'
<1> USE DEF GateInv
<1>1. /\ phase' = "tasks" /\ selected' = programs
      /\ option \/ programs = Programs
      /\ task' = [p \in Programs |-> IF p \in programs THEN "queued" ELSE "idle"]
      /\ verdict' = [p \in Programs |-> {}]
      /\ sweeps < MaxSweeps /\ sweeps' = sweeps + 1
  BY DEF Begin
<1>2. limited' = option
  BY DEF Begin
<1>3. raised' = FALSE
  BY DEF Begin
<1>4. unpublished' = (unpublished \/ ~option)
  BY DEF Begin
<1>5. UNCHANGED <<attempt, printed, eligible, rejections, summary, torn, kills>>
  BY DEF Begin, evidence, published
<1>6. /\ limited' \in BOOLEAN /\ raised' \in BOOLEAN /\ unpublished' \in BOOLEAN
      /\ ~unpublished' => ~unpublished
      /\ ~limited' => selected' = Programs /\ unpublished'
  BY <1>1, <1>2, <1>3, <1>4 DEF GateTypeOK
<1>7. \A p \in Programs : task'[p] \in {"queued", "idle"} /\ (task'[p] # "idle" => p \in selected')
  BY <1>1
<1>8. GateTypeOK'
  <2>1. sweeps' \in 0 .. MaxSweeps
    <3>1. MaxSweeps \in Nat
      BY GateAssumption
    <3>2. sweeps \in 0 .. MaxSweeps /\ sweeps < MaxSweeps /\ sweeps' = sweeps + 1
      BY <1>1 DEF GateTypeOK
    <3> QED
      BY <3>1, <3>2
  <2>2. task' \in [Programs -> {"idle", "queued", "build", "trace", "match", "done", "raised"}]
    BY <1>1
  <2>3. verdict' \in [Programs -> SUBSET Taxonomy]
    BY <1>1
  <2> QED
    BY <1>1, <1>5, <1>6, <2>1, <2>2, <2>3 DEF GateTypeOK
<1>9. TasksOfSweep'
  BY <1>1, <1>6, <1>7 DEF TasksOfSweep
<1>10. OnlyWholeSweepsPublish'
  BY <1>1, <1>7 DEF OnlyWholeSweepsPublish
<1>11. VerdictsAreBacked'
  BY <1>7 DEF VerdictsAreBacked
<1>12. WrittenSoFar'
  BY <1>1 DEF WrittenSoFar
<1>13. PublishedIsWhole'
  BY <1>5 DEF PublishedIsWhole
<1>14. ListsAreBacked'
  BY <1>5, <1>6 DEF ListsAreBacked
<1> QED
  BY <1>8, <1>9, <1>10, <1>11, <1>12, <1>13, <1>14

\* A sweep that is over has no tasks and no verdicts, so that what it leaves is right if the
\* files are.
LEMMA StopPreserves ==
    ASSUME GateInv, Stop, Forget, GateTypeOK', PublishedIsWhole', ListsAreBacked'
    PROVE  GateInv'
<1>1. phase' = "idle" /\ \A p \in Programs : task'[p] = "idle"
  BY DEF Stop, Forget
<1>2. TasksOfSweep' /\ OnlyWholeSweepsPublish'
  BY <1>1 DEF TasksOfSweep, OnlyWholeSweepsPublish
<1>3. VerdictsAreBacked' /\ WrittenSoFar'
  BY <1>1 DEF VerdictsAreBacked, WrittenSoFar
<1> QED
  BY <1>2, <1>3 DEF GateInv

\* The type of what a sweep forgets and leaves when it is over.
LEMMA StopType ==
    ASSUME GateTypeOK, Stop, Forget
    PROVE  /\ phase' = "idle" /\ selected' \subseteq Programs
           /\ limited' \in BOOLEAN /\ raised' \in BOOLEAN
           /\ task' \in [Programs -> {"idle", "queued", "build", "trace", "match", "done", "raised"}]
           /\ verdict' \in [Programs -> SUBSET Taxonomy]
           /\ attempt' \in [Programs -> Taxonomy \cup {"none", "matched", "matcher failed", "raised"}]
           /\ printed' \in [Programs -> Outputs]
           /\ sweeps' \in 0 .. MaxSweeps
<1>1. /\ phase' = "idle"
      /\ UNCHANGED <<selected, attempt, printed, sweeps>>
  BY DEF Stop, evidence
<1>2. limited' = limited
  BY DEF Stop
<1>3. task' = [p \in Programs |-> "idle"] /\ verdict' = [p \in Programs |-> {}]
  BY DEF Forget
<1>4. raised' = FALSE
  BY DEF Forget
<1>5. limited' \in BOOLEAN /\ raised' \in BOOLEAN
  BY <1>2, <1>4 DEF GateTypeOK
<1> QED
  BY <1>1, <1>3, <1>5 DEF GateTypeOK

\* A sweep that ends without writing a file leaves the files as they are.
LEMMA QuietStopPreserves ==
    ASSUME GateInv, Stop, Forget, UNCHANGED published, UNCHANGED unpublished,
           UNCHANGED torn, kills' \in 0 .. MaxKills
    PROVE  GateInv'
<1>1. UNCHANGED <<eligible, rejections, summary, attempt, printed>>
  BY DEF published, Stop, evidence
<1>2. GateTypeOK'
  BY <1>1, StopType DEF GateInv, GateTypeOK
<1>3. PublishedIsWhole'
  BY <1>1 DEF GateInv, PublishedIsWhole
<1>4. ListsAreBacked'
  BY <1>1 DEF GateInv, ListsAreBacked
<1> QED
  BY <1>2, <1>3, <1>4, StopPreserves

LEMMA DiePreserves ==
    ASSUME GateInv, Die
    PROVE  GateInv'
<1>1. /\ Stop /\ Forget /\ UNCHANGED published /\ UNCHANGED unpublished
      /\ UNCHANGED torn /\ UNCHANGED kills
  BY DEF Die
<1>2. kills' \in 0 .. MaxKills
  BY <1>1 DEF GateInv, GateTypeOK
<1> QED
  BY <1>1, <1>2, QuietStopPreserves

LEMMA PublishPreserves ==
    ASSUME GateInv, Publish
    PROVE  GateInv'
<1>1. /\ phase = "tasks" /\ ~raised
      /\ \A p \in selected : task[p] \in {"done", "raised"}
      /\ UNCHANGED published /\ UNCHANGED unpublished /\ UNCHANGED torn /\ UNCHANGED kills
  BY DEF Publish, MustDie
<1>2. kills' \in 0 .. MaxKills
  BY <1>1 DEF GateInv, GateTypeOK
<1>3. CASE limited
  <2>1. Stop /\ Forget
    BY <1>3 DEF Publish
  <2> QED
    BY <1>1, <1>2, <2>1, QuietStopPreserves
<1>4. CASE ~limited
  <2> USE DEF GateInv
  <2>1. /\ phase' = "eligible"
        /\ UNCHANGED <<selected, task, verdict, attempt, printed, sweeps>>
        /\ UNCHANGED <<eligible, rejections, summary, kills>>
    BY <1>1, <1>4 DEF Publish, evidence, published
  <2>2. UNCHANGED limited
    BY <1>4 DEF Publish
  <2>3. UNCHANGED raised
    BY <1>4 DEF Publish
  <2>4. /\ limited' \in BOOLEAN /\ raised' \in BOOLEAN
        /\ unpublished' \in BOOLEAN /\ torn' \in BOOLEAN
    BY <1>1, <2>2, <2>3 DEF GateTypeOK
  <2>5. GateTypeOK'
    BY <2>1, <2>4 DEF GateTypeOK
  <2>6. \A p \in selected : task[p] = "done"
    BY <1>1 DEF OnlyWholeSweepsPublish, GateTypeOK
  <2>7. TasksOfSweep'
    BY <1>1, <1>4, <2>1, <2>2 DEF TasksOfSweep
  <2>8. OnlyWholeSweepsPublish'
    BY <1>4, <2>1, <2>2, <2>3, <2>6 DEF OnlyWholeSweepsPublish
  <2>9. VerdictsAreBacked'
    BY <1>1, <1>4, <2>1 DEF VerdictsAreBacked, AcceptedIsBacked, RejectedIsBacked
  <2>10. WrittenSoFar'
    BY <2>1 DEF WrittenSoFar
  <2>11. PublishedIsWhole'
    BY <1>1, <2>1 DEF PublishedIsWhole
  <2>12. ListsAreBacked'
    BY <1>1, <2>1 DEF ListsAreBacked
  <2> QED
    BY <2>5, <2>7, <2>8, <2>9, <2>10, <2>11, <2>12
<1> QED
  BY <1>3, <1>4

\* While the files are written, every program has been judged by this sweep.
LEMMA WholeSweepPublishes ==
    ASSUME GateInv, phase \in {"eligible", "rejections", "summary"}
    PROVE  /\ ~limited /\ selected = Programs /\ unpublished
           /\ Done = Programs
           /\ Accepted = {p \in Programs : verdict[p] = {}}
<1>1. ~limited /\ \A p \in selected : task[p] = "done"
  BY DEF GateInv, OnlyWholeSweepsPublish
<1>2. selected = Programs /\ unpublished
  BY <1>1 DEF GateInv, TasksOfSweep
<1>3. Done = Programs
  BY <1>1, <1>2 DEF Done
<1> QED
  BY <1>1, <1>2, <1>3 DEF Accepted

LEMMA WriteEligiblePreserves ==
    ASSUME GateInv, WriteEligible
    PROVE  GateInv'
<1> USE DEF GateInv
<1>1. /\ phase = "eligible" /\ phase' = "rejections" /\ eligible' = Accepted
      /\ UNCHANGED <<selected, task, verdict, attempt, printed, sweeps, kills>>
      /\ UNCHANGED <<rejections, summary>>
  BY DEF WriteEligible, sweepState, evidence
<1>2. torn' = TRUE
  BY DEF WriteEligible
<1>3. UNCHANGED limited /\ UNCHANGED raised /\ UNCHANGED unpublished
  BY DEF WriteEligible, sweepState
<1>4. /\ limited' \in BOOLEAN /\ raised' \in BOOLEAN
      /\ unpublished' \in BOOLEAN /\ torn' \in BOOLEAN
  BY <1>2, <1>3 DEF GateTypeOK
<1>5. torn' /\ unpublished'
  BY <1>1, <1>2, <1>3, WholeSweepPublishes
<1>6. Accepted \subseteq Programs /\ UNCHANGED Accepted
  BY <1>1, WholeSweepPublishes DEF Accepted, Done
<1>7. GateTypeOK'
  BY <1>1, <1>4, <1>6 DEF GateTypeOK
<1>8. TasksOfSweep'
  BY <1>1, <1>3 DEF TasksOfSweep
<1>9. OnlyWholeSweepsPublish'
  BY <1>1, <1>3 DEF OnlyWholeSweepsPublish
<1>10. VerdictsAreBacked'
  BY <1>1, <1>3 DEF VerdictsAreBacked, AcceptedIsBacked, RejectedIsBacked
<1>11. WrittenSoFar'
  BY <1>1, <1>5, <1>6 DEF WrittenSoFar
<1>12. PublishedIsWhole' /\ ListsAreBacked'
  BY <1>5 DEF PublishedIsWhole, ListsAreBacked
<1> QED
  BY <1>7, <1>8, <1>9, <1>10, <1>11, <1>12

\* What a sweep rejects has reasons.
LEMMA RejectedHasReasons ==
    ASSUME GateInv, phase \in {"eligible", "rejections", "summary"}, NEW p \in Done \ Accepted
    PROVE  p \in Programs /\ verdict[p] \in (SUBSET Taxonomy) \ {{}}
<1>1. p \in Programs /\ verdict[p] # {}
  BY WholeSweepPublishes
<1>2. verdict \in [Programs -> SUBSET Taxonomy]
  BY DEF GateInv, GateTypeOK
<1> QED
  BY <1>1, <1>2

LEMMA WriteRejectionsPreserves ==
    ASSUME GateInv, WriteRejections
    PROVE  GateInv'
<1> USE DEF GateInv
<1>1. /\ phase = "rejections" /\ phase' = "summary"
      /\ rejections' = [p \in Done \ Accepted |-> verdict[p]]
      /\ UNCHANGED <<selected, task, verdict, attempt, printed, sweeps, kills>>
      /\ UNCHANGED <<eligible, summary>>
  BY DEF WriteRejections, sweepState, evidence
<1>2. /\ UNCHANGED limited /\ UNCHANGED raised /\ UNCHANGED unpublished /\ UNCHANGED torn
  BY DEF WriteRejections, sweepState
<1>3. /\ limited' \in BOOLEAN /\ raised' \in BOOLEAN
      /\ unpublished' \in BOOLEAN /\ torn' \in BOOLEAN
  BY <1>2 DEF GateTypeOK
<1>4. torn' /\ unpublished' /\ eligible = Accepted
  BY <1>1, <1>2, WholeSweepPublishes DEF WrittenSoFar
<1>5. UNCHANGED Accepted /\ UNCHANGED Done
  BY <1>1 DEF Accepted, Done
<1>6. \A p \in Done \ Accepted : p \in Programs /\ verdict[p] \in (SUBSET Taxonomy) \ {{}}
  BY <1>1, RejectedHasReasons
<1>7. /\ DOMAIN rejections' \subseteq Programs
      /\ \A p \in DOMAIN rejections' : rejections'[p] \in (SUBSET Taxonomy) \ {{}}
  BY <1>1, <1>6
<1>8. GateTypeOK'
  BY <1>1, <1>3, <1>7 DEF GateTypeOK
<1>9. TasksOfSweep'
  BY <1>1, <1>2 DEF TasksOfSweep
<1>10. OnlyWholeSweepsPublish'
  BY <1>1, <1>2 DEF OnlyWholeSweepsPublish
<1>11. VerdictsAreBacked'
  BY <1>1, <1>2 DEF VerdictsAreBacked, AcceptedIsBacked, RejectedIsBacked
<1>12. WrittenSoFar'
  BY <1>1, <1>4, <1>5 DEF WrittenSoFar
<1>13. PublishedIsWhole' /\ ListsAreBacked'
  BY <1>4 DEF PublishedIsWhole, ListsAreBacked
<1> QED
  BY <1>8, <1>9, <1>10, <1>11, <1>12, <1>13

LEMMA WriteSummaryPreserves ==
    ASSUME GateInv, WriteSummary
    PROVE  GateInv'
<1>1. /\ phase = "summary" /\ Stop /\ Forget
      /\ summary' = <<Cardinality(Accepted), Cardinality(Done \ Accepted)>>
      /\ UNCHANGED <<eligible, rejections, kills, attempt, printed>>
  BY DEF WriteSummary, Stop, evidence
<1>2. torn' = FALSE
  BY DEF WriteSummary
<1>3. unpublished' = FALSE
  BY DEF WriteSummary
<1>4. /\ Done = Programs /\ ~limited
      /\ Accepted = {p \in Programs : verdict[p] = {}}
  BY <1>1, WholeSweepPublishes
<1>5. /\ eligible' = Accepted
      /\ rejections' = [p \in Programs \ Accepted |-> verdict[p]]
  BY <1>1, <1>4 DEF GateInv, WrittenSoFar
<1>6. torn' \in BOOLEAN /\ unpublished' \in BOOLEAN
  BY <1>2, <1>3
<1>7. GateTypeOK'
  BY <1>1, <1>6, StopType DEF GateInv, GateTypeOK
<1>8. PublishedIsWhole'
  BY <1>1, <1>4, <1>5 DEF PublishedIsWhole
<1>9. \A p \in Programs :
        IF verdict[p] = {} THEN AcceptedIsBacked(p) ELSE RejectedIsBacked(p, verdict[p])
  BY <1>1, <1>4 DEF GateInv, VerdictsAreBacked, Done
<1>10. ListsAreBacked'
  <2>1. \A p \in Accepted : AcceptedIsBacked(p)
    BY <1>4, <1>9
  <2>2. \A p \in Programs \ Accepted : RejectedIsBacked(p, verdict[p])
    BY <1>4, <1>9
  <2> QED
    BY <1>1, <1>5, <2>1, <2>2 DEF ListsAreBacked, AcceptedIsBacked, RejectedIsBacked
<1> QED
  BY <1>1, <1>7, <1>8, <1>10, StopPreserves

\* A sweep that is killed while it publishes counts as torn and unpublished.
LEMMA KillPreserves ==
    ASSUME GateInv, Kill
    PROVE  GateInv'
<1>1. /\ phase # "idle" /\ Stop /\ Forget /\ UNCHANGED unpublished
      /\ kills < MaxKills /\ kills' = kills + 1
  BY DEF Kill
<1>2. kills' \in 0 .. MaxKills
  <2>1. MaxKills \in Nat
    BY GateAssumption
  <2>2. kills \in 0 .. MaxKills /\ kills < MaxKills /\ kills' = kills + 1
    BY <1>1 DEF GateInv, GateTypeOK
  <2> QED
    BY <2>1, <2>2
<1>3. unpublished' \in BOOLEAN
  BY <1>1 DEF GateInv, GateTypeOK
<1>4. CASE UNCHANGED published /\ UNCHANGED torn
  BY <1>1, <1>2, <1>4, QuietStopPreserves
<1>5. ASSUME phase = "eligible", torn' = TRUE, eligible' \in SUBSET Accepted,
             UNCHANGED <<rejections, summary>>
      PROVE  GateInv'
  <2>1. unpublished' /\ torn' /\ eligible' \subseteq Programs
    BY <1>1, <1>5, WholeSweepPublishes
  <2>2. torn' \in BOOLEAN
    BY <1>5
  <2>3. GateTypeOK'
    BY <1>1, <1>2, <1>3, <1>5, <2>1, <2>2, StopType DEF GateInv, GateTypeOK
  <2>4. PublishedIsWhole' /\ ListsAreBacked'
    BY <2>1 DEF PublishedIsWhole, ListsAreBacked
  <2> QED
    BY <1>1, <2>3, <2>4, StopPreserves
<1>6. ASSUME phase = "rejections", NEW listed \in SUBSET (Done \ Accepted),
             rejections' = [p \in listed |-> verdict[p]],
             UNCHANGED <<eligible, summary>>, UNCHANGED torn
      PROVE  GateInv'
  <2>1. unpublished' /\ torn'
    BY <1>1, <1>6, WholeSweepPublishes DEF GateInv, WrittenSoFar
  <2>2. torn' \in BOOLEAN
    BY <1>6 DEF GateInv, GateTypeOK
  <2>3. \A p \in listed : p \in Programs /\ verdict[p] \in (SUBSET Taxonomy) \ {{}}
    BY <1>6, RejectedHasReasons
  <2>4. /\ DOMAIN rejections' \subseteq Programs
        /\ \A p \in DOMAIN rejections' : rejections'[p] \in (SUBSET Taxonomy) \ {{}}
    BY <1>6, <2>3
  <2>5. GateTypeOK'
    BY <1>1, <1>2, <1>3, <1>6, <2>2, <2>4, StopType DEF GateInv, GateTypeOK
  <2>6. PublishedIsWhole' /\ ListsAreBacked'
    BY <2>1 DEF PublishedIsWhole, ListsAreBacked
  <2> QED
    BY <1>1, <2>5, <2>6, StopPreserves
<1> QED
  BY <1>4, <1>5, <1>6 DEF Kill

\* The invariant of the preflight is inductive.
THEOREM GateInvHolds == GateSpec => []GateInv
<1>1. GateInv /\ [GateNext]_gateVars => GateInv'
  <2> SUFFICES ASSUME GateInv, [GateNext]_gateVars
               PROVE  GateInv'
    OBVIOUS
  <2>1. ASSUME NEW programs \in SUBSET Programs, NEW option \in BOOLEAN,
               Begin(programs, option)
        PROVE  GateInv'
    BY <2>1, BeginPreserves
  <2>2. ASSUME NEW p \in Programs, Take(p) \/ Build(p) \/ Trace(p) \/ Match(p) \/ Raise(p)
        PROVE  GateInv'
    BY <2>2, TakePreserves, BuildPreserves, TracePreserves, MatchPreserves, RaisePreserves
  <2>3. CASE Die \/ Publish
    BY <2>3, DiePreserves, PublishPreserves
  <2>4. CASE WriteEligible \/ WriteRejections \/ WriteSummary
    BY <2>4, WriteEligiblePreserves, WriteRejectionsPreserves, WriteSummaryPreserves
  <2>5. CASE Kill
    BY <2>5, KillPreserves
  <2>6. CASE UNCHANGED gateVars
    <3>1. UNCHANGED <<phase, selected, task, verdict, attempt, printed, eligible, rejections,
                      summary, sweeps, kills>>
      BY <2>6 DEF gateVars
    <3>2. UNCHANGED limited /\ UNCHANGED raised /\ UNCHANGED unpublished /\ UNCHANGED torn
      BY <2>6 DEF gateVars
    <3>3. GateTypeOK' /\ TasksOfSweep' /\ OnlyWholeSweepsPublish'
      BY <3>1, <3>2 DEF GateInv, GateTypeOK, TasksOfSweep, OnlyWholeSweepsPublish
    <3>4. VerdictsAreBacked' /\ WrittenSoFar'
      BY <3>1, <3>2 DEF GateInv, VerdictsAreBacked, AcceptedIsBacked, RejectedIsBacked,
                        WrittenSoFar, Accepted, Done
    <3>5. PublishedIsWhole' /\ ListsAreBacked'
      BY <3>1, <3>2 DEF GateInv, PublishedIsWhole, ListsAreBacked
    <3> QED
      BY <3>3, <3>4, <3>5 DEF GateInv
  <2> QED
    BY <2>1, <2>2, <2>3, <2>4, <2>5, <2>6 DEF GateNext
<1> QED
  BY <1>1, GateInitInv, PTL DEF GateSpec

\* The state of the preflight keeps its type; in particular every program that is listed as
\* rejected has a reason, all reasons are of the taxonomy, and nothing but programs of the
\* source list is listed.
THEOREM GateTypeCorrect == GateSpec => []GateTypeOK
<1>1. GateInv => GateTypeOK
  BY DEF GateInv
<1> QED
  BY <1>1, GateInvHolds, PTL

\* Files that no sweep is writing or was killed in are of one sweep and account for every
\* program of the source list exactly once (main, preflight_scml_gate.py).
THEOREM ListsAreWhole == GateSpec => []PublishedIsWhole
<1>1. GateInv => PublishedIsWhole
  BY DEF GateInv
<1> QED
  BY <1>1, GateInvHolds, PTL

\* Once a full sweep has published everything, the evidence kept beside the lists is what
\* they were made from, whatever limited sweeps and exceptions follow.
THEOREM EvidenceBacksLists == GateSpec => []ListsAreBacked
<1>1. GateInv => ListsAreBacked
  BY DEF GateInv
<1> QED
  BY <1>1, GateInvHolds, PTL

-----------------------------------------------------------------------------
(* The reducer: what it hands out, and the evidence for it.                *)

\* p is q without some of its calls, in the same order.
IsSubsequence(p, q) ==
    \E f \in [1 .. Len(p) -> 1 .. Len(q)] :
        /\ \A i, j \in 1 .. Len(p) : i < j => f[i] < f[j]
        /\ \A i \in 1 .. Len(p) : p[i] = q[f[i]]

\* A program that dropping calls of the source program leads to.
IsReduct(p) == p \in Seq(Nat) /\ Len(p) <= Len(Source) /\ IsSubsequence(p, Source)

\* The current program and the file that trials are derived from are reducts; the file may
\* have been overwritten since the program was accepted, but only by a shorter one.
Derivation ==
    /\ files \in [Drops -> Seq(Nat)]
    /\ base \in Drops \cup {NoFile}
    /\ drop \in Drops \cup {NoFile}
    /\ IsReduct(text) /\ info = text
    /\ IsReduct(BaseText) /\ Len(BaseText) <= Len(text)

\* A trial that diverged once is a shorter reduct, and as long as it is the trial its file is
\* not overwritten.
TrialIsShorter ==
    step \in {"trial_preflight", "confirm"} =>
        /\ drop \in Drops
        /\ IsReduct(files[drop]) /\ Len(files[drop]) < Len(text)
        /\ ~flaky => files[drop] \in steady

CurrentDiverges == ~flaky /\ text # Source => text \in steady

\* With the overlay, nothing goes on without a divergence in a call and a passed preflight.
EvidenceHolds ==
    /\ overlay /\ step \in {"pass", "trial", "trial_preflight", "confirm", "report", "done"} =>
         comparison = "at_call" /\ preflight = "passed"
    /\ overlay /\ step = "confirm" => trial = "at_call"

\* Recovered evidence is of the source program, and it ends the reduction.
RecoveryBlocks ==
    /\ step \in {"replay", "preflight", "check"} => text = Source
    /\ ~confirmed => recorded /\ blocked /\ text = Source
    /\ step \in {"trial", "trial_preflight", "confirm"} => ~blocked

\* Where the evidence at hand comes from: at every stage its two halves come from one place,
\* and confirmed says which.
ProvenanceKnown ==
    /\ step \in {"replay", "preflight"} => confirmed
    /\ step \notin {"replay", "exited"} =>
         origin = IF confirmed THEN "fresh" ELSE "recorded"
    /\ overlay /\ step \notin {"replay", "preflight", "exited"} =>
         replay_mode = IF confirmed THEN "fresh_replay" ELSE "recovery_only"

ReduceInv ==
    /\ Derivation
    /\ TrialIsShorter
    /\ CurrentDiverges
    /\ EvidenceHolds
    /\ RecoveryBlocks

-----------------------------------------------------------------------------
\* What syzabi_mutate leaves of a program: all calls but one, in their order.
LEMMA DropCallProperties ==
    ASSUME NEW p \in Seq(Nat), NEW k \in Nat, k < Len(p)
    PROVE  /\ DropCall(p, k) \in Seq(Nat)
           /\ Len(DropCall(p, k)) = Len(p) - 1
           /\ \A i \in 1 .. Len(p) - 1 :
                DropCall(p, k)[i] = IF i <= k THEN p[i] ELSE p[i + 1]
<1> DEFINE head == SubSeq(p, 1, k)
           tail == SubSeq(p, k + 2, Len(p))
<1>1. Len(p) \in Nat
  OBVIOUS
<1>2. /\ head \in Seq(Nat) /\ Len(head) = k
      /\ \A i \in 1 .. k : head[i] = p[i]
  <2>1. \A i \in 1 .. k : p[i] \in Nat
    BY <1>1
  <2>2. /\ head \in Seq(Nat)
        /\ Len(head) = IF 1 <= k THEN k - 1 + 1 ELSE 0
        /\ \A i \in 1 .. k - 1 + 1 : head[i] = p[1 + i - 1]
    BY <2>1, SubSeqProperties
  <2> HIDE DEF head
  <2> QED
    BY <2>2
<1>3. /\ tail \in Seq(Nat) /\ Len(tail) = Len(p) - 1 - k
      /\ \A i \in 1 .. Len(p) - 1 - k : tail[i] = p[i + k + 1]
  <2>1. \A i \in k + 2 .. Len(p) : p[i] \in Nat
    BY <1>1
  <2>2. k + 2 \in Int /\ Len(p) \in Int
    BY <1>1
  <2>3. /\ tail \in Seq(Nat)
        /\ Len(tail) = IF k + 2 <= Len(p) THEN Len(p) - (k + 2) + 1 ELSE 0
        /\ \A i \in 1 .. Len(p) - (k + 2) + 1 : tail[i] = p[(k + 2) + i - 1]
    BY <2>1, <2>2, SubSeqProperties
  <2> HIDE DEF tail
  <2>4. Len(tail) = Len(p) - 1 - k
    BY <1>1, <2>3
  <2>5. ASSUME NEW i \in 1 .. Len(p) - 1 - k
        PROVE  tail[i] = p[i + k + 1]
    <3>1. i \in 1 .. Len(p) - (k + 2) + 1 /\ (k + 2) + i - 1 = i + k + 1
      BY <1>1
    <3> QED
      BY <2>3, <3>1
  <2> QED
    BY <2>3, <2>4, <2>5
<1>4. DropCall(p, k) = head \o tail
  BY DEF DropCall
<1> HIDE DEF head, tail
<1>5. /\ DropCall(p, k) \in Seq(Nat)
      /\ Len(DropCall(p, k)) = Len(p) - 1
  <2>1. /\ head \o tail \in Seq(Nat)
        /\ Len(head \o tail) = Len(head) + Len(tail)
    BY <1>2, <1>3, ConcatProperties
  <2> QED
    BY <1>1, <1>2, <1>3, <1>4, <2>1
<1>6. ASSUME NEW i \in 1 .. Len(p) - 1
      PROVE  DropCall(p, k)[i] = IF i <= k THEN p[i] ELSE p[i + 1]
  <2>1. CASE i <= k
    BY <1>1, <1>2, <1>3, <1>4, <2>1
  <2>2. CASE i > k
    <3>1. head \in Seq(Nat) /\ tail \in Seq(Nat) /\ Len(head) = k
      BY <1>2, <1>3
    <3>2. (head \o tail)[i] = tail[i - Len(head)]
      <4>1. i \in 1 .. Len(head) + Len(tail) /\ ~(i <= Len(head))
        BY <1>1, <1>2, <1>3, <2>2
      <4>2. (head \o tail)[i] = IF i <= Len(head) THEN head[i] ELSE tail[i - Len(head)]
        BY <3>1, <4>1, ConcatProperties
      <4> QED
        BY <4>1, <4>2
    <3>3. DropCall(p, k)[i] = tail[i - k]
      BY <1>4, <3>1, <3>2
    <3>4. i - k \in 1 .. Len(p) - 1 - k /\ (i - k) + k + 1 = i + 1
      BY <1>1, <2>2
    <3>5. tail[i - k] = p[(i - k) + k + 1]
      BY <1>3, <3>4
    <3> QED
      BY <2>2, <3>3, <3>4, <3>5
  <2> QED
    BY <2>1, <2>2
<1> QED
  BY <1>5, <1>6

\* A call dropped from a reduct leaves a reduct that is one call shorter.
LEMMA DropCallOfReduct ==
    ASSUME NEW p, IsReduct(p), NEW k \in Nat, k < Len(p)
    PROVE  IsReduct(DropCall(p, k)) /\ Len(DropCall(p, k)) = Len(p) - 1
<1>1. p \in Seq(Nat) /\ Len(p) \in Nat /\ Len(Source) \in Nat /\ Len(p) <= Len(Source)
  BY ReducerAssumption DEF IsReduct
<1> DEFINE r == DropCall(p, k)
<1>2. /\ r \in Seq(Nat) /\ Len(r) = Len(p) - 1
      /\ \A i \in 1 .. Len(p) - 1 : r[i] = IF i <= k THEN p[i] ELSE p[i + 1]
  BY <1>1, DropCallProperties
<1> HIDE DEF r
<1>3. PICK f \in [1 .. Len(p) -> 1 .. Len(Source)] :
        /\ \A i, j \in 1 .. Len(p) : i < j => f[i] < f[j]
        /\ \A i \in 1 .. Len(p) : p[i] = Source[f[i]]
  BY DEF IsReduct, IsSubsequence
<1> DEFINE g == [i \in 1 .. Len(r) |-> IF i <= k THEN f[i] ELSE f[i + 1]]
<1>4. g \in [1 .. Len(r) -> 1 .. Len(Source)]
  <2>1. \A i \in 1 .. Len(r) : i \in 1 .. Len(p) /\ i + 1 \in 1 .. Len(p)
    BY <1>1, <1>2
  <2>2. \A i \in 1 .. Len(r) : f[i] \in 1 .. Len(Source) /\ f[i + 1] \in 1 .. Len(Source)
    BY <1>3, <2>1
  <2> QED
    BY <2>2
<1>10. \A i \in 1 .. Len(r) : g[i] = IF i <= k THEN f[i] ELSE f[i + 1]
  OBVIOUS
<1> HIDE DEF g
<1>5. \A i, j \in 1 .. Len(r) : i < j => g[i] < g[j]
  <2> SUFFICES ASSUME NEW i \in 1 .. Len(r), NEW j \in 1 .. Len(r), i < j
               PROVE  g[i] < g[j]
    OBVIOUS
  <2>0. /\ i \in 1 .. Len(p) /\ j \in 1 .. Len(p)
        /\ i + 1 \in 1 .. Len(p) /\ j + 1 \in 1 .. Len(p)
    BY <1>1, <1>2
  <2>1. CASE j <= k
    <3>1. g[i] = f[i] /\ g[j] = f[j]
      BY <1>10, <2>0, <2>1
    <3> QED
      BY <1>3, <2>0, <3>1
  <2>2. CASE i <= k /\ k < j
    <3>1. g[i] = f[i] /\ g[j] = f[j + 1]
      BY <1>10, <2>0, <2>2
    <3> QED
      BY <1>3, <2>0, <3>1
  <2>3. CASE k < i
    <3>1. g[i] = f[i + 1] /\ g[j] = f[j + 1]
      BY <1>10, <2>0, <2>3
    <3>2. i + 1 < j + 1
      BY <2>0
    <3> QED
      BY <1>3, <2>0, <3>1, <3>2
  <2> QED
    BY <2>0, <2>1, <2>2, <2>3
<1>6. \A i \in 1 .. Len(r) : r[i] = Source[g[i]]
  <2> SUFFICES ASSUME NEW i \in 1 .. Len(r)
               PROVE  r[i] = Source[g[i]]
    OBVIOUS
  <2>1. i \in 1 .. Len(p) /\ i + 1 \in 1 .. Len(p) /\ i \in 1 .. Len(p) - 1
    BY <1>1, <1>2
  <2>2. CASE i <= k
    BY <1>2, <1>3, <1>10, <2>1, <2>2
  <2>3. CASE k < i
    BY <1>2, <1>3, <1>10, <2>1, <2>3
  <2> QED
    BY <2>1, <2>2, <2>3
<1>7. IsSubsequence(r, Source)
  BY <1>4, <1>5, <1>6 DEF IsSubsequence
<1>8. Len(r) <= Len(Source)
  BY <1>1, <1>2
<1> QED
  BY <1>1, <1>2, <1>7, <1>8 DEF IsReduct, r

\* The source program is a reduct of itself.
LEMMA SourceIsReduct == IsReduct(Source)
<1>1. Source \in Seq(Nat) /\ Len(Source) \in Nat
  BY ReducerAssumption
<1> DEFINE f == [i \in 1 .. Len(Source) |-> i]
<1>2. /\ f \in [1 .. Len(Source) -> 1 .. Len(Source)]
      /\ \A i, j \in 1 .. Len(Source) : i < j => f[i] < f[j]
      /\ \A i \in 1 .. Len(Source) : Source[i] = Source[f[i]]
  OBVIOUS
<1> HIDE DEF f
<1>3. IsSubsequence(Source, Source)
  BY <1>2 DEF IsSubsequence
<1> QED
  BY <1>1, <1>3 DEF IsReduct

LEMMA ReduceInitInv ==
    ASSUME ReduceInit
    PROVE  ReduceInv
<1>1. /\ files = [k \in Drops |-> NoProgram] /\ base = NoFile /\ drop = NoFile
      /\ text = Source /\ info = Source /\ step = "replay"
  BY DEF ReduceInit
<1>2. confirmed
  BY DEF ReduceInit
<1>3. files \in [Drops -> Seq(Nat)]
  BY <1>1 DEF NoProgram
<1>4. BaseText = Source
  BY <1>1 DEF BaseText
<1>5. Len(Source) \in Nat
  BY ReducerAssumption
<1>6. Derivation
  BY <1>1, <1>3, <1>4, <1>5, SourceIsReduct DEF Derivation
<1>7. TrialIsShorter /\ CurrentDiverges /\ EvidenceHolds
  BY <1>1 DEF TrialIsShorter, CurrentDiverges, EvidenceHolds
<1>8. RecoveryBlocks
  BY <1>1, <1>2 DEF RecoveryBlocks
<1> QED
  BY <1>6, <1>7, <1>8 DEF ReduceInv

\* The programs are right if no file and no current program changes.
LEMMA ProgramsKept ==
    ASSUME Derivation, UNCHANGED <<files, base, text, info>>, drop' \in Drops \cup {NoFile}
    PROVE  Derivation' /\ BaseText' = BaseText
<1>1. BaseText' = BaseText
  BY DEF BaseText
<1> QED
  BY <1>1 DEF Derivation, IsReduct

\* What require_recorded_source_evidence leaves: evidence from the campaign, or no step more.
LEMMA RecoverEffect ==
    ASSUME NEW next, Recover(next)
    PROVE  \/ /\ recorded /\ blocked'
              /\ comparison' = "at_call" /\ preflight' = "passed" /\ step' = next
           \/ step' = "exited" /\ UNCHANGED blocked /\ UNCHANGED confirmed
<1>1. CASE recorded
  <2>1. comparison' = "at_call" /\ preflight' = "passed" /\ step' = next
    BY <1>1 DEF Recover
  <2>2. blocked' = TRUE
    BY <1>1 DEF Recover
  <2> QED
    BY <1>1, <2>1, <2>2
<1>2. CASE ~recorded
  BY <1>2 DEF Recover, atHand
<1> QED
  BY <1>1, <1>2

\* The invariant survives the steps before the reduction, if the reduction is entered with
\* evidence, and recovered evidence blocks it.
LEMMA SourceStepPreserves ==
    ASSUME ReduceInv, step \in {"replay", "preflight", "check"},
           UNCHANGED world, UNCHANGED <<files, base, text, info, drop>>,
           step' \in {"preflight", "check", "pass", "exited"},
           overlay /\ step' = "pass" => comparison' = "at_call" /\ preflight' = "passed",
           ~confirmed' => recorded /\ blocked'
    PROVE  ReduceInv'
<1>1. UNCHANGED overlay /\ UNCHANGED recorded /\ UNCHANGED flaky /\ UNCHANGED steady
  BY DEF world
<1>2. text = Source
  BY DEF ReduceInv, RecoveryBlocks
<1>3. Derivation'
  BY ProgramsKept DEF ReduceInv, Derivation
<1>4. TrialIsShorter'
  BY DEF TrialIsShorter
<1>5. CurrentDiverges'
  BY <1>2 DEF CurrentDiverges
<1>6. EvidenceHolds'
  BY <1>1 DEF EvidenceHolds
<1>7. RecoveryBlocks'
  BY <1>1, <1>2 DEF RecoveryBlocks
<1> QED
  BY <1>3, <1>4, <1>5, <1>6, <1>7 DEF ReduceInv

LEMMA ReplayPreserves ==
    ASSUME ReduceInv, Replay
    PROVE  ReduceInv'
<1>1. step = "replay" /\ UNCHANGED world /\ UNCHANGED <<files, base, text, info, drop>>
  BY DEF Replay
<1>2. ~confirmed => recorded /\ blocked
  BY DEF ReduceInv, RecoveryBlocks
<1>3. CASE UNCHANGED blocked /\ UNCHANGED confirmed
           /\ step' \in {"preflight", "pass", "exited"} /\ (step' = "pass" => ~overlay)
  BY <1>1, <1>2, <1>3, SourceStepPreserves
<1>4. CASE Recover("check")
  BY <1>1, <1>2, <1>4, RecoverEffect, SourceStepPreserves
<1>5. \/ /\ UNCHANGED blocked /\ UNCHANGED confirmed
         /\ step' \in {"preflight", "pass", "exited"} /\ (step' = "pass" => ~overlay)
      \/ Recover("check")
  <2>1. PICK o \in RunCase(Source) :
         \/ /\ o \in Comparisons
            /\ comparison' = o
            /\ origin' = "fresh"
            /\ step' = IF overlay THEN "preflight" ELSE "pass"
            /\ UNCHANGED <<preflight, replay_mode, blocked, confirmed>>
         \/ o = "exit" /\ overlay /\ Recover("check")
         \/ /\ o = "error" \/ (o = "exit" /\ ~overlay)
            /\ step' = "exited"
            /\ UNCHANGED atHand
    BY DEF Replay
  <2> QED
    BY <2>1 DEF atHand
<1> QED
  BY <1>3, <1>4, <1>5

LEMMA PreflightSourcePreserves ==
    ASSUME ReduceInv, PreflightSource
    PROVE  ReduceInv'
<1>1. step = "preflight" /\ UNCHANGED world /\ UNCHANGED <<files, base, text, info, drop>>
  BY DEF PreflightSource
<1>2. ~confirmed => recorded /\ blocked
  BY DEF ReduceInv, RecoveryBlocks
<1>3. CASE UNCHANGED blocked /\ UNCHANGED confirmed /\ step' \in {"check", "exited"}
  BY <1>1, <1>2, <1>3, SourceStepPreserves
<1>4. CASE Recover("check")
  BY <1>1, <1>2, <1>4, RecoverEffect, SourceStepPreserves
<1>5. \/ UNCHANGED blocked /\ UNCHANGED confirmed /\ step' \in {"check", "exited"}
      \/ Recover("check")
  BY DEF PreflightSource, atHand
<1> QED
  BY <1>3, <1>4, <1>5

LEMMA CheckSourcePreserves ==
    ASSUME ReduceInv, CheckSource
    PROVE  ReduceInv'
<1>1. step = "check" /\ UNCHANGED world /\ UNCHANGED <<files, base, text, info, drop>>
  BY DEF CheckSource
<1>2. ~confirmed => recorded /\ blocked
  BY DEF ReduceInv, RecoveryBlocks
<1>3. CASE InvariantsHold(comparison, preflight)
  <2>1. step' = "pass" /\ UNCHANGED <<comparison, preflight>>
    BY <1>3 DEF CheckSource, atHand
  <2>2. UNCHANGED blocked /\ UNCHANGED confirmed
    BY <1>3 DEF CheckSource, atHand
  <2>3. comparison' = "at_call" /\ preflight' = "passed"
    BY <1>3, <2>1 DEF InvariantsHold
  <2> QED
    BY <1>1, <1>2, <2>1, <2>2, <2>3, SourceStepPreserves
<1>4. CASE ~InvariantsHold(comparison, preflight)
  <2>1. Recover("pass")
    BY <1>4 DEF CheckSource
  <2> QED
    BY <1>1, <1>2, <2>1, RecoverEffect, SourceStepPreserves
<1> QED
  BY <1>3, <1>4

\* The invariant survives a step of the reduction that neither writes nor accepts a trial.
LEMMA LoopStepPreserves ==
    ASSUME ReduceInv, UNCHANGED world, UNCHANGED current, UNCHANGED files, UNCHANGED blocked,
           drop' \in Drops \cup {NoFile},
           step \in {"pass", "trial", "trial_preflight", "confirm", "report"},
           step' \in {"pass", "trial", "trial_preflight", "confirm", "report", "done", "exited"},
           step' \in {"trial_preflight", "confirm"} =>
               step \in {"trial_preflight", "confirm"} /\ drop' = drop,
           overlay /\ step' = "confirm" => trial' = "at_call",
           step' \in {"trial", "trial_preflight", "confirm"} => ~blocked
    PROVE  ReduceInv'
<1>1. UNCHANGED overlay /\ UNCHANGED recorded /\ UNCHANGED flaky /\ UNCHANGED steady
  BY DEF world
<1>2. /\ UNCHANGED <<base, text, info, comparison, preflight>>
      /\ UNCHANGED confirmed
  BY DEF current
<1>3. Derivation'
  BY <1>2, ProgramsKept DEF ReduceInv
<1>4. TrialIsShorter'
  BY <1>1, <1>2 DEF ReduceInv, TrialIsShorter, IsReduct
<1>5. CurrentDiverges'
  BY <1>1, <1>2 DEF ReduceInv, CurrentDiverges
<1>6. EvidenceHolds'
  BY <1>1, <1>2 DEF ReduceInv, EvidenceHolds
<1>7. RecoveryBlocks'
  BY <1>1, <1>2 DEF ReduceInv, RecoveryBlocks
<1> QED
  BY <1>3, <1>4, <1>5, <1>6, <1>7 DEF ReduceInv

LEMMA BeginPassPreserves ==
    ASSUME ReduceInv, BeginPass
    PROVE  ReduceInv'
<1>1. /\ step = "pass" /\ UNCHANGED world /\ UNCHANGED files
      /\ UNCHANGED current /\ UNCHANGED blocked
  BY DEF BeginPass
<1>2. CASE changed /\ ~blocked
  <2>1. drop' = Len(info) - 1 /\ step' = "trial"
    BY <1>2 DEF BeginPass, CallCount
  <2>2. Len(info) \in 0 .. Len(Source) /\ Len(Source) \in Nat
    BY ReducerAssumption DEF ReduceInv, Derivation, IsReduct
  <2>3. drop' \in Drops \cup {NoFile}
    BY <2>1, <2>2 DEF Drops, NoFile
  <2> QED
    BY <1>1, <1>2, <2>1, <2>3, LoopStepPreserves
<1>3. CASE ~(changed /\ ~blocked)
  <2>1. step' = "report" /\ UNCHANGED drop
    BY <1>3 DEF BeginPass
  <2>2. drop' \in Drops \cup {NoFile}
    BY <2>1 DEF ReduceInv, Derivation
  <2> QED
    BY <1>1, <2>1, <2>2, LoopStepPreserves
<1> QED
  BY <1>2, <1>3

LEMMA EndPassPreserves ==
    ASSUME ReduceInv, EndPass
    PROVE  ReduceInv'
<1>1. /\ step = "trial" /\ step' = "pass" /\ UNCHANGED world /\ UNCHANGED files
      /\ UNCHANGED current /\ UNCHANGED blocked /\ UNCHANGED drop
  BY DEF EndPass
<1>2. drop' \in Drops \cup {NoFile}
  BY <1>1 DEF ReduceInv, Derivation
<1> QED
  BY <1>1, <1>2, LoopStepPreserves

\* Giving a trial up leads to the trial of the call before it, or to the end of the pass.
LEMMA NextDropIsADrop ==
    ASSUME drop \in Drops, NextDrop
    PROVE  step' = "trial" /\ drop' \in Drops \cup {NoFile}
<1>1. step' = "trial" /\ drop' = drop - 1
  BY DEF NextDrop, PreviousDrop
<1>2. Len(Source) \in Nat
  BY ReducerAssumption
<1> QED
  BY <1>1, <1>2 DEF Drops, NoFile

LEMMA TrialPreflightPreserves ==
    ASSUME ReduceInv, TrialPreflight
    PROVE  ReduceInv'
<1>1. /\ step = "trial_preflight" /\ UNCHANGED world /\ UNCHANGED files
      /\ UNCHANGED current /\ UNCHANGED blocked /\ UNCHANGED trial
  BY DEF TrialPreflight
<1>2. \/ step' = "exited" /\ UNCHANGED drop
      \/ NextDrop
      \/ trial = "at_call" /\ step' = "confirm" /\ UNCHANGED drop
  BY DEF TrialPreflight, InvariantsHold
<1>3. drop \in Drops /\ ~blocked
  BY <1>1 DEF ReduceInv, TrialIsShorter, RecoveryBlocks
<1>4. CASE step' = "exited" /\ UNCHANGED drop
  BY <1>1, <1>3, <1>4, LoopStepPreserves
<1>5. CASE NextDrop
  BY <1>1, <1>3, <1>5, NextDropIsADrop, LoopStepPreserves
<1>6. CASE trial = "at_call" /\ step' = "confirm" /\ UNCHANGED drop
  BY <1>1, <1>3, <1>6, LoopStepPreserves
<1> QED
  BY <1>2, <1>4, <1>5, <1>6

LEMMA ConfirmPreserves ==
    ASSUME ReduceInv, Confirm
    PROVE  ReduceInv'
<1>1. /\ step = "confirm" /\ UNCHANGED world /\ UNCHANGED files
      /\ UNCHANGED current /\ UNCHANGED blocked /\ UNCHANGED trial
  BY DEF Confirm
<1>2. \/ step' \in {"confirm", "exited"} /\ UNCHANGED drop
      \/ NextDrop
  BY <1>1 DEF Confirm
<1>3. drop \in Drops /\ ~blocked /\ (overlay => trial = "at_call")
  BY <1>1 DEF ReduceInv, TrialIsShorter, RecoveryBlocks, EvidenceHolds
<1>4. CASE step' \in {"confirm", "exited"} /\ UNCHANGED drop
  BY <1>1, <1>3, <1>4, LoopStepPreserves
<1>5. CASE NextDrop
  BY <1>1, <1>3, <1>5, NextDropIsADrop, LoopStepPreserves
<1> QED
  BY <1>2, <1>4, <1>5

LEMMA ReportPreserves ==
    ASSUME ReduceInv, Report
    PROVE  ReduceInv'
<1>1. /\ step = "report" /\ step' \in {"done", "exited"} /\ UNCHANGED world
      /\ UNCHANGED files /\ UNCHANGED blocked /\ UNCHANGED drop
      /\ text' = text /\ UNCHANGED <<base, info, comparison, origin, preflight, replay_mode>>
  BY DEF Report, FinalText, atHand
<1>2. UNCHANGED confirmed
  BY DEF Report, atHand
<1>3. UNCHANGED current
  BY <1>1, <1>2 DEF current
<1>4. drop' \in Drops \cup {NoFile}
  BY <1>1 DEF ReduceInv, Derivation
<1> QED
  BY <1>1, <1>3, <1>4, LoopStepPreserves

\* A trial is a reduct, one call shorter than the file it is derived from, so that the file it
\* is written to may be the one the current program came from.
LEMMA TrialPreserves ==
    ASSUME ReduceInv, Trial
    PROVE  ReduceInv'
<1>1. /\ step = "trial" /\ drop >= 0
      /\ UNCHANGED world /\ UNCHANGED current /\ UNCHANGED blocked
  BY DEF Trial
<1>2. UNCHANGED overlay /\ UNCHANGED recorded /\ UNCHANGED flaky /\ UNCHANGED steady
  BY <1>1 DEF world
<1>3. UNCHANGED <<base, text, info, comparison, preflight>> /\ UNCHANGED confirmed
  BY <1>1 DEF current
<1>4. Len(Source) \in Nat
  BY ReducerAssumption
<1>5. drop \in Drops
  BY <1>1, <1>4 DEF ReduceInv, Derivation, Drops, NoFile
<1>6. ~blocked /\ (overlay => comparison = "at_call" /\ preflight = "passed")
  BY <1>1 DEF ReduceInv, RecoveryBlocks, EvidenceHolds
<1>7. CASE drop >= Len(BaseText)
  <2>1. step' = "exited" /\ UNCHANGED files /\ UNCHANGED drop
    BY <1>7 DEF Trial
  <2> QED
    BY <1>1, <1>5, <2>1, LoopStepPreserves
<1>8. CASE ~(drop >= Len(BaseText))
  <2> DEFINE p == DropCall(BaseText, drop)
  <2>1. files' = [files EXCEPT ![drop] = p]
    BY <1>8 DEF Trial
  <2>2. PICK o \in RunCase(p) :
          \/ o \in {"equivalent", "exit"} /\ NextDrop /\ UNCHANGED trial
          \/ o = "error" /\ step' = "exited" /\ UNCHANGED <<trial, drop>>
          \/ /\ o \in Divergences
             /\ trial' = o
             /\ step' = IF overlay THEN "trial_preflight" ELSE "confirm"
             /\ UNCHANGED drop
    BY <1>8 DEF Trial
  <2>3. /\ files \in [Drops -> Seq(Nat)] /\ base \in Drops \cup {NoFile}
        /\ IsReduct(BaseText) /\ IsReduct(text) /\ info = text
        /\ Len(BaseText) <= Len(text) /\ Len(BaseText) \in Nat /\ Len(text) \in Nat
    BY DEF ReduceInv, Derivation, IsReduct
  <2>4. drop \in Nat /\ drop < Len(BaseText)
    BY <1>4, <1>5, <1>8, <2>3 DEF Drops
  <2>5. IsReduct(p) /\ Len(p) = Len(BaseText) - 1
    BY <2>3, <2>4, DropCallOfReduct
  <2> HIDE DEF p
  <2>6. p \in Seq(Nat) /\ Len(p) < Len(text) /\ Len(p) \in Nat
    BY <2>3, <2>5 DEF IsReduct
  <2>7. files' \in [Drops -> Seq(Nat)] /\ files'[drop] = p
    BY <1>5, <2>1, <2>3, <2>6
  <2>8. BaseText' = IF base = drop THEN p ELSE BaseText
    <3>1. NoFile \notin Drops
      BY <1>4 DEF NoFile, Drops
    <3> QED
      BY <1>3, <1>5, <2>1, <2>3, <3>1 DEF BaseText
  <2>9. IsReduct(BaseText') /\ Len(BaseText') <= Len(text)
    BY <2>3, <2>5, <2>6, <2>8
  <2>10. drop' \in Drops \cup {NoFile}
    BY <1>5, <2>2, NextDropIsADrop
  <2>11. /\ step' \in {"trial", "exited", "trial_preflight", "confirm"}
         /\ step' \in {"trial_preflight", "confirm"} => drop' = drop /\ o \in Divergences
         /\ step' = "confirm" => ~overlay
    BY <2>2 DEF NextDrop
  <2>12. ~flaky /\ o \in Divergences => p \in steady
    BY <2>2 DEF RunCase, Divergences
  <2>13. Derivation'
    BY <1>3, <2>3, <2>7, <2>9, <2>10 DEF Derivation, IsReduct
  <2>14. TrialIsShorter'
    BY <1>2, <1>3, <1>5, <2>5, <2>6, <2>7, <2>11, <2>12 DEF TrialIsShorter, IsReduct
  <2>15. CurrentDiverges'
    BY <1>2, <1>3 DEF ReduceInv, CurrentDiverges
  <2>16. EvidenceHolds'
    BY <1>2, <1>3, <1>6, <2>11 DEF EvidenceHolds
  <2>17. RecoveryBlocks'
    BY <1>1, <1>2, <1>3, <1>6, <2>11 DEF ReduceInv, RecoveryBlocks
  <2> QED
    BY <2>13, <2>14, <2>15, <2>16, <2>17 DEF ReduceInv
<1> QED
  BY <1>7, <1>8

\* The program that is accepted is the trial, which nothing has overwritten yet.
LEMMA AcceptEffect ==
    ASSUME ReduceInv, Accept
    PROVE  /\ drop \in Drops /\ base' = drop
           /\ text' = files[drop] /\ info' = files[drop]
           /\ IsReduct(files[drop]) /\ Len(files[drop]) < Len(text)
           /\ ~flaky => files[drop] \in steady
<1>1. step = "confirm" /\ text' = files[drop] /\ info' = files[drop] /\ base' = drop
  BY DEF Accept, AcceptedText, NextBase
<1> QED
  BY <1>1 DEF ReduceInv, TrialIsShorter

LEMMA AcceptPreserves ==
    ASSUME ReduceInv, Accept
    PROVE  ReduceInv'
<1>1. /\ step = "confirm" /\ step' = "pass" /\ comparison' = trial
      /\ preflight' = IF overlay THEN "passed" ELSE "none"
      /\ UNCHANGED world /\ UNCHANGED files /\ UNCHANGED drop
      /\ UNCHANGED blocked /\ UNCHANGED confirmed
  BY DEF Accept
<1>2. UNCHANGED overlay /\ UNCHANGED recorded /\ UNCHANGED flaky /\ UNCHANGED steady
  BY <1>1 DEF world
<1>3. /\ drop \in Drops /\ base' = drop /\ text' = files[drop] /\ info' = files[drop]
      /\ IsReduct(files[drop]) /\ (~flaky => files[drop] \in steady)
  BY AcceptEffect
<1>4. files \in [Drops -> Seq(Nat)]
  BY DEF ReduceInv, Derivation
<1>5. BaseText' = files[drop]
  <2>1. Len(Source) \in Nat
    BY ReducerAssumption
  <2>2. drop # NoFile
    BY <1>3, <2>1 DEF Drops, NoFile
  <2> QED
    BY <1>1, <1>3, <2>2 DEF BaseText
<1>6. Len(files[drop]) \in Nat
  BY <1>3 DEF IsReduct
<1>7. Derivation'
  BY <1>1, <1>3, <1>4, <1>5, <1>6 DEF Derivation, IsReduct
<1>8. TrialIsShorter'
  BY <1>1 DEF TrialIsShorter
<1>9. CurrentDiverges'
  BY <1>2, <1>3 DEF CurrentDiverges
<1>10. EvidenceHolds'
  BY <1>1, <1>2 DEF ReduceInv, EvidenceHolds
<1>11. ~blocked
  BY <1>1 DEF ReduceInv, RecoveryBlocks
<1>12. confirmed
  BY <1>11 DEF ReduceInv, RecoveryBlocks
<1>13. RecoveryBlocks'
  BY <1>1, <1>12 DEF RecoveryBlocks
<1> QED
  BY <1>7, <1>8, <1>9, <1>10, <1>13 DEF ReduceInv

\* The invariant of the reduction is inductive.
THEOREM ReduceInvHolds == ReduceSpec => []ReduceInv
<1>1. ReduceInv /\ [ReduceNext]_reduceVars => ReduceInv'
  <2> SUFFICES ASSUME ReduceInv, [ReduceNext]_reduceVars
               PROVE  ReduceInv'
    OBVIOUS
  <2>1. CASE Replay \/ PreflightSource \/ CheckSource
    BY <2>1, ReplayPreserves, PreflightSourcePreserves, CheckSourcePreserves
  <2>2. CASE BeginPass \/ EndPass \/ Trial
    BY <2>2, BeginPassPreserves, EndPassPreserves, TrialPreserves
  <2>3. CASE TrialPreflight \/ Confirm \/ Accept \/ Report
    BY <2>3, TrialPreflightPreserves, ConfirmPreserves, AcceptPreserves, ReportPreserves
  <2>4. CASE UNCHANGED reduceVars
    <3>1. UNCHANGED <<steady, files, base, text, info, comparison, preflight, drop, trial, step>>
      BY <2>4 DEF reduceVars
    <3>2. /\ UNCHANGED overlay /\ UNCHANGED recorded /\ UNCHANGED flaky
          /\ UNCHANGED blocked /\ UNCHANGED confirmed
      BY <2>4 DEF reduceVars
    <3>3. Derivation'
      BY <3>1, ProgramsKept DEF ReduceInv, Derivation
    <3>4. TrialIsShorter' /\ CurrentDiverges'
      BY <3>1, <3>2 DEF ReduceInv, TrialIsShorter, CurrentDiverges, IsReduct
    <3>5. EvidenceHolds' /\ RecoveryBlocks'
      BY <3>1, <3>2 DEF ReduceInv, EvidenceHolds, RecoveryBlocks
    <3> QED
      BY <3>3, <3>4, <3>5 DEF ReduceInv
  <2> QED
    BY <2>1, <2>2, <2>3, <2>4 DEF ReduceNext
<1> QED
  BY <1>1, ReduceInitInv, PTL DEF ReduceSpec

\* Before the reduction: fresh runs leave fresh evidence, and a fallback replaces all of it.
LEMMA SourceStepKeepsProvenance ==
    ASSUME ReduceInv, ProvenanceKnown, Replay \/ PreflightSource \/ CheckSource
    PROVE  ProvenanceKnown'
<1>1. UNCHANGED overlay
  BY DEF Replay, PreflightSource, CheckSource, world
<1>2. ASSUME NEW next, next \notin {"replay", "preflight"}, Recover(next)
      PROVE  ProvenanceKnown'
  <2>1. CASE recorded
    <3>1. origin' = "recorded" /\ replay_mode' = "recovery_only" /\ step' = next
      BY <1>2, <2>1 DEF Recover
    <3>2. ~confirmed'
      BY <1>2, <2>1 DEF Recover, ConfirmedAfterRecovery
    <3> QED
      BY <1>2, <3>1, <3>2 DEF ProvenanceKnown
  <2>2. CASE ~recorded
    <3>1. step' = "exited"
      BY <1>2, <2>2 DEF Recover
    <3> QED
      BY <3>1 DEF ProvenanceKnown
  <2> QED
    BY <2>1, <2>2
<1>3. CASE Replay
  <2>1. confirmed
    BY <1>3 DEF Replay, ProvenanceKnown
  <2>2. \/ /\ origin' = "fresh" /\ UNCHANGED replay_mode
           /\ step' = IF overlay THEN "preflight" ELSE "pass"
           /\ UNCHANGED confirmed
        \/ Recover("check")
        \/ step' = "exited"
    BY <1>3 DEF Replay
  <2>3. CASE Recover("check")
    BY <1>2, <2>3
  <2>4. CASE step' = "exited"
    BY <2>4 DEF ProvenanceKnown
  <2>5. CASE /\ origin' = "fresh" /\ UNCHANGED replay_mode
             /\ step' = IF overlay THEN "preflight" ELSE "pass"
             /\ UNCHANGED confirmed
    BY <1>1, <2>1, <2>5 DEF ProvenanceKnown
  <2> QED
    BY <2>2, <2>3, <2>4, <2>5
<1>4. CASE PreflightSource
  <2>1. confirmed /\ origin = "fresh"
    BY <1>4 DEF PreflightSource, ProvenanceKnown
  <2>2. \/ /\ replay_mode' = "fresh_replay" /\ UNCHANGED origin /\ step' = "check"
           /\ UNCHANGED confirmed
        \/ Recover("check")
        \/ step' = "exited"
    BY <1>4 DEF PreflightSource
  <2>3. CASE Recover("check")
    BY <1>2, <2>3
  <2>4. CASE step' = "exited"
    BY <2>4 DEF ProvenanceKnown
  <2>5. CASE /\ replay_mode' = "fresh_replay" /\ UNCHANGED origin /\ step' = "check"
             /\ UNCHANGED confirmed
    BY <2>1, <2>5 DEF ProvenanceKnown
  <2> QED
    BY <2>2, <2>3, <2>4, <2>5
<1>5. CASE CheckSource
  <2>1. step = "check"
    BY <1>5 DEF CheckSource
  <2>2. \/ step' = "pass" /\ UNCHANGED <<origin, replay_mode>> /\ UNCHANGED confirmed
        \/ Recover("pass")
    BY <1>5 DEF CheckSource, atHand
  <2>3. CASE Recover("pass")
    BY <1>2, <2>3
  <2>4. CASE step' = "pass" /\ UNCHANGED <<origin, replay_mode>> /\ UNCHANGED confirmed
    BY <1>1, <2>1, <2>4 DEF ProvenanceKnown
  <2> QED
    BY <2>2, <2>3, <2>4
<1> QED
  BY <1>3, <1>4, <1>5

\* Within the reduction only an accepted trial brings other evidence, and nothing is accepted
\* after a fallback.
LEMMA LoopKeepsProvenance ==
    ASSUME ReduceInv, ProvenanceKnown,
           \/ BeginPass \/ EndPass \/ Trial \/ TrialPreflight \/ Confirm \/ Accept \/ Report
    PROVE  ProvenanceKnown'
<1>1. /\ UNCHANGED overlay /\ step \notin {"replay", "preflight", "check", "exited"}
      /\ step' \notin {"replay", "preflight", "check"}
  BY DEF BeginPass, EndPass, Trial, TrialPreflight, Confirm, Accept, Report, NextDrop, world
<1>2. CASE BeginPass \/ EndPass \/ Trial \/ TrialPreflight \/ Confirm \/ Report
  <2>1. UNCHANGED <<origin, replay_mode>> /\ UNCHANGED confirmed
    BY <1>2 DEF BeginPass, EndPass, Trial, TrialPreflight, Confirm, Report, current, atHand
  <2> QED
    BY <1>1, <2>1 DEF ProvenanceKnown
<1>3. CASE Accept
  <2>1. ~blocked
    BY <1>3 DEF Accept, ReduceInv, RecoveryBlocks
  <2>2. confirmed
    BY <2>1 DEF ReduceInv, RecoveryBlocks
  <2>3. confirmed'
    BY <1>3, <2>2 DEF Accept
  <2>4. /\ origin' = "fresh"
        /\ overlay => replay_mode' = "fresh_replay"
    BY <1>3 DEF Accept
  <2> QED
    BY <1>1, <2>3, <2>4 DEF ProvenanceKnown
<1> QED
  BY <1>2, <1>3

\* At every step of greedy_reduce it is known where the evidence at hand comes from.
THEOREM ProvenanceHolds == ReduceSpec => []ProvenanceKnown
<1>1. ReduceInit => ProvenanceKnown
  <2> SUFFICES ASSUME ReduceInit PROVE ProvenanceKnown
    OBVIOUS
  <2>1. step = "replay"
    BY DEF ReduceInit
  <2>2. confirmed
    BY DEF ReduceInit
  <2> QED
    BY <2>1, <2>2 DEF ProvenanceKnown
<1>2. ReduceInv /\ ProvenanceKnown /\ [ReduceNext]_reduceVars => ProvenanceKnown'
  <2> SUFFICES ASSUME ReduceInv, ProvenanceKnown, [ReduceNext]_reduceVars
               PROVE  ProvenanceKnown'
    OBVIOUS
  <2>1. CASE Replay \/ PreflightSource \/ CheckSource
    BY <2>1, SourceStepKeepsProvenance
  <2>2. CASE BeginPass \/ EndPass \/ Trial \/ TrialPreflight \/ Confirm \/ Accept \/ Report
    BY <2>2, LoopKeepsProvenance
  <2>3. CASE UNCHANGED reduceVars
    <3>1. UNCHANGED <<origin, replay_mode, step>>
      BY <2>3 DEF reduceVars
    <3>2. UNCHANGED overlay /\ UNCHANGED confirmed
      BY <2>3 DEF reduceVars
    <3> QED
      BY <3>1, <3>2 DEF ProvenanceKnown
  <2> QED
    BY <2>1, <2>2, <2>3 DEF ReduceNext
<1> QED
  BY <1>1, <1>2, ReduceInvHolds, PTL DEF ReduceSpec

\* A report of a reduction with the SCML overlay has a divergence in a call of the program and
\* a passed preflight: both from fresh runs if it says "confirmed", and both recorded, of the
\* source program, if it does not.
THEOREM OverlayReportsAreSound == ReduceSpec => []OverlayReportIsSound
<1>1. ReduceInv /\ ProvenanceKnown => OverlayReportIsSound
  <2> SUFFICES ASSUME ReduceInv, ProvenanceKnown, step = "done", overlay
               PROVE  /\ comparison = "at_call" /\ preflight = "passed"
                      /\ confirmed => FreshEvidence
                      /\ ~confirmed => RecordedEvidence
    BY DEF OverlayReportIsSound
  <2>1. comparison = "at_call" /\ preflight = "passed"
    BY DEF ReduceInv, EvidenceHolds
  <2>2. ASSUME confirmed PROVE FreshEvidence
    BY <2>2 DEF ProvenanceKnown, FreshEvidence
  <2>3. ASSUME ~confirmed PROVE RecordedEvidence
    BY <2>3 DEF ProvenanceKnown, ReduceInv, RecoveryBlocks, RecordedEvidence
  <2> QED
    BY <2>1, <2>2, <2>3
<1> QED
  BY <1>1, ReduceInvHolds, ProvenanceHolds, PTL

\* What greedy_reduce hands out is the program its evidence is about; where programs behave
\* the same in every run it diverges, unless nothing could be dropped.
THEOREM ReductsDiverge == ReduceSpec => []ReducedProgramDiverges
<1>1. ReduceInv => ReducedProgramDiverges
  BY DEF ReduceInv, Derivation, CurrentDiverges, ReducedProgramDiverges
<1> QED
  BY <1>1, ReduceInvHolds, PTL

\* Whatever order files are written in, the current program is the source program without
\* some of its calls: a trial derived from an overwritten file adds and reorders none.
THEOREM ReductsAreSubsequences == ReduceSpec => []IsSubsequence(text, Source)
<1>1. ReduceInv => IsSubsequence(text, Source)
  BY DEF ReduceInv, Derivation, IsReduct
<1> QED
  BY <1>1, ReduceInvHolds, PTL

\* The step that may repeat the passes forever does not: every accepted program is shorter
\* than the one it replaces, although the trial was derived from a file.
THEOREM AcceptedIsShorter == ReduceSpec => [][Accept => Len(text') < Len(text)]_reduceVars
<1>1. ReduceInv /\ [ReduceNext]_reduceVars => [Accept => Len(text') < Len(text)]_reduceVars
  <2> SUFFICES ASSUME ReduceInv, Accept
               PROVE  Len(text') < Len(text)
    OBVIOUS
  <2> QED
    BY AcceptEffect
<1> QED
  BY <1>1, ReduceInvHolds, PTL DEF ReduceSpec

-----------------------------------------------------------------------------
(* The build cache: what a directory that is accepted holds.               *)

\* No input was put in place after t.
Untouched(t) == \A i \in Inputs : inputs[i].written <= t

\* A build has fingerprints, a compiler has read its input, and what a step reads is there.
StagesHaveInputs ==
    /\ stage # "idle" => fp \in Fingerprints
    /\ stage \in {"source", "compiles reference", "compiles candidate"} => toolText \in Texts
    /\ stage \in {"reference", "compiles reference", "candidate", "compiles candidate"} =>
         source # None
    /\ stage = "reporting" => result # None

\* Every write has a time of its own, so an input is put in place before or after a result;
\* a file may be older than its place.
TimesAreDistinct ==
    /\ Untouched(clock) /\ started <= clock
    /\ result # None =>
         /\ result.started < result.mtime /\ result.mtime <= clock
         /\ \A i \in Inputs : inputs[i].written # result.mtime
    /\ \A i \in Inputs : inputs[i].mtime <= inputs[i].written
    /\ stage = "lookup" /\ result # None => result.started <= started

\* The generated code of this build, and a binary of it.
SourceMade ==
    /\ source # None /\ source.mtime > started
    /\ Untouched(started) => source.text = inputs["generator"].text

BinaryMade(s) ==
    /\ bins[s] # None /\ ~ bins[s].torn /\ bins[s].mtime > started
    /\ bins[s].source = source.text
    /\ inputs["tracer"].written <= started => bins[s].tracer = inputs["tracer"].text

\* A build that has not failed has made everything before its stage, of the inputs as they
\* are unless one was put in place since it took their fingerprints.
MadeSoFar ==
    /\ stage # "idle" /\ Untouched(started) => fp = Current
    /\ stage = "source" /\ Untouched(started) => toolText = inputs["generator"].text
    /\ stage \in {"compiles reference", "compiles candidate"}
           /\ inputs["tracer"].written <= started => toolText = inputs["tracer"].text
    /\ ~ failed =>
         /\ stage \in {"reference", "compiles reference", "candidate", "compiles candidate",
                       "report", "reporting"} => SourceMade
         /\ stage \in {"candidate", "compiles candidate", "report", "reporting"} =>
              BinaryMade("reference")
         /\ stage \in {"report", "reporting"} => BinaryMade("candidate")
    /\ stage = "reporting" =>
         /\ result.torn /\ result.fp = fp /\ result.started = started
         /\ result.status = "ok" => ~ failed

\* If no input was put in place since the recorded build began, no later build got past the
\* lookup, and everything in the directory is of the recorded build.
RecordVouches ==
    BuildStatusOk /\ Untouched(result.started) =>
        /\ stage \in {"idle", "lookup"}
        /\ result.fp = Current
        /\ source # None /\ source.mtime > result.started
        /\ \A s \in Sides : bins[s] # None /\ bins[s].mtime > result.started
        /\ UpToDate

\* The directory of a build that nothing interrupted, until the next one changes it.
DirectoryIsConsistent ==
    stage \in {"idle", "lookup"} /\ BuildStatusOk /\ ~ dirty =>
       /\ \A s \in Sides : bins[s] # None /\ ~ bins[s].torn /\ bins[s].source = source.text
       /\ \/ bins["reference"].tracer = bins["candidate"].tracer
          \/ inputs["tracer"].written > result.started

BuildInv ==
    /\ BuildTypeOK
    /\ StagesHaveInputs
    /\ TimesAreDistinct
    /\ MadeSoFar
    /\ RecordVouches
    /\ DirectoryIsConsistent

-----------------------------------------------------------------------------
\* The newest input and the oldest output are one of each, and they bound the others.
LEMMA NewestInputBounds ==
    ASSUME BuildTypeOK
    PROVE  /\ \E i \in Inputs : NewestInput = inputs[i].mtime
           /\ \A i \in Inputs : inputs[i].mtime <= NewestInput
<1> DEFINE a == inputs["generator"].mtime
           b == inputs["tracer"].mtime
           S == {inputs[i].mtime : i \in Inputs}
<1>1. a \in Nat /\ b \in Nat
  BY DEF BuildTypeOK, Inputs, Input, Time
<1>2. S = {a, b}
  BY DEF Inputs
<1>3. NewestInput = CHOOSE x \in S : \A y \in S : x >= y
  BY DEF NewestInput, Max
<1> HIDE DEF a, b, S
<1>4. \E x \in S : \A y \in S : x >= y
  BY <1>1, <1>2
<1>5. NewestInput \in S /\ \A y \in S : NewestInput >= y
  BY <1>3, <1>4
<1>6. \A y \in S : y <= NewestInput
  BY <1>1, <1>2, <1>5
<1> QED
  BY <1>5, <1>6 DEF S

LEMMA OldestOutputBounds ==
    ASSUME BuildTypeOK, result # None, source # None, \A s \in Sides : bins[s] # None
    PROVE  /\ \/ OldestOutput = result.mtime
              \/ OldestOutput = source.mtime
              \/ \E s \in Sides : OldestOutput = bins[s].mtime
           /\ OldestOutput <= result.mtime
<1> DEFINE a == result.mtime
           b == source.mtime
           c == bins["reference"].mtime
           d == bins["candidate"].mtime
           S == {result.mtime} \cup OutputTimes
<1>1. a \in Nat /\ b \in Nat /\ c \in Nat /\ d \in Nat
  BY DEF BuildTypeOK, Sides, Stamped, Binary, BuildRecord, Time
<1>2. S = {a, b, c, d}
  BY DEF OutputTimes, Sides
<1>3. OldestOutput = CHOOSE x \in S : \A y \in S : x =< y
  BY DEF OldestOutput, Min
<1> HIDE DEF a, b, c, d, S
<1>4. \E x \in S : \A y \in S : x =< y
  <2>1. PICK x \in {a, b} : x <= a /\ x <= b
    BY <1>1
  <2>2. PICK y \in {c, d} : y <= c /\ y <= d
    BY <1>1
  <2>3. CASE x <= y
    BY <1>1, <1>2, <2>1, <2>2, <2>3
  <2>4. CASE y <= x
    BY <1>1, <1>2, <2>1, <2>2, <2>4
  <2> QED
    BY <1>1, <2>1, <2>2, <2>3, <2>4
<1>5. OldestOutput \in S /\ \A y \in S : OldestOutput =< y
  BY <1>3, <1>4
<1>6. OldestOutput \in {a, b, c, d} /\ OldestOutput <= a
  BY <1>2, <1>5
<1> QED
  BY <1>6 DEF a, b, c, d, Sides

LEMMA BuildInitInv ==
    ASSUME BuildInit
    PROVE  BuildInv
<1>1. PICK t \in Texts : inputs = [i \in Inputs |-> [text |-> t, mtime |-> 0, written |-> 0]]
  BY DEF BuildInit
<1>2. /\ clock = 0 /\ source = None /\ bins = [s \in Sides |-> None] /\ result = None
      /\ stage = "idle" /\ fp = None /\ started = 0 /\ toolText = None
      /\ edits = 0 /\ builds = 0
  BY DEF BuildInit
<1>3. failed = FALSE
  BY DEF BuildInit
<1>4. dirty = FALSE
  BY DEF BuildInit
<1>5. failed \in BOOLEAN /\ dirty \in BOOLEAN
  BY <1>3, <1>4
<1>6. /\ inputs \in [Inputs -> Input]
      /\ \A i \in Inputs : inputs[i].mtime = 0 /\ inputs[i].written = 0
  BY <1>1 DEF Input, Time
<1>7. BuildTypeOK
  BY <1>2, <1>5, <1>6, BuildAssumption DEF BuildTypeOK, Time
<1>8. StagesHaveInputs
  BY <1>2 DEF StagesHaveInputs
<1>9. TimesAreDistinct
  BY <1>2, <1>6 DEF TimesAreDistinct, Untouched
<1>10. MadeSoFar
  BY <1>2 DEF MadeSoFar
<1>11. ~ BuildStatusOk
  BY <1>2 DEF BuildStatusOk
<1>12. RecordVouches /\ DirectoryIsConsistent
  BY <1>11 DEF RecordVouches, DirectoryIsConsistent
<1> QED
  BY <1>7, <1>8, <1>9, <1>10, <1>12 DEF BuildInv

\* Times stay distinct in a step that writes no input and no result.
LEMMA TimesKept ==
    ASSUME BuildInv, UNCHANGED inputs, UNCHANGED result,
           clock' \in {clock, clock + 1}, started' \in Nat, started' <= clock',
           stage' = "lookup" /\ result # None => result.started <= started'
    PROVE  TimesAreDistinct'
<1>1. /\ clock \in Nat /\ \A i \in Inputs : inputs[i].written \in Nat
      /\ result # None => result.mtime \in Nat /\ result.started \in Nat
  BY DEF BuildInv, BuildTypeOK, Input, BuildRecord, Time
<1>2. Untouched(clock')
  BY <1>1 DEF BuildInv, TimesAreDistinct, Untouched
<1>3. Untouched(clock)'
  BY <1>2 DEF Untouched
<1> QED
  BY <1>1, <1>3 DEF BuildInv, TimesAreDistinct

\* Past the lookup the record on the disk vouches for nothing, and what is not touched does
\* not change that.
LEMMA BuildingVouchesNothing ==
    ASSUME BuildInv, UNCHANGED inputs, UNCHANGED result,
           stage \notin {"idle", "lookup"}
    PROVE  RecordVouches'
<1>1. ~ (BuildStatusOk /\ Untouched(result.started))
  BY DEF BuildInv, RecordVouches
<1>2. ~ (BuildStatusOk /\ Untouched(result.started))'
  BY <1>1 DEF BuildStatusOk, Untouched
<1> QED
  BY <1>2 DEF RecordVouches

\* A lookup misses only if an input was put in place after the recorded build began.
LEMMA MissIsTouched ==
    ASSUME BuildInv, stage = "lookup", ~ Cached
    PROVE  ~ (BuildStatusOk /\ Untouched(result.started))
<1> SUFFICES ASSUME BuildStatusOk, Untouched(result.started)
             PROVE  Cached
  OBVIOUS
<1> USE DEF BuildInv
<1>1. /\ result # None /\ ~ result.torn /\ result.status = "ok"
  BY DEF BuildStatusOk
<1>2. /\ result.fp = Current /\ source # None /\ source.mtime > result.started
      /\ \A s \in Sides : bins[s] # None /\ bins[s].mtime > result.started
  BY DEF RecordVouches
<1>3. result.started <= started /\ result.started < result.mtime
  BY <1>1 DEF TimesAreDistinct
<1>4. /\ result.started \in Nat /\ result.mtime \in Nat /\ started \in Nat
      /\ source.mtime \in Nat
      /\ \A i \in Inputs : inputs[i].mtime \in Nat /\ inputs[i].written \in Nat
      /\ \A s \in Sides : bins[s].mtime \in Nat
  BY <1>1, <1>2 DEF BuildTypeOK, BuildRecord, Input, Stamped, Binary, Time
<1>5. Untouched(started)
  BY <1>3, <1>4 DEF Untouched
<1>6. fp = Current
  BY <1>5 DEF MadeSoFar
<1>7. PICK i \in Inputs : NewestInput = inputs[i].mtime
  BY NewestInputBounds
<1>8. OldestOutput \in Nat /\ OldestOutput > result.started
  BY <1>1, <1>2, <1>3, <1>4, OldestOutputBounds
<1>9. inputs[i].mtime <= inputs[i].written /\ inputs[i].written <= result.started
  BY <1>7 DEF TimesAreDistinct, Untouched
<1>10. OldestOutput >= NewestInput
  BY <1>4, <1>7, <1>8, <1>9
<1> QED
  BY <1>1, <1>2, <1>6, <1>10 DEF Cached

\* The directory is as good as it was if nothing in it changes and no build is under way.
LEMMA DirectoryKept ==
    ASSUME BuildInv, UNCHANGED disk, UNCHANGED dirty,
           stage \in {"idle", "lookup"}, stage' \in {"idle", "lookup"}
    PROVE  RecordVouches' /\ DirectoryIsConsistent'
<1>1. UNCHANGED <<inputs, source, bins, result>>
  BY DEF disk
<1>2. UNCHANGED BuildStatusOk /\ UNCHANGED UpToDate /\ UNCHANGED Current
  BY <1>1 DEF BuildStatusOk, UpToDate, Current
<1>3. RecordVouches'
  BY <1>1, <1>2 DEF BuildInv, RecordVouches, Untouched
<1>4. DirectoryIsConsistent'
  BY <1>1, <1>2 DEF BuildInv, DirectoryIsConsistent
<1> QED
  BY <1>3, <1>4

\* A build that is over has no fingerprints and no stage that needs an input.
LEMMA ReturnedHasNoStage ==
    ASSUME Return
    PROVE  /\ stage' = "idle" /\ started' = 0 /\ fp' = None /\ toolText' = None
           /\ failed' \in BOOLEAN
           /\ StagesHaveInputs' /\ MadeSoFar'
<1>1. stage' = "idle" /\ started' = 0 /\ fp' = None /\ toolText' = None
  BY DEF Return
<1>2. failed' = FALSE
  BY DEF Return
<1>3. StagesHaveInputs'
  BY <1>1 DEF StagesHaveInputs
<1>4. MadeSoFar'
  BY <1>1 DEF MadeSoFar
<1> QED
  BY <1>1, <1>2, <1>3, <1>4

LEMMA TakeFingerprintsPreserves ==
    ASSUME BuildInv, TakeFingerprints
    PROVE  BuildInv'
<1> USE DEF BuildInv
<1>1. /\ stage = "idle" /\ stage' = "lookup" /\ fp' = Current /\ started' = clock
      /\ builds < MaxBuilds /\ builds' = builds + 1
      /\ UNCHANGED disk /\ UNCHANGED <<clock, toolText, edits>>
      /\ UNCHANGED failed /\ UNCHANGED dirty
  BY DEF TakeFingerprints
<1>2. UNCHANGED <<inputs, source, bins, result>>
  BY <1>1 DEF disk
<1>3. Current \in Fingerprints
  BY DEF BuildTypeOK, Current, Fingerprints, Input
<1>4. failed' \in BOOLEAN /\ dirty' \in BOOLEAN
  BY <1>1 DEF BuildTypeOK
<1>5. builds' \in 0 .. MaxBuilds
  BY <1>1, BuildAssumption DEF BuildTypeOK
<1>6. BuildTypeOK'
  BY <1>1, <1>2, <1>3, <1>4, <1>5 DEF BuildTypeOK
<1>7. StagesHaveInputs'
  BY <1>1, <1>3 DEF StagesHaveInputs
<1>8. TimesAreDistinct'
  <2>1. result # None => result.started <= clock
    BY DEF TimesAreDistinct, BuildTypeOK, BuildRecord, Time
  <2>2. clock \in Nat
    BY DEF BuildTypeOK, Time
  <2> QED
    BY <1>1, <1>2, <2>1, <2>2, TimesKept
<1>9. MadeSoFar'
  BY <1>1, <1>2 DEF MadeSoFar, Current
<1>10. RecordVouches' /\ DirectoryIsConsistent'
  BY <1>1, DirectoryKept
<1> QED
  BY <1>6, <1>7, <1>8, <1>9, <1>10

LEMMA HitPreserves ==
    ASSUME BuildInv, Hit
    PROVE  BuildInv'
<1> USE DEF BuildInv
<1>1. /\ stage = "lookup" /\ Return
      /\ UNCHANGED disk /\ UNCHANGED clock /\ UNCHANGED counters /\ UNCHANGED dirty
  BY DEF Hit
<1>2. UNCHANGED <<inputs, source, bins, result, edits, builds>>
  BY <1>1 DEF disk, counters
<1>3. stage' = "idle" /\ started' = 0 /\ fp' = None /\ toolText' = None /\ failed' \in BOOLEAN
  BY <1>1, ReturnedHasNoStage
<1>4. dirty' \in BOOLEAN
  BY <1>1 DEF BuildTypeOK
<1>5. BuildTypeOK'
  BY <1>1, <1>2, <1>3, <1>4 DEF BuildTypeOK, Time
<1>6. StagesHaveInputs' /\ MadeSoFar'
  BY <1>1, ReturnedHasNoStage
<1>7. TimesAreDistinct'
  <2>1. clock \in Nat
    BY DEF BuildTypeOK, Time
  <2> QED
    BY <1>1, <1>2, <1>3, <2>1, TimesKept
<1>8. RecordVouches' /\ DirectoryIsConsistent'
  BY <1>1, <1>3, DirectoryKept
<1> QED
  BY <1>5, <1>6, <1>7, <1>8

LEMMA MissPreserves ==
    ASSUME BuildInv, Miss
    PROVE  BuildInv'
<1> USE DEF BuildInv
<1>1. /\ stage = "lookup" /\ ~ Cached /\ stage' = "prog2c"
      /\ UNCHANGED disk /\ UNCHANGED locals /\ UNCHANGED clock /\ UNCHANGED counters
      /\ UNCHANGED dirty
  BY DEF Miss
<1>2. UNCHANGED <<inputs, source, bins, result, edits, builds, fp, started, toolText>>
  BY <1>1 DEF disk, counters, locals
<1>3. UNCHANGED failed
  BY <1>1 DEF locals
<1>4. failed' \in BOOLEAN /\ dirty' \in BOOLEAN
  BY <1>1, <1>3 DEF BuildTypeOK
<1>5. BuildTypeOK'
  BY <1>1, <1>2, <1>4 DEF BuildTypeOK
<1>6. StagesHaveInputs'
  BY <1>1, <1>2 DEF StagesHaveInputs
<1>7. TimesAreDistinct'
  <2>1. started' \in Nat /\ started' <= clock' /\ clock' = clock
    BY <1>1, <1>2 DEF BuildTypeOK, TimesAreDistinct, Time
  <2> QED
    BY <1>1, <1>2, <2>1, TimesKept
<1>8. MadeSoFar'
  BY <1>1, <1>2, <1>3 DEF MadeSoFar, Untouched, Current
<1>9. RecordVouches'
  <2>1. ~ (BuildStatusOk /\ Untouched(result.started))
    BY <1>1, MissIsTouched
  <2>2. ~ (BuildStatusOk /\ Untouched(result.started))'
    BY <1>2, <2>1 DEF BuildStatusOk, Untouched
  <2> QED
    BY <2>2 DEF RecordVouches
<1>10. DirectoryIsConsistent'
  BY <1>1 DEF DirectoryIsConsistent
<1> QED
  BY <1>5, <1>6, <1>7, <1>8, <1>9, <1>10

\* What a step of a build leaves alone, if it writes nothing but generated code or binaries.
BuildingStep ==
    /\ stage \notin {"idle", "lookup"} /\ stage' \notin {"idle", "lookup"}
    /\ UNCHANGED inputs /\ UNCHANGED result
    /\ UNCHANGED started /\ UNCHANGED fp /\ UNCHANGED dirty
    /\ UNCHANGED edits /\ UNCHANGED builds
    /\ clock' \in {clock, clock + 1}

\* Such a step preserves the invariant if it keeps the types and what has been made so far.
LEMMA BuildingStepPreserves ==
    ASSUME BuildInv, BuildingStep, BuildTypeOK', StagesHaveInputs', MadeSoFar'
    PROVE  BuildInv'
<1>1. started' \in Nat /\ started' <= clock'
  BY DEF BuildInv, BuildingStep, BuildTypeOK, TimesAreDistinct, Time
<1>2. TimesAreDistinct'
  BY <1>1, TimesKept DEF BuildingStep
<1>3. RecordVouches'
  BY BuildingVouchesNothing DEF BuildingStep
<1>4. DirectoryIsConsistent'
  BY DEF BuildingStep, DirectoryIsConsistent
<1> QED
  BY <1>2, <1>3, <1>4 DEF BuildInv

\* The type of what a building step leaves alone.
LEMMA BuildingStepType ==
    ASSUME BuildInv, BuildingStep
    PROVE  /\ clock' \in Time /\ inputs' \in [Inputs -> Input]
           /\ result' \in BuildRecord \cup {None} /\ fp' \in Fingerprints
           /\ started' \in Time /\ dirty' \in BOOLEAN
           /\ edits' \in 0 .. MaxEdits /\ builds' \in 0 .. MaxBuilds
<1>1. dirty' \in BOOLEAN
  BY DEF BuildInv, BuildTypeOK, BuildingStep
<1>2. fp' \in Fingerprints
  BY DEF BuildInv, StagesHaveInputs, BuildingStep
<1> QED
  BY <1>1, <1>2 DEF BuildInv, BuildTypeOK, BuildingStep, Time

\* The stages of build_one.
LEMMA Stages ==
    /\ Compiling["reference"] = "compiles reference"
    /\ Compiling["candidate"] = "compiles candidate"
    /\ {"idle", "lookup", "prog2c", "source", "report", "reporting"}
           \cup Sides \cup {Compiling[s] : s \in Sides}
         = {"idle", "lookup", "prog2c", "source", "report", "reporting",
            "reference", "candidate", "compiles reference", "compiles candidate"}
<1>1. /\ Compiling["reference"] = "compiles reference"
      /\ Compiling["candidate"] = "compiles candidate"
  BY DEF Compiling
<1> QED
  BY <1>1 DEF Sides

LEMMA Prog2cPreserves ==
    ASSUME BuildInv, Prog2c
    PROVE  BuildInv'
<1>1. /\ stage = "prog2c" /\ UNCHANGED disk /\ UNCHANGED clock /\ UNCHANGED dirty
      /\ UNCHANGED counters /\ UNCHANGED fp /\ UNCHANGED started
  BY DEF Prog2c
<1>2. UNCHANGED <<inputs, source, bins, result, edits, builds>>
  BY <1>1 DEF disk, counters
<1>3. \/ toolText' = inputs["generator"].text /\ stage' = "source" /\ UNCHANGED failed
      \/ failed' = TRUE /\ stage' = "report" /\ UNCHANGED toolText
  BY DEF Prog2c
<1>4. BuildingStep
  BY <1>1, <1>2, <1>3 DEF BuildingStep
<1>5. CASE toolText' = inputs["generator"].text /\ stage' = "source" /\ UNCHANGED failed
  <2>1. inputs["generator"].text \in Texts
    BY DEF BuildInv, BuildTypeOK, Input, Inputs
  <2>2. failed' \in BOOLEAN
    BY <1>5 DEF BuildInv, BuildTypeOK
  <2>3. BuildTypeOK'
    BY <1>2, <1>4, <1>5, <2>1, <2>2, BuildingStepType DEF BuildInv, BuildTypeOK
  <2>4. StagesHaveInputs'
    BY <1>4, <1>5, <2>1, BuildingStepType DEF StagesHaveInputs
  <2>5. MadeSoFar'
    BY <1>1, <1>2, <1>5 DEF BuildInv, MadeSoFar, Untouched, Current
  <2> QED
    BY <1>4, <2>3, <2>4, <2>5, BuildingStepPreserves
<1>6. CASE failed' = TRUE /\ stage' = "report" /\ UNCHANGED toolText
  <2>1. failed' /\ failed' \in BOOLEAN
    BY <1>6
  <2>2. BuildTypeOK'
    BY <1>2, <1>4, <1>6, <2>1, BuildingStepType DEF BuildInv, BuildTypeOK
  <2>3. StagesHaveInputs'
    BY <1>4, <1>6, BuildingStepType DEF StagesHaveInputs
  <2>4. MadeSoFar'
    BY <1>1, <1>2, <1>6, <2>1 DEF BuildInv, MadeSoFar, Untouched, Current
  <2> QED
    BY <1>4, <2>2, <2>3, <2>4, BuildingStepPreserves
<1> QED
  BY <1>3, <1>5, <1>6

LEMMA WriteSourcePreserves ==
    ASSUME BuildInv, WriteSource
    PROVE  BuildInv'
<1>1. /\ stage = "source" /\ stage' = "reference" /\ clock' = clock + 1
      /\ source' = [text |-> toolText, mtime |-> clock + 1]
      /\ UNCHANGED <<inputs, bins, result>> /\ UNCHANGED dirty /\ UNCHANGED counters
      /\ UNCHANGED locals
  BY DEF WriteSource
<1>2. UNCHANGED <<edits, builds, fp, started, toolText>>
  BY <1>1 DEF counters, locals
<1>3. UNCHANGED failed
  BY <1>1 DEF locals
<1>4. BuildingStep
  BY <1>1, <1>2 DEF BuildingStep
<1>5. toolText \in Texts /\ clock \in Nat /\ started \in Nat /\ started <= clock
  BY <1>1 DEF BuildInv, BuildTypeOK, StagesHaveInputs, TimesAreDistinct, Time
<1>6. source' \in Stamped /\ source' # None
  BY <1>1, <1>5, NoneAssumption DEF Stamped, Time
<1>7. failed' \in BOOLEAN
  BY <1>3 DEF BuildInv, BuildTypeOK
<1>8. BuildTypeOK'
  BY <1>1, <1>2, <1>4, <1>6, <1>7, Stages, BuildingStepType DEF BuildInv, BuildTypeOK
<1>9. StagesHaveInputs'
  BY <1>1, <1>4, <1>6, BuildingStepType DEF StagesHaveInputs
<1>10. source'.mtime > started /\ (Untouched(started) => source'.text = inputs["generator"].text)
  BY <1>1, <1>5 DEF BuildInv, MadeSoFar
<1>11. SourceMade'
  BY <1>1, <1>2, <1>6, <1>10 DEF SourceMade, Untouched
<1>12. MadeSoFar'
  BY <1>1, <1>2, <1>11 DEF BuildInv, MadeSoFar, Untouched, Current
<1> QED
  BY <1>4, <1>8, <1>9, <1>12, BuildingStepPreserves

LEMMA StartCompilerPreserves ==
    ASSUME BuildInv, NEW s \in Sides, StartCompiler(s)
    PROVE  BuildInv'
<1>1. /\ stage = s /\ toolText' = inputs["tracer"].text /\ stage' = Compiling[s]
      /\ UNCHANGED disk /\ UNCHANGED clock /\ UNCHANGED dirty /\ UNCHANGED counters
      /\ UNCHANGED fp /\ UNCHANGED started /\ UNCHANGED failed
  BY DEF StartCompiler
<1>2. UNCHANGED <<inputs, source, bins, result, edits, builds>>
  BY <1>1 DEF disk, counters
<1>3. \/ stage = "reference" /\ stage' = "compiles reference"
      \/ stage = "candidate" /\ stage' = "compiles candidate"
  BY <1>1, Stages DEF Sides
<1>4. BuildingStep
  BY <1>1, <1>2, <1>3 DEF BuildingStep
<1>5. toolText' \in Texts
  BY <1>1 DEF BuildInv, BuildTypeOK, Input, Inputs
<1>6. failed' \in BOOLEAN
  BY <1>1 DEF BuildInv, BuildTypeOK
<1>7. BuildTypeOK'
  BY <1>2, <1>3, <1>4, <1>5, <1>6, Stages, BuildingStepType DEF BuildInv, BuildTypeOK
<1>8. StagesHaveInputs'
  BY <1>2, <1>3, <1>4, <1>5, BuildingStepType DEF BuildInv, StagesHaveInputs
<1>9. MadeSoFar'
  BY <1>1, <1>2, <1>3
     DEF BuildInv, MadeSoFar, Untouched, Current, SourceMade, BinaryMade
<1> QED
  BY <1>4, <1>7, <1>8, <1>9, BuildingStepPreserves

\* A side that has been compiled, or not, is followed by the next one or by the report.
LEMMA CompilerStages ==
    ASSUME NEW s \in Sides, stage = Compiling[s], stage' = AfterCompiler(s)
    PROVE  \/ /\ s = "reference" /\ stage = "compiles reference"
              /\ stage' = "candidate"
           \/ /\ s = "candidate" /\ stage = "compiles candidate"
              /\ stage' = "report"
  BY Stages DEF Sides, AfterCompiler

\* The binary that a compiler leaves, whole or not.
LEMMA BinaryType ==
    ASSUME BuildInv, NEW s \in Sides, stage = Compiling[s], NEW b \in BOOLEAN
    PROVE  [source |-> source.text, tracer |-> toolText, torn |-> b, mtime |-> clock + 1] \in Binary
<1>1. stage \in {"compiles reference", "compiles candidate"}
  BY Stages DEF Sides
<1>2. source \in Stamped /\ toolText \in Texts /\ clock \in Nat
  BY <1>1 DEF BuildInv, BuildTypeOK, StagesHaveInputs, Time
<1> QED
  BY <1>2 DEF Binary, Stamped, Time

LEMMA CompilerEndsPreserves ==
    ASSUME BuildInv, NEW s \in Sides, CompilerEnds(s)
    PROVE  BuildInv'
<1> DEFINE new == [source |-> source.text, tracer |-> toolText,
                   torn |-> FALSE, mtime |-> clock + 1]
<1>1. /\ stage = Compiling[s] /\ stage' = AfterCompiler(s) /\ clock' = clock + 1
      /\ bins' = [bins EXCEPT ![s] = new]
      /\ UNCHANGED <<inputs, source, result>> /\ UNCHANGED dirty /\ UNCHANGED counters
      /\ UNCHANGED locals
  BY DEF CompilerEnds
<1>2. UNCHANGED <<edits, builds, fp, started, toolText>>
  BY <1>1 DEF counters, locals
<1>3. UNCHANGED failed
  BY <1>1 DEF locals
<1>4. \/ s = "reference" /\ stage = "compiles reference" /\ stage' = "candidate"
      \/ s = "candidate" /\ stage = "compiles candidate" /\ stage' = "report"
  BY <1>1, CompilerStages
<1>5. BuildingStep
  BY <1>1, <1>2, <1>4 DEF BuildingStep
<1>6. new \in Binary
  BY <1>1, BinaryType
<1>7. /\ ~ new.torn /\ new.mtime = clock + 1
      /\ new.source = source.text /\ new.tracer = toolText
  OBVIOUS
<1> HIDE DEF new
<1>8. new # None
  BY <1>6, NoneAssumption
<1>9. bins \in [Sides -> Binary \cup {None}]
  BY DEF BuildInv, BuildTypeOK
<1>10. /\ bins' \in [Sides -> Binary \cup {None}] /\ bins'[s] = new
       /\ \A r \in Sides : r # s => bins'[r] = bins[r]
  BY <1>1, <1>6, <1>9
<1>11. failed' \in BOOLEAN
  BY <1>3 DEF BuildInv, BuildTypeOK
<1>12. BuildTypeOK'
  BY <1>1, <1>2, <1>4, <1>5, <1>10, <1>11, Stages, BuildingStepType DEF BuildInv, BuildTypeOK
<1>13. StagesHaveInputs'
  BY <1>1, <1>2, <1>4, <1>5, BuildingStepType DEF BuildInv, StagesHaveInputs
<1>14. clock \in Nat /\ started \in Nat /\ started <= clock
  BY DEF BuildInv, BuildTypeOK, TimesAreDistinct, Time
<1>15. BinaryMade(s)'
  <2>1. inputs["tracer"].written <= started => toolText = inputs["tracer"].text
    BY <1>4 DEF BuildInv, MadeSoFar
  <2> QED
    BY <1>1, <1>2, <1>7, <1>8, <1>10, <1>14, <2>1 DEF BinaryMade
<1>16. ~ failed => SourceMade'
  BY <1>1, <1>2, <1>4 DEF BuildInv, MadeSoFar, SourceMade, Untouched
<1>17. ~ failed /\ s = "candidate" => BinaryMade("reference")'
  <2>1. ~ failed /\ s = "candidate" => BinaryMade("reference")
    BY <1>4 DEF BuildInv, MadeSoFar
  <2>2. s = "candidate" => bins'["reference"] = bins["reference"]
    BY <1>10 DEF Sides
  <2> QED
    BY <1>1, <1>2, <2>1, <2>2 DEF BinaryMade
<1>18. MadeSoFar'
  <2>1. Untouched(started) => fp = Current
    BY <1>4 DEF BuildInv, MadeSoFar
  <2>2. Untouched(started)' => fp' = Current'
    BY <1>1, <1>2, <2>1 DEF Untouched, Current
  <2> QED
    BY <1>3, <1>4, <1>15, <1>16, <1>17, <2>2 DEF MadeSoFar
<1> QED
  BY <1>5, <1>12, <1>13, <1>18, BuildingStepPreserves

\* A build that has failed has nothing to show for it but a report of the failure.
LEMMA FailurePreserves ==
    ASSUME BuildInv, UNCHANGED disk, UNCHANGED clock, UNCHANGED dirty, UNCHANGED counters,
           UNCHANGED <<fp, started, toolText>>, failed' = TRUE,
           stage \in {"reference", "candidate", "compiles reference", "compiles candidate"},
           stage' \in {"candidate", "report"}
    PROVE  BuildInv'
<1>1. UNCHANGED <<inputs, source, bins, result, edits, builds>>
  BY DEF disk, counters
<1>2. failed' /\ failed' \in BOOLEAN
  OBVIOUS
<1>3. BuildingStep
  BY <1>1 DEF BuildingStep
<1>4. BuildTypeOK'
  BY <1>1, <1>2, <1>3, Stages, BuildingStepType DEF BuildInv, BuildTypeOK
<1>5. StagesHaveInputs'
  BY <1>1, <1>3, BuildingStepType DEF BuildInv, StagesHaveInputs
<1>6. MadeSoFar'
  <2>1. Untouched(started) => fp = Current
    BY DEF BuildInv, MadeSoFar
  <2>2. Untouched(started)' => fp' = Current'
    BY <1>1, <2>1 DEF Untouched, Current
  <2> QED
    BY <1>2, <2>2 DEF MadeSoFar
<1> QED
  BY <1>3, <1>4, <1>5, <1>6, BuildingStepPreserves

LEMMA CompilerFailsPreserves ==
    ASSUME BuildInv, NEW s \in Sides, CompilerFails(s)
    PROVE  BuildInv'
<1>1. /\ stage = Compiling[s] /\ stage' = AfterCompiler(s) /\ failed' = TRUE
      /\ UNCHANGED disk /\ UNCHANGED clock /\ UNCHANGED dirty /\ UNCHANGED counters
      /\ UNCHANGED <<fp, started, toolText>>
  BY DEF CompilerFails
<1>2. /\ stage \in {"compiles reference", "compiles candidate"}
      /\ stage' \in {"candidate", "report"}
  BY <1>1, CompilerStages
<1> QED
  BY <1>1, <1>2, FailurePreserves

LEMMA NoCompilerPreserves ==
    ASSUME BuildInv, NEW s \in Sides, NoCompiler(s)
    PROVE  BuildInv'
<1>1. /\ stage = s /\ stage' = "report" /\ failed' = TRUE
      /\ UNCHANGED disk /\ UNCHANGED clock /\ UNCHANGED dirty /\ UNCHANGED counters
      /\ UNCHANGED <<fp, started, toolText>>
  BY DEF NoCompiler
<1>2. stage \in {"reference", "candidate"}
  BY <1>1 DEF Sides
<1> QED
  BY <1>1, <1>2, FailurePreserves

\* A record that is being written vouches for nothing.
LEMMA StartReportPreserves ==
    ASSUME BuildInv, StartReport
    PROVE  BuildInv'
<1> USE DEF BuildInv
<1>1. /\ stage = "report" /\ stage' = "reporting" /\ clock' = clock + 1
      /\ result' = BuildResult
      /\ UNCHANGED <<inputs, source, bins>> /\ UNCHANGED locals
      /\ UNCHANGED dirty /\ UNCHANGED counters
  BY DEF StartReport
<1>2. UNCHANGED <<edits, builds, fp, started, toolText>>
  BY <1>1 DEF counters, locals
<1>3. UNCHANGED failed
  BY <1>1 DEF locals
<1>4. /\ clock \in Nat /\ started \in Nat /\ started <= clock /\ fp \in Fingerprints
      /\ \A i \in Inputs : inputs[i].mtime \in Nat /\ inputs[i].mtime <= clock
      /\ \A i \in Inputs : inputs[i].written \in Nat /\ inputs[i].written <= clock
                          /\ inputs[i].mtime <= inputs[i].written
  <2>1. clock \in Nat /\ started \in Nat /\ started <= clock
    BY DEF BuildTypeOK, TimesAreDistinct, Time
  <2>2. fp \in Fingerprints
    BY <1>1 DEF StagesHaveInputs
  <2>3. \A i \in Inputs : inputs[i].mtime \in Nat /\ inputs[i].written \in Nat
    BY DEF BuildTypeOK, Input, Time
  <2>4. \A i \in Inputs : inputs[i].mtime <= inputs[i].written /\ inputs[i].written <= clock
    BY DEF TimesAreDistinct, Untouched
  <2> QED
    BY <2>1, <2>2, <2>3, <2>4
<1>5. failed' \in BOOLEAN /\ dirty' \in BOOLEAN
  BY <1>1, <1>3 DEF BuildTypeOK
<1>6. BuildResult \in BuildRecord
  <2>1. (IF failed THEN "build_failure" ELSE "ok") \in {"ok", "build_failure"}
    OBVIOUS
  <2> QED
    BY <1>4, <2>1 DEF BuildResult, BuildRecord, Time
<1>7. /\ result'.torn /\ result'.fp = fp /\ result'.started = started
      /\ result'.mtime = clock + 1
      /\ result'.status = "ok" => ~ failed
  BY <1>1 DEF BuildResult
<1>8. result' \in BuildRecord /\ result' # None
  BY <1>1, <1>6, NoneAssumption
<1>9. BuildTypeOK'
  BY <1>1, <1>2, <1>4, <1>5, <1>8 DEF BuildTypeOK, Time
<1>10. StagesHaveInputs'
  BY <1>1, <1>2, <1>4, <1>8 DEF StagesHaveInputs
<1>11. TimesAreDistinct'
  <2>1. UNCHANGED <<inputs, started>>
    BY <1>1, <1>2
  <2>2. clock' = clock + 1 /\ stage' = "reporting"
    BY <1>1
  <2>3. Untouched(clock)' /\ started' <= clock'
    BY <1>4, <2>1, <2>2 DEF Untouched
  <2>4. result'.started < result'.mtime /\ result'.mtime <= clock'
    BY <1>4, <1>7, <2>2
  <2>5. \A i \in Inputs : inputs'[i].written # result'.mtime
    BY <1>4, <1>7, <2>1
  <2>6. \A i \in Inputs : inputs'[i].mtime <= inputs'[i].written
    BY <1>4, <2>1
  <2> QED
    BY <2>2, <2>3, <2>4, <2>5, <2>6 DEF TimesAreDistinct
<1>12. MadeSoFar'
  BY <1>1, <1>2, <1>3, <1>7
     DEF MadeSoFar, Untouched, Current, SourceMade, BinaryMade
<1>13. ~ BuildStatusOk'
  BY <1>7 DEF BuildStatusOk
<1>14. RecordVouches' /\ DirectoryIsConsistent'
  BY <1>13 DEF RecordVouches, DirectoryIsConsistent
<1> QED
  BY <1>9, <1>10, <1>11, <1>12, <1>14

\* A record that is written vouches for what its build has made.
LEMMA EndReportPreserves ==
    ASSUME BuildInv, EndReport
    PROVE  BuildInv'
<1> USE DEF BuildInv
<1>1. /\ stage = "reporting" /\ clock' = clock + 1 /\ Return
      /\ result' = [result EXCEPT !.torn = FALSE, !.mtime = clock + 1]
      /\ UNCHANGED <<inputs, source, bins>> /\ UNCHANGED counters
  BY DEF EndReport
<1>2. dirty' = FALSE
  BY DEF EndReport
<1>3. UNCHANGED <<edits, builds>>
  BY <1>1 DEF counters
<1>4. stage' = "idle" /\ started' = 0 /\ fp' = None /\ toolText' = None /\ failed' \in BOOLEAN
  BY <1>1, ReturnedHasNoStage
<1>5. /\ clock \in Nat /\ started \in Nat /\ started <= clock /\ fp \in Fingerprints
      /\ \A i \in Inputs : inputs[i].written \in Nat /\ inputs[i].written <= clock
      /\ result \in BuildRecord
  BY <1>1 DEF BuildTypeOK, TimesAreDistinct, StagesHaveInputs, Untouched, Input, Time
<1>6. dirty' \in BOOLEAN
  BY <1>2
<1>7. /\ result' \in BuildRecord /\ ~ result'.torn /\ result'.mtime = clock + 1
      /\ result'.fp = result.fp /\ result'.started = result.started
      /\ result'.status = result.status
  <2>1. result' = [status |-> result.status, fp |-> result.fp, torn |-> FALSE,
                   mtime |-> clock + 1, started |-> result.started]
    BY <1>1, <1>5 DEF BuildRecord
  <2>2. /\ result.status \in {"ok", "build_failure"} /\ result.fp \in Fingerprints
        /\ result.started \in Nat
    BY <1>5 DEF BuildRecord, Time
  <2>3. result' \in BuildRecord
    BY <1>5, <2>1, <2>2 DEF BuildRecord, Time
  <2> QED
    BY <2>1, <2>3
<1>8. /\ result'.fp = fp /\ result'.started = started
      /\ result'.status = "ok" => ~ failed
  BY <1>1, <1>7 DEF MadeSoFar
<1>9. BuildTypeOK'
  BY <1>1, <1>3, <1>4, <1>5, <1>6, <1>7 DEF BuildTypeOK, Time
<1>10. StagesHaveInputs' /\ MadeSoFar'
  BY <1>1, ReturnedHasNoStage
<1>11. TimesAreDistinct'
  BY <1>1, <1>4, <1>5, <1>7, <1>8 DEF TimesAreDistinct, Untouched
<1>12. ASSUME BuildStatusOk'
       PROVE  SourceMade /\ \A s \in Sides : BinaryMade(s)
  <2>1. ~ failed
    BY <1>8, <1>12 DEF BuildStatusOk
  <2> QED
    BY <1>1, <2>1 DEF MadeSoFar, Sides
<1>13. RecordVouches'
  <2> SUFFICES ASSUME BuildStatusOk', Untouched(result.started)'
               PROVE  /\ stage' \in {"idle", "lookup"}
                      /\ result'.fp = Current'
                      /\ source' # None /\ source'.mtime > result'.started
                      /\ \A s \in Sides : bins'[s] # None /\ bins'[s].mtime > result'.started
                      /\ UpToDate'
    BY DEF RecordVouches
  <2>1. Untouched(started)
    BY <1>1, <1>8 DEF Untouched
  <2>2. result'.fp = Current'
    BY <1>1, <1>8, <2>1 DEF MadeSoFar, Current
  <2>3. /\ source # None /\ source.mtime > started
        /\ source.text = inputs["generator"].text
    BY <1>12, <2>1 DEF SourceMade
  <2>4. \A s \in Sides :
          /\ bins[s] # None /\ bins[s].mtime > started /\ ~ bins[s].torn
          /\ bins[s].source = source.text
          /\ bins[s].tracer = inputs["tracer"].text
    BY <1>12, <2>1 DEF BinaryMade, Untouched, Inputs
  <2>5. UpToDate'
    BY <1>1, <2>3, <2>4 DEF UpToDate
  <2> QED
    BY <1>1, <1>4, <1>8, <2>2, <2>3, <2>4, <2>5
<1>14. DirectoryIsConsistent'
  <2> SUFFICES ASSUME BuildStatusOk'
               PROVE  /\ \A s \in Sides : /\ bins'[s] # None /\ ~ bins'[s].torn
                                          /\ bins'[s].source = source'.text
                      /\ \/ bins'["reference"].tracer = bins'["candidate"].tracer
                         \/ inputs'["tracer"].written > result'.started
    BY DEF DirectoryIsConsistent
  <2>1. \A s \in Sides : bins[s] # None /\ ~ bins[s].torn /\ bins[s].source = source.text
    BY <1>12 DEF BinaryMade
  <2>2. inputs["tracer"].written <= started =>
          bins["reference"].tracer = bins["candidate"].tracer
    BY <1>12 DEF BinaryMade, Sides
  <2>3. inputs["tracer"].written <= started \/ inputs["tracer"].written > started
    BY <1>5 DEF Inputs
  <2> QED
    BY <1>1, <1>8, <2>1, <2>2, <2>3
<1> QED
  BY <1>9, <1>10, <1>11, <1>13, <1>14

\* An interrupted build leaves what it has written; a directory that it has written to counts
\* as dirty, and the record in it vouches for nothing that could be accepted.
LEMMA InterruptPreserves ==
    ASSUME BuildInv, Interrupt
    PROVE  BuildInv'
<1> USE DEF BuildInv
<1>1. /\ stage # "idle" /\ Return /\ UNCHANGED <<inputs, source, result>>
      /\ UNCHANGED counters
  BY DEF Interrupt
<1>2. dirty' = (dirty \/ stage # "lookup")
  BY DEF Interrupt
<1>3. UNCHANGED <<edits, builds>>
  BY <1>1 DEF counters
<1>4. stage' = "idle" /\ started' = 0 /\ fp' = None /\ toolText' = None /\ failed' \in BOOLEAN
  BY <1>1, ReturnedHasNoStage
<1>5. dirty' \in BOOLEAN
  BY <1>2
<1>6. clock \in Nat /\ bins \in [Sides -> Binary \cup {None}]
  BY DEF BuildTypeOK, Time
<1>7. /\ clock' \in {clock, clock + 1} /\ bins' \in [Sides -> Binary \cup {None}]
      /\ stage = "lookup" => bins' = bins
  <2>1. CASE UNCHANGED <<clock, bins>>
    BY <1>6, <2>1
  <2>2. ASSUME NEW s \in Sides, stage = Compiling[s], clock' = clock + 1,
               bins' = [bins EXCEPT ![s] = [source |-> source.text, tracer |-> toolText,
                                            torn |-> TRUE, mtime |-> clock + 1]]
        PROVE  /\ clock' \in {clock, clock + 1} /\ bins' \in [Sides -> Binary \cup {None}]
               /\ stage # "lookup"
    <3>1. [source |-> source.text, tracer |-> toolText, torn |-> TRUE, mtime |-> clock + 1]
            \in Binary
      BY <2>2, BinaryType
    <3>2. stage \in {"compiles reference", "compiles candidate"}
      BY <2>2, Stages DEF Sides
    <3> QED
      BY <1>6, <2>2, <3>1, <3>2
  <2> QED
    BY <2>1, <2>2 DEF Interrupt
<1>8. BuildTypeOK'
  BY <1>1, <1>3, <1>4, <1>5, <1>6, <1>7 DEF BuildTypeOK, Time
<1>9. StagesHaveInputs' /\ MadeSoFar'
  BY <1>1, ReturnedHasNoStage
<1>10. TimesAreDistinct'
  BY <1>1, <1>4, <1>6, <1>7, TimesKept
<1>11. CASE stage = "lookup"
  <2>1. UNCHANGED disk
    BY <1>1, <1>7, <1>11 DEF disk
  <2>2. dirty' = dirty
    <3>1. dirty \in BOOLEAN
      BY DEF BuildTypeOK
    <3> QED
      BY <1>2, <1>11, <3>1
  <2> QED
    BY <1>4, <1>8, <1>9, <1>10, <1>11, <2>1, <2>2, DirectoryKept
<1>12. CASE stage # "lookup"
  <2>1. dirty'
    BY <1>2, <1>12
  <2>2. RecordVouches'
    BY <1>1, <1>12, BuildingVouchesNothing
  <2>3. DirectoryIsConsistent'
    BY <2>1 DEF DirectoryIsConsistent
  <2> QED
    BY <1>8, <1>9, <1>10, <2>2, <2>3
<1> QED
  BY <1>11, <1>12

\* An input that is put in place is so after everything else, whatever its own time, so that
\* nothing is promised of it.
LEMMA EditPreserves ==
    ASSUME BuildInv, NEW i \in Inputs, NEW t \in Texts, Edit(i, t)
    PROVE  BuildInv'
<1> USE DEF BuildInv
<1>1. /\ edits < MaxEdits /\ edits' = edits + 1 /\ clock' = clock + 1
      /\ UNCHANGED <<source, bins, result, stage, builds>>
      /\ UNCHANGED locals /\ UNCHANGED dirty
  BY DEF Edit
<1>0. PICK m \in {0, clock + 1} :
        inputs' = [inputs EXCEPT ![i] = [text |-> t, mtime |-> m, written |-> clock + 1]]
  BY DEF Edit
<1>2. UNCHANGED <<fp, started, toolText>>
  BY <1>1 DEF locals
<1>3. UNCHANGED failed
  BY <1>1 DEF locals
<1>4. clock \in Nat /\ started \in Nat /\ started <= clock /\ inputs \in [Inputs -> Input]
  BY DEF BuildTypeOK, TimesAreDistinct, Time
<1>5. [text |-> t, mtime |-> m, written |-> clock + 1] \in Input
  BY <1>4 DEF Input, Time
<1>6. /\ inputs' \in [Inputs -> Input]
      /\ inputs'[i].written = clock + 1 /\ inputs'[i].mtime = m
      /\ \A j \in Inputs : j # i => inputs'[j] = inputs[j]
  BY <1>0, <1>4, <1>5
<1>7. failed' \in BOOLEAN /\ dirty' \in BOOLEAN
  BY <1>1, <1>3 DEF BuildTypeOK
<1>8. edits' \in 0 .. MaxEdits
  BY <1>1, BuildAssumption DEF BuildTypeOK
<1>9. BuildTypeOK'
  BY <1>1, <1>2, <1>4, <1>6, <1>7, <1>8 DEF BuildTypeOK, Time
<1>10. StagesHaveInputs'
  BY <1>1, <1>2 DEF StagesHaveInputs
<1>11. \A u \in Nat : u <= clock => \E j \in Inputs : ~ (inputs'[j].written <= u)
  BY <1>4, <1>6
<1>12. /\ \A j \in Inputs : inputs[j].written \in Nat /\ inputs[j].written <= clock
       /\ result # None => /\ result.started \in Nat /\ result.mtime \in Nat
                           /\ result.started < result.mtime /\ result.mtime <= clock
  BY DEF BuildTypeOK, TimesAreDistinct, Untouched, Input, BuildRecord, Time
<1>13. TimesAreDistinct'
  <2>1. \A j \in Inputs : inputs'[j].written <= clock + 1
    BY <1>4, <1>6, <1>12
  <2>2. result # None => \A j \in Inputs : inputs'[j].written # result.mtime
    BY <1>4, <1>6, <1>12 DEF TimesAreDistinct
  <2>3. Untouched(clock)' /\ started' <= clock'
    BY <1>1, <1>2, <1>4, <2>1 DEF Untouched
  <2>4. result # None => result.mtime <= clock + 1
    BY <1>4, <1>12
  <2>5. stage = "lookup" /\ result # None => result.started <= started
    BY DEF TimesAreDistinct
  <2>6. \A j \in Inputs : inputs'[j].mtime <= inputs'[j].written
    BY <1>4, <1>6 DEF TimesAreDistinct
  <2> QED
    BY <1>1, <1>2, <1>12, <2>2, <2>3, <2>4, <2>5, <2>6 DEF TimesAreDistinct
<1>14. ~ Untouched(started)'
  BY <1>2, <1>4, <1>11 DEF Untouched
<1>15. inputs'["tracer"].written <= started => inputs'["tracer"] = inputs["tracer"]
  BY <1>4, <1>6 DEF Inputs
<1>16. MadeSoFar'
  <2>1. ASSUME SourceMade
        PROVE  SourceMade'
    BY <1>1, <1>2, <1>14, <2>1 DEF SourceMade
  <2>2. ASSUME NEW s \in Sides, BinaryMade(s)
        PROVE  BinaryMade(s)'
    BY <1>1, <1>2, <1>15, <2>2 DEF BinaryMade
  <2>3. BinaryMade("reference") => BinaryMade("reference")'
    BY <2>2 DEF Sides
  <2>4. BinaryMade("candidate") => BinaryMade("candidate")'
    BY <2>2 DEF Sides
  <2> QED
    BY <1>1, <1>2, <1>3, <1>14, <1>15, <2>1, <2>3, <2>4 DEF MadeSoFar
<1>17. RecordVouches'
  <2>1. ASSUME BuildStatusOk'
        PROVE  ~ Untouched(result.started)'
    <3>1. result' = result /\ result # None
      BY <1>1, <2>1 DEF BuildStatusOk
    <3>2. result.started \in Nat /\ result.started <= clock
      BY <1>4, <1>12, <3>1
    <3>3. \E j \in Inputs : ~ (inputs'[j].written <= result.started)
      BY <1>11, <3>2
    <3> QED
      BY <3>1, <3>3 DEF Untouched
  <2> QED
    BY <2>1 DEF RecordVouches
<1>18. DirectoryIsConsistent'
  <2>1. inputs["tracer"].written > result.started /\ result # None =>
          inputs'["tracer"].written > result.started
    BY <1>4, <1>6, <1>12 DEF Inputs
  <2> QED
    BY <1>1, <2>1 DEF DirectoryIsConsistent, BuildStatusOk
<1> QED
  BY <1>9, <1>10, <1>13, <1>16, <1>17, <1>18

\* The invariant of the build directory is inductive.
THEOREM BuildInvHolds == BuildSpec => []BuildInv
<1>1. BuildInv /\ [BuildNext]_buildVars => BuildInv'
  <2> SUFFICES ASSUME BuildInv, [BuildNext]_buildVars
               PROVE  BuildInv'
    OBVIOUS
  <2>1. CASE TakeFingerprints \/ Hit \/ Miss
    BY <2>1, TakeFingerprintsPreserves, HitPreserves, MissPreserves
  <2>2. CASE Prog2c \/ WriteSource
    BY <2>2, Prog2cPreserves, WriteSourcePreserves
  <2>3. ASSUME NEW s \in Sides,
               StartCompiler(s) \/ CompilerEnds(s) \/ CompilerFails(s) \/ NoCompiler(s)
        PROVE  BuildInv'
    BY <2>3, StartCompilerPreserves, CompilerEndsPreserves, CompilerFailsPreserves,
       NoCompilerPreserves
  <2>4. CASE StartReport \/ EndReport
    BY <2>4, StartReportPreserves, EndReportPreserves
  <2>5. CASE Interrupt
    BY <2>5, InterruptPreserves
  <2>6. ASSUME NEW i \in Inputs, NEW t \in Texts, Edit(i, t)
        PROVE  BuildInv'
    BY <2>6, EditPreserves
  <2>7. CASE UNCHANGED buildVars
    <3>1. UNCHANGED <<clock, inputs, source, bins, result, stage, fp, started, toolText,
                      edits, builds>>
      BY <2>7 DEF buildVars
    <3>2. UNCHANGED failed /\ UNCHANGED dirty
      BY <2>7 DEF buildVars
    <3>3. BuildTypeOK' /\ StagesHaveInputs' /\ TimesAreDistinct'
      <4>1. BuildTypeOK'
        BY <3>1, <3>2 DEF BuildInv, BuildTypeOK
      <4>2. StagesHaveInputs'
        BY <3>1 DEF BuildInv, StagesHaveInputs
      <4>3. TimesAreDistinct'
        BY <3>1 DEF BuildInv, TimesAreDistinct, Untouched
      <4> QED
        BY <4>1, <4>2, <4>3
    <3>4. MadeSoFar'
      BY <3>1, <3>2 DEF BuildInv, MadeSoFar, Untouched, Current, SourceMade, BinaryMade
    <3>5. RecordVouches' /\ DirectoryIsConsistent'
      BY <3>1, <3>2 DEF BuildInv, RecordVouches, DirectoryIsConsistent, Untouched, Current,
                        UpToDate, BuildStatusOk
    <3> QED
      BY <3>3, <3>4, <3>5 DEF BuildInv
  <2> QED
    BY <2>1, <2>2, <2>3, <2>4, <2>5, <2>6, <2>7 DEF BuildNext, BuildOne
<1> QED
  BY <1>1, BuildInitInv, PTL DEF BuildSpec

\* The variables of build_one and the files of its directory keep their types.
THEOREM BuildTypeCorrect == BuildSpec => []BuildTypeOK
<1>1. BuildInv => BuildTypeOK
  BY DEF BuildInv
<1> QED
  BY <1>1, BuildInvHolds, PTL

\* A campaign that looks at the status only gets whole binaries of the same generated code
\* for both kernels, unless a build was interrupted after it got past the lookup.
THEOREM KernelsGetOneProgram == BuildSpec => []KernelsGetTheSameProgram
<1>1. BuildInv => KernelsGetTheSameProgram
  BY DEF BuildInv, DirectoryIsConsistent, KernelsGetTheSameProgram
<1> QED
  BY <1>1, BuildInvHolds, PTL

\* A directory that load_cached_build_result accepts is up to date, however inputs were edited
\* and set back and builds were interrupted, unless the time of an input that was put in place
\* since the recorded build began hides it.
THEOREM HitsAreFresh == BuildSpec => HitIsFresh
<1> DEFINE Fresh == UpToDate \/ \E i \in Inputs : HiddenChange(i)
<1>1. BuildInv /\ Hit => Fresh
  <2> SUFFICES ASSUME BuildInv, Hit, \A i \in Inputs : ~ HiddenChange(i)
               PROVE  UpToDate
    OBVIOUS
  <2>1. /\ result # None /\ ~ result.torn /\ result.status = "ok"
        /\ source # None /\ \A s \in Sides : bins[s] # None
        /\ OldestOutput >= NewestInput
    BY DEF Hit, Cached
  <2>2. /\ result.started \in Nat /\ result.mtime \in Nat
        /\ \A i \in Inputs : inputs[i].mtime \in Nat /\ inputs[i].written \in Nat
    BY <2>1 DEF BuildInv, BuildTypeOK, BuildRecord, Input, Time
  <2>3. \A i \in Inputs : inputs[i].written # result.mtime
    BY <2>1 DEF BuildInv, TimesAreDistinct
  <2>4. ASSUME NEW i \in Inputs
        PROVE  inputs[i].written <= result.started
    <3>1. inputs[i].mtime <= NewestInput /\ OldestOutput <= result.mtime
      BY <2>1, NewestInputBounds, OldestOutputBounds DEF BuildInv
    <3>2. NewestInput \in Nat
      BY <2>2, NewestInputBounds DEF BuildInv
    <3>3. OldestOutput \in Nat
      BY <2>1, OldestOutputBounds DEF BuildInv, BuildTypeOK, BuildRecord, Stamped, Binary, Time
    <3>4. inputs[i].mtime <= result.mtime
      BY <2>1, <2>2, <3>1, <3>2, <3>3
    <3>5. ~ (/\ inputs[i].written > result.started
             /\ inputs[i].written < result.mtime \/ inputs[i].mtime < inputs[i].written)
      BY DEF HiddenChange
    <3> QED
      BY <2>2, <2>3, <3>4, <3>5
  <2>5. BuildStatusOk /\ Untouched(result.started)
    BY <2>1, <2>4 DEF BuildStatusOk, Untouched
  <2> QED
    BY <2>5 DEF BuildInv, RecordVouches
<1>2. BuildInv /\ [BuildNext]_buildVars => [Hit => Fresh]_buildVars
  BY <1>1
<1> QED
  BY <1>2, BuildInvHolds, PTL DEF BuildSpec, HitIsFresh

=============================================================================
