----------------------------- MODULE CaseTriage ------------------------------
(***************************************************************************)
(* One case of a campaign, from prepare_case to its entry in               *)
(* campaign-results.jsonl (orchestrator/scheduler.py, analyzer/classify.py,*)
(* orchestrator/stability.py): the baseline run on the reference kernel,   *)
(* the run on the candidate kernel, the triage loop that reruns both when  *)
(* something looks wrong, and the classification.                          *)
(*                                                                         *)
(* A canonical trace is abstracted to what the two tests on it tell apart: *)
(* its behaviour, all that compare_canonical compares, and its noise, what *)
(* only canonical_trace_hash sees (the results of noise system calls).     *)
(* What a run on a kernel shows is an input; it is also recorded in        *)
(* refLog and candLog, which no action reads.                              *)
(***************************************************************************)
EXTENDS Integers, Sequences

CONSTANTS
    Behaviour, Noise,   \* the two parts of a canonical trace
    Status,             \* ExecutionStatus values the runs end with
    RerunCount,         \* stability.rerun_count
    None                \* Python's None

Trace == [behaviour : Behaviour, noise : Noise]

\* What a run shows.  run_reference_once loads a trace when the run is ok;
\* run_candidate_once loads one whatever the status is (vm_runner writes a raw
\* trace and an external state for every run, see RunCase).
RefOutcome == {o \in [status : Status, trace : Trace \cup {None}] :
                  o.trace = None <=> o.status # "ok"}
CandOutcome == [status : Status, trace : Trace]

\* What compare_canonical returns, as far as a verdict depends on it.
Comparison == [equivalent : BOOLEAN, noise_only : BOOLEAN]

ASSUME TriageAssumption ==
    /\ RerunCount \in Nat
    /\ "ok" \in Status
    /\ None \notin Trace \cup Comparison

VARIABLES
    pc,
    preflight,             \* scml_preflight_status of the entry
    reference_results,     \* the statuses of the reference runs
    reference_hashes,
    current_reference,     \* current_reference_canonical
    candidate_results,
    candidate_hashes,
    candidate_canonical,
    comparison,
    attempt,               \* loop counter of the reruns
    result,                \* the case's row in campaign-results.jsonl
    refLog, candLog        \* every run of the case, as the kernels showed it

vars == <<pc, preflight, reference_results, reference_hashes, current_reference,
          candidate_results, candidate_hashes, candidate_canonical, comparison,
          attempt, result, refLog, candLog>>

refVars == <<reference_results, reference_hashes, current_reference, refLog>>
candVars == <<candidate_results, candidate_hashes, candidate_canonical,
              comparison, candLog>>

-----------------------------------------------------------------------------
\* Mutant: only the last two hashes are looked at.
LastTwoEqual(values) ==
    /\ values # <<>>
    /\ Len(values) > 1 => values[Len(values) - 1] = values[Len(values)]

\* stability.all_equal: one distinct value, and at least one.
AllEqual(values) ==
    /\ values # <<>>
    /\ \A k \in 1 .. Len(values) : values[k] = values[1]

\* compare_canonical as the module Compare proves it: noise is forgiven, and
\* noise_only is never reported.
CompareCanonical(reference, candidate) ==
    [equivalent |-> reference.behaviour = candidate.behaviour, noise_only |-> FALSE]

\* Mutant: both sides are hashed as the reference.
HashAsReference(side, trace) == <<"reference", trace>>

\* canonical_trace_hash covers the trace's "side" field.
Hash(side, trace) == <<side, trace>>

Last(s) == s[Len(s)]

Crashed == {"crash", "timeout", "candidate_bug"}

\* analyzer/classify.py.  The conditions are tested in this order.
ClassifyResult(reference_stable, reference_status, candidate_status, comp) ==
    IF ~ reference_stable \/ reference_status # "ok" THEN "baseline_invalid"
    ELSE IF candidate_status = "unsupported" THEN "unsupported_feature"
    ELSE IF candidate_status \in Crashed THEN "bug_likely"
    ELSE IF comp = None
           THEN IF candidate_status = "infra_error" THEN "weak_spec_or_env_noise"
                ELSE "unsupported_feature"
    ELSE IF comp.equivalent THEN "no_diff"
    ELSE IF candidate_status = "infra_error" \/ comp.noise_only
           THEN "weak_spec_or_env_noise"
    ELSE "bug_likely"

\* candidate_status is None when the candidate never ran.
ScmlResultBucket(candidate_status, classification, comp) ==
    IF preflight = "not_run" THEN ""
    ELSE IF preflight # "passed" THEN "rejected_by_scml"
    ELSE IF classification = "build_failure" THEN "passed_scml_but_candidate_failed"
    ELSE IF comp = None
           THEN IF classification = "baseline_invalid" \/ candidate_status = "ok"
                  THEN "passed_scml_but_reference_failed"
                  ELSE "passed_scml_but_candidate_failed"
    ELSE IF comp.equivalent THEN "passed_scml_and_no_diff"
    ELSE "passed_scml_and_diverged"

Row(classification, candidate_status, comp) ==
    [classification |-> classification, comparison |-> comp,
     bucket |-> ScmlResultBucket(candidate_status, classification, comp)]

\* Mutant: the comparison that triage was to confirm goes into the row.
ErrorKeepsComparison(candidate_status) == Row("infra_error", candidate_status, comparison)

\* infra_error_result: the row written when a step of the case raises.
InfraErrorRow(candidate_status) == Row("infra_error", candidate_status, None)

-----------------------------------------------------------------------------
Init ==
    /\ pc = "prepare"
    /\ preflight \in {"not_run", "passed", "rejected"}
    /\ reference_results = <<>>
    /\ reference_hashes = <<>>
    /\ current_reference = None
    /\ candidate_results = <<>>
    /\ candidate_hashes = <<>>
    /\ candidate_canonical = None
    /\ comparison = None
    /\ attempt = 0
    /\ result = None
    /\ refLog = <<>>
    /\ candLog = <<>>

Finish(row) ==
    /\ result' = row
    /\ pc' = "done"

\* prepare_case: the build is not ok.
BuildFailure ==
    /\ pc = "prepare"
    /\ Finish(Row("build_failure", None, None))
    /\ UNCHANGED <<preflight, attempt, refVars, candVars>>

\* run_reference_once, as far as the lists of reference runs go.
AppendReference(o) ==
    /\ reference_results' = Append(reference_results, o.status)
    /\ reference_hashes' = IF o.trace = None THEN reference_hashes
                           ELSE Append(reference_hashes, Hash("reference", o.trace))
    /\ refLog' = Append(refLog, o)

\* prepare_case and _build_reference_runs: the first run on the reference kernel.
FirstReference(o) ==
    /\ pc = "prepare"
    /\ AppendReference(o)
    /\ current_reference' = o.trace
    /\ pc' = IF o.status = "ok" THEN "candidate" ELSE "baseline"
    /\ UNCHANGED <<preflight, attempt, result, candVars>>

\* The end of for _ in range(rerun_count).
RerunsDone == attempt = RerunCount

\* A baseline that failed is rerun for the record; the verdict is not revised.
RerunBaseline(o) ==
    /\ pc = "baseline"
    /\ attempt < RerunCount
    /\ AppendReference(o)
    /\ attempt' = attempt + 1
    /\ UNCHANGED <<pc, preflight, current_reference, result, candVars>>

BaselineInvalid ==
    /\ pc = "baseline"
    /\ RerunsDone
    /\ Finish(Row("baseline_invalid", None, None))
    /\ UNCHANGED <<preflight, attempt, refVars, candVars>>

\* Mutant: a candidate that is not ok but shows the same trace is not rerun.
TriageOnDivergence(o, comp) == ~ comp.equivalent

NeedsTriage(o, comp) == o.status # "ok" \/ ~ comp.equivalent

\* run_candidate_once (or the case's part of a candidate batch) and the first
\* comparison of finalize_prepared_case.
FirstCandidate(o) ==
    /\ pc = "candidate"
    /\ candidate_results' = <<o.status>>
    /\ candidate_hashes' = <<Hash("candidate", o.trace)>>
    /\ candidate_canonical' = o.trace
    /\ comparison' = CompareCanonical(current_reference, o.trace)
    /\ candLog' = Append(candLog, o)
    /\ pc' = IF NeedsTriage(o, comparison') THEN "triage" ELSE "classify"
    /\ UNCHANGED <<preflight, attempt, result, refVars>>

\* _run_triage_loop: one iteration reruns the reference, then the candidate.
TriageReference(o) ==
    /\ pc = "triage"
    /\ attempt < RerunCount
    /\ AppendReference(o)
    /\ current_reference' = IF o.trace = None THEN current_reference ELSE o.trace
    /\ pc' = "triage_candidate"
    /\ UNCHANGED <<preflight, attempt, result, candVars>>

\* Mutant: the comparison of the first candidate run is kept.
StaleComparison(trace) == comparison

RerunComparison(trace) == CompareCanonical(current_reference, trace)

TriageCandidate(o) ==
    /\ pc = "triage_candidate"
    /\ candidate_results' = Append(candidate_results, o.status)
    /\ candidate_hashes' = Append(candidate_hashes, Hash("candidate", o.trace))
    /\ candidate_canonical' = o.trace
    /\ comparison' = RerunComparison(o.trace)
    /\ candLog' = Append(candLog, o)
    /\ attempt' = attempt + 1
    /\ pc' = "triage"
    /\ UNCHANGED <<preflight, result, refVars>>

TriageDone ==
    /\ pc = "triage"
    /\ RerunsDone
    /\ pc' = "classify"
    /\ UNCHANGED <<preflight, attempt, result, refVars, candVars>>

\* The rest of finalize_prepared_case.
Classify ==
    /\ pc = "classify"
    /\ LET stable == AllEqual(reference_hashes)
           recompute == /\ AllEqual(candidate_hashes)
                        /\ Last(candidate_hashes) = Last(reference_hashes)
           comp == IF recompute THEN CompareCanonical(current_reference, candidate_canonical)
                   ELSE comparison
           status == Last(candidate_results)
       IN  IF ~ stable
             THEN Finish(Row("baseline_invalid", status, None))
             ELSE Finish(Row(ClassifyResult(stable, Last(reference_results), status, comp),
                             status, comp))
    /\ UNCHANGED <<preflight, attempt, refVars, candVars>>

\* A run of prepare_case raised (its raw trace does not parse, a file cannot be
\* written): prepare_case_safe's row.
PrepareRaises ==
    /\ pc = "prepare" \/ (pc = "baseline" /\ attempt < RerunCount)
    /\ Finish(InfraErrorRow(None))
    /\ UNCHANGED <<preflight, attempt, refVars, candVars>>

\* The first candidate run raised, or its batch did: schedule_one's row.
CandidateRaises ==
    /\ pc = "candidate"
    /\ Finish(InfraErrorRow(None))
    /\ UNCHANGED <<preflight, attempt, refVars, candVars>>

\* A rerun of the triage loop raised: finalize_prepared_case_safe's row names the
\* first candidate run.
FinalizeRaises ==
    /\ (pc = "triage" /\ attempt < RerunCount) \/ pc = "triage_candidate"
    /\ Finish(InfraErrorRow(candidate_results[1]))
    /\ UNCHANGED <<preflight, attempt, refVars, candVars>>

Next ==
    \/ BuildFailure
    \/ \E o \in RefOutcome : FirstReference(o) \/ RerunBaseline(o) \/ TriageReference(o)
    \/ BaselineInvalid
    \/ \E o \in CandOutcome : FirstCandidate(o) \/ TriageCandidate(o)
    \/ TriageDone
    \/ Classify
    \/ PrepareRaises
    \/ CandidateRaises
    \/ FinalizeRaises

Spec == Init /\ [][Next]_vars

-----------------------------------------------------------------------------
Classification == {"no_diff", "baseline_invalid", "bug_likely",
                   "weak_spec_or_env_noise", "unsupported_feature",
                   "build_failure", "infra_error"}

Bucket == {"", "rejected_by_scml", "passed_scml_and_no_diff",
           "passed_scml_and_diverged", "passed_scml_but_candidate_failed",
           "passed_scml_but_reference_failed"}

TypeOK ==
    /\ pc \in {"prepare", "baseline", "candidate", "triage", "triage_candidate",
               "classify", "done"}
    /\ preflight \in {"not_run", "passed", "rejected"}
    /\ reference_results \in Seq(Status)
    /\ reference_hashes \in Seq({"reference"} \X Trace)
    /\ current_reference \in Trace \cup {None}
    /\ candidate_results \in Seq(Status)
    /\ candidate_hashes \in Seq({"candidate"} \X Trace)
    /\ candidate_canonical \in Trace \cup {None}
    /\ comparison \in Comparison \cup {None}
    /\ attempt \in 0 .. RerunCount
    /\ result \in [classification : Classification, bucket : Bucket,
                   comparison : Comparison \cup {None}] \cup {None}
    /\ refLog \in Seq(RefOutcome)
    /\ candLog \in Seq(CandOutcome)

\* The verdicts that say something about the candidate kernel.
CandidateVerdict == {"no_diff", "bug_likely", "weak_spec_or_env_noise", "unsupported_feature"}

Judged == pc = "done" /\ result.classification \in CandidateVerdict

\* A case is held against the candidate kernel only on a sound baseline: the
\* reference kernel ran, its last run was ok, and all its ok runs (before and
\* during triage) showed one and the same trace.
JudgedOnStableBaseline ==
    Judged =>
       /\ refLog # <<>>
       /\ Last(refLog).status = "ok"
       /\ \A j, k \in 1 .. Len(refLog) :
             refLog[j].status = "ok" /\ refLog[k].status = "ok" =>
                refLog[j].trace = refLog[k].trace

\* The verdict is about the last thing the candidate did, whichever of the
\* reference's ok runs it is held against: no_diff means its behaviour was the
\* reference's, bug_likely means it crashed, hung or behaved differently.
VerdictMatchesEvidence ==
    Judged =>
       \A k \in 1 .. Len(refLog) : refLog[k].status = "ok" =>
          LET same == Last(candLog).trace.behaviour = refLog[k].trace.behaviour
          IN  /\ result.classification = "no_diff" => same
              /\ result.classification = "bug_likely" =>
                    ~ same \/ Last(candLog).status \in Crashed

\* Nothing is held against the candidate on the strength of one run: a case that is
\* judged after a single run of each kernel is a clean no_diff, and for any other verdict
\* both kernels have been rerun stability.rerun_count times.
BugIsRetested ==
    Judged =>
       \/ Len(refLog) = RerunCount + 1 /\ Len(candLog) = RerunCount + 1
       \/ /\ Len(refLog) = 1 /\ Len(candLog) = 1
          /\ candLog[1].status = "ok"
          /\ result.classification = "no_diff"

\* The reducer takes its cases from the bucket of those that diverged, and reports count the
\* one of those that did not.  Whatever raises and whenever, no row gets there on the
\* strength of a run that was to be repeated: all reruns have been made, or there was nothing
\* to repeat, and the bucket says what the candidate did in the last of them, against every
\* ok run of the reference.
BucketRestsOnEvidence ==
    pc = "done" /\ result.bucket \in {"passed_scml_and_no_diff", "passed_scml_and_diverged"} =>
       LET same == result.bucket = "passed_scml_and_no_diff"
       IN  /\ \/ Len(refLog) = RerunCount + 1 /\ Len(candLog) = RerunCount + 1
              \/ Len(refLog) = 1 /\ Len(candLog) = 1 /\ candLog[1].status = "ok" /\ same
           /\ \A k \in 1 .. Len(refLog) : refLog[k].status = "ok" =>
                 (same <=> Last(candLog).trace.behaviour = refLog[k].trace.behaviour)
=============================================================================
