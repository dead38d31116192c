-------------------------- MODULE CaseTriage_proofs --------------------------
(***************************************************************************)
(* Proofs about the triage of one case, for any number of reruns and any   *)
(* sets of behaviours, noise and statuses.                                 *)
(***************************************************************************)
EXTENDS CaseTriage, TLAPS

\* What appending to a sequence does, in the terms the model uses.
LEMMA AppendFacts ==
    ASSUME NEW S, NEW s \in Seq(S), NEW e \in S
    PROVE  /\ Append(s, e) \in Seq(S)
           /\ Append(s, e) # <<>>
           /\ Len(Append(s, e)) = Len(s) + 1
           /\ Last(Append(s, e)) = e
           /\ \A k \in 1 .. Len(s) : Append(s, e)[k] = s[k]
           /\ Append(s, e)[Len(s) + 1] = e
  BY DEF Last

\* The code's lists say what the kernels showed.
LogsAgree ==
    /\ Len(reference_results) = Len(refLog)
    /\ \A k \in 1 .. Len(refLog) : reference_results[k] = refLog[k].status
    /\ \A k \in 1 .. Len(refLog) : refLog[k].status = "ok" =>
          \E j \in 1 .. Len(reference_hashes) :
             reference_hashes[j] = Hash("reference", refLog[k].trace)
    /\ Len(candidate_results) = Len(candLog)
    /\ \A k \in 1 .. Len(candLog) : candidate_results[k] = candLog[k].status

\* The comparison at hand is one of the last candidate trace with an ok
\* reference trace of this case.
EvidenceAtHand ==
    /\ pc \in {"candidate", "triage", "triage_candidate", "classify"} =>
          /\ refLog # <<>>
          /\ current_reference \in Trace
          /\ \E j \in 1 .. Len(reference_hashes) :
                reference_hashes[j] = Hash("reference", current_reference)
    /\ pc \in {"triage", "triage_candidate", "classify"} =>
          /\ candLog # <<>>
          /\ candidate_canonical = Last(candLog).trace
          /\ \E j \in 1 .. Len(reference_hashes) :
                comparison = CompareCanonical(reference_hashes[j][2], Last(candLog).trace)

\* How many runs there have been.
RunsCounted ==
    /\ pc = "prepare" => attempt = 0 /\ Len(refLog) = 0 /\ Len(candLog) = 0
    /\ pc = "baseline" => Len(candLog) = 0
    /\ pc = "candidate" => attempt = 0 /\ Len(refLog) = 1 /\ Len(candLog) = 0
    /\ pc = "triage" => Len(refLog) = attempt + 1 /\ Len(candLog) = attempt + 1
    /\ pc = "triage_candidate" =>
          /\ attempt < RerunCount
          /\ Len(refLog) = attempt + 2
          /\ Len(candLog) = attempt + 1
    /\ pc = "classify" =>
          \/ Len(refLog) = RerunCount + 1 /\ Len(candLog) = RerunCount + 1
          \/ /\ Len(refLog) = 1 /\ Len(candLog) = 1
             /\ candLog[1].status = "ok"
             /\ comparison.equivalent

Promises == JudgedOnStableBaseline /\ VerdictMatchesEvidence /\ BugIsRetested

\* The inductive invariant.
IInv == TypeOK /\ LogsAgree /\ EvidenceAtHand /\ RunsCounted /\ Promises

LEMMA InitEstablishes == Init => IInv
<1> SUFFICES ASSUME Init PROVE IInv
  OBVIOUS
<1>1. TypeOK
  BY TriageAssumption DEF Init, TypeOK
<1>2. LogsAgree /\ EvidenceAtHand /\ RunsCounted
  BY DEF Init, LogsAgree, EvidenceAtHand, RunsCounted
<1>3. Promises
  BY DEF Init, Promises, JudgedOnStableBaseline, VerdictMatchesEvidence,
         BugIsRetested, Judged
<1> QED BY <1>1, <1>2, <1>3 DEF IInv

\* Promises speaks of finished cases.
LEMMA PromisesWhileRunning ==
    ASSUME pc' # "done"
    PROVE  Promises'
  BY DEF Promises, JudgedOnStableBaseline, VerdictMatchesEvidence, BugIsRetested, Judged

\* A row that is not a verdict on the candidate keeps every promise.
LEMMA PromisesUnjudged ==
    ASSUME result'.classification \notin CandidateVerdict
    PROVE  Promises'
  BY DEF Promises, JudgedOnStableBaseline, VerdictMatchesEvidence, BugIsRetested, Judged,
         CandidateVerdict

\* The rows the model writes are rows.
LEMMA RowType ==
    ASSUME NEW c \in Classification, NEW s, NEW comp \in Comparison \cup {None}
    PROVE  /\ Row(c, s, comp) \in [classification : Classification, bucket : Bucket,
                                   comparison : Comparison \cup {None}]
           /\ Row(c, s, comp).classification = c
  BY DEF Row, ScmlResultBucket, Bucket

LEMMA CompareType ==
    ASSUME NEW r, NEW c
    PROVE  CompareCanonical(r, c) \in Comparison
  BY DEF CompareCanonical, Comparison

LEMMA ClassifyType ==
    ASSUME NEW stable \in BOOLEAN, NEW r, NEW c, NEW comp
    PROVE  ClassifyResult(stable, r, c, comp) \in Classification
  BY DEF ClassifyResult, Classification

\* A row written without a new run: logs and lists stay as they are.
LEMMA FinishPreserves ==
    ASSUME IInv, NEW c \in Classification, NEW s, NEW comp \in Comparison \cup {None},
           Finish(Row(c, s, comp)), UNCHANGED <<preflight, attempt, refVars, candVars>>,
           c \notin CandidateVerdict
    PROVE  IInv'
<1>1. /\ result' = Row(c, s, comp) /\ pc' = "done"
      /\ result' \in [classification : Classification, bucket : Bucket,
                      comparison : Comparison \cup {None}]
      /\ result'.classification = c
  BY RowType DEF Finish
<1>2. TypeOK'
  BY <1>1 DEF IInv, TypeOK, refVars, candVars
<1>3. LogsAgree' /\ EvidenceAtHand' /\ RunsCounted'
  BY <1>1 DEF IInv, LogsAgree, EvidenceAtHand, RunsCounted, refVars, candVars
<1>4. Promises'
  BY <1>1, PromisesUnjudged
<1> QED BY <1>2, <1>3, <1>4 DEF IInv

\* A reference run is recorded; what was recorded before it stays.
LEMMA ReferenceRecorded ==
    ASSUME IInv, NEW o \in RefOutcome, AppendReference(o), UNCHANGED candVars
    PROVE  /\ reference_results' \in Seq(Status)
           /\ reference_hashes' \in Seq({"reference"} \X Trace)
           /\ refLog' \in Seq(RefOutcome)
           /\ Len(refLog') = Len(refLog) + 1
           /\ refLog' # <<>>
           /\ \A h : (\E j \in 1 .. Len(reference_hashes) : reference_hashes[j] = h)
                  => (\E j \in 1 .. Len(reference_hashes') : reference_hashes'[j] = h)
           /\ o.status = "ok" =>
                 /\ o.trace \in Trace
                 /\ \E j \in 1 .. Len(reference_hashes') :
                       reference_hashes'[j] = Hash("reference", o.trace)
           /\ o.status # "ok" => o.trace = None
           /\ LogsAgree'
<1>1. /\ o.status \in Status
      /\ o.status = "ok" => o.trace \in Trace /\ o.trace # None
      /\ o.status # "ok" => o.trace = None
  BY TriageAssumption DEF RefOutcome
<1>2. /\ reference_results' = Append(reference_results, o.status)
      /\ reference_results' \in Seq(Status)
      /\ Len(reference_results') = Len(reference_results) + 1
      /\ reference_results'[Len(reference_results) + 1] = o.status
      /\ \A k \in 1 .. Len(reference_results) : reference_results'[k] = reference_results[k]
  BY <1>1, AppendFacts DEF AppendReference, IInv, TypeOK
<1>3. /\ refLog' = Append(refLog, o)
      /\ refLog' \in Seq(RefOutcome)
      /\ Len(refLog') = Len(refLog) + 1
      /\ refLog' # <<>>
      /\ refLog'[Len(refLog) + 1] = o
      /\ \A k \in 1 .. Len(refLog) : refLog'[k] = refLog[k]
  <2>1. refLog \in Seq(RefOutcome) /\ refLog' = Append(refLog, o)
    BY DEF AppendReference, IInv, TypeOK
  <2> QED BY <2>1, AppendFacts
<1>4. CASE o.status = "ok"
  <2>1. Hash("reference", o.trace) \in {"reference"} \X Trace
    BY <1>1, <1>4 DEF Hash
  <2>2. /\ reference_hashes' = Append(reference_hashes, Hash("reference", o.trace))
        /\ reference_hashes' \in Seq({"reference"} \X Trace)
        /\ Len(reference_hashes') = Len(reference_hashes) + 1
        /\ reference_hashes'[Len(reference_hashes) + 1] = Hash("reference", o.trace)
        /\ \A k \in 1 .. Len(reference_hashes) : reference_hashes'[k] = reference_hashes[k]
    BY <1>1, <1>4, <2>1, AppendFacts DEF AppendReference, IInv, TypeOK
  <2>3. \A h : (\E j \in 1 .. Len(reference_hashes) : reference_hashes[j] = h)
           => (\E j \in 1 .. Len(reference_hashes') : reference_hashes'[j] = h)
    BY <2>2 DEF IInv, TypeOK
  <2>4. \E j \in 1 .. Len(reference_hashes') :
           reference_hashes'[j] = Hash("reference", o.trace)
    BY <2>2 DEF IInv, TypeOK
  <2>5. Len(reference_results') = Len(refLog') /\ Len(refLog) \in Nat
    BY <1>2, <1>3 DEF IInv, TypeOK, LogsAgree
  <2>6. \A k \in 1 .. Len(refLog') : reference_results'[k] = refLog'[k].status
    BY <1>2, <1>3, <2>5 DEF IInv, TypeOK, LogsAgree
  <2>7. \A k \in 1 .. Len(refLog') : refLog'[k].status = "ok" =>
           \E j \in 1 .. Len(reference_hashes') :
              reference_hashes'[j] = Hash("reference", refLog'[k].trace)
    <3> SUFFICES ASSUME NEW k \in 1 .. Len(refLog'), refLog'[k].status = "ok"
                 PROVE  \E j \in 1 .. Len(reference_hashes') :
                           reference_hashes'[j] = Hash("reference", refLog'[k].trace)
      OBVIOUS
    <3>1. CASE k = Len(refLog) + 1
      BY <1>3, <2>4, <3>1
    <3>2. CASE k \in 1 .. Len(refLog)
      <4>1. \E j \in 1 .. Len(reference_hashes) :
               reference_hashes[j] = Hash("reference", refLog[k].trace)
        BY <1>3, <3>2 DEF IInv, LogsAgree
      <4> QED BY <1>3, <2>3, <3>2, <4>1
    <3> QED BY <1>3, <2>5, <3>1, <3>2
  <2>8. LogsAgree'
    BY <2>5, <2>6, <2>7 DEF IInv, LogsAgree, candVars
  <2> QED BY <1>1, <1>2, <1>3, <1>4, <2>2, <2>3, <2>4, <2>8
<1>5. CASE o.status # "ok"
  <2>1. reference_hashes' = reference_hashes
    BY <1>1, <1>5 DEF AppendReference
  <2>2. Len(reference_results') = Len(refLog') /\ Len(refLog) \in Nat
    BY <1>2, <1>3 DEF IInv, TypeOK, LogsAgree
  <2>3. \A k \in 1 .. Len(refLog') : reference_results'[k] = refLog'[k].status
    BY <1>2, <1>3, <2>2 DEF IInv, TypeOK, LogsAgree
  <2>4. \A k \in 1 .. Len(refLog') : refLog'[k].status = "ok" =>
           \E j \in 1 .. Len(reference_hashes') :
              reference_hashes'[j] = Hash("reference", refLog'[k].trace)
    <3> SUFFICES ASSUME NEW k \in 1 .. Len(refLog'), refLog'[k].status = "ok"
                 PROVE  \E j \in 1 .. Len(reference_hashes) :
                           reference_hashes[j] = Hash("reference", refLog'[k].trace)
      BY <2>1
    <3>1. k \in 1 .. Len(refLog)
      BY <1>3, <1>5, <2>2
    <3>2. refLog'[k] = refLog[k]
      BY <1>3, <3>1
    <3> QED BY <3>1, <3>2 DEF IInv, LogsAgree
  <2>5. LogsAgree'
    BY <2>2, <2>3, <2>4 DEF IInv, LogsAgree, candVars
  <2> QED BY <1>1, <1>2, <1>3, <1>5, <2>1, <2>5 DEF IInv, TypeOK
<1> QED BY <1>4, <1>5

\* A candidate run is recorded.
LEMMA CandidateRecorded ==
    ASSUME IInv, NEW o \in CandOutcome,
           candidate_results' = Append(candidate_results, o.status),
           candidate_hashes' = Append(candidate_hashes, Hash("candidate", o.trace)),
           candLog' = Append(candLog, o),
           UNCHANGED refVars
    PROVE  /\ candidate_results' \in Seq(Status)
           /\ candidate_hashes' \in Seq({"candidate"} \X Trace)
           /\ candLog' \in Seq(CandOutcome)
           /\ Len(candLog') = Len(candLog) + 1
           /\ candLog' # <<>>
           /\ Last(candLog') = o
           /\ LogsAgree'
<1>1. /\ o.status \in Status
      /\ o.trace \in Trace
      /\ Hash("candidate", o.trace) \in {"candidate"} \X Trace
  BY DEF CandOutcome, Hash
<1>2. /\ candidate_results' \in Seq(Status)
      /\ Len(candidate_results') = Len(candidate_results) + 1
      /\ candidate_results'[Len(candidate_results) + 1] = o.status
      /\ \A k \in 1 .. Len(candidate_results) : candidate_results'[k] = candidate_results[k]
  BY <1>1, AppendFacts DEF IInv, TypeOK
<1>3. candidate_hashes' \in Seq({"candidate"} \X Trace)
  BY <1>1, AppendFacts DEF IInv, TypeOK
<1>4. /\ candLog' \in Seq(CandOutcome)
      /\ Len(candLog') = Len(candLog) + 1
      /\ candLog' # <<>>
      /\ Last(candLog') = o
      /\ candLog'[Len(candLog) + 1] = o
      /\ \A k \in 1 .. Len(candLog) : candLog'[k] = candLog[k]
  <2>1. candLog \in Seq(CandOutcome)
    BY DEF IInv, TypeOK
  <2> QED BY <2>1, AppendFacts
<1>5. Len(candidate_results') = Len(candLog') /\ Len(candLog) \in Nat
  BY <1>2, <1>4 DEF IInv, TypeOK, LogsAgree
<1>6. \A k \in 1 .. Len(candLog') : candidate_results'[k] = candLog'[k].status
  BY <1>2, <1>4, <1>5 DEF IInv, TypeOK, LogsAgree
<1>7. LogsAgree'
  BY <1>5, <1>6 DEF IInv, LogsAgree, refVars
<1> QED BY <1>2, <1>3, <1>4, <1>7

LEMMA FirstReferencePreserves ==
    ASSUME IInv, NEW o \in RefOutcome, FirstReference(o)
    PROVE  IInv'
<1>1. /\ pc = "prepare" /\ AppendReference(o) /\ current_reference' = o.trace
      /\ pc' = IF o.status = "ok" THEN "candidate" ELSE "baseline"
      /\ UNCHANGED <<preflight, attempt, result>> /\ UNCHANGED candVars
  BY DEF FirstReference
<1>2. TypeOK'
  BY <1>1, ReferenceRecorded DEF IInv, TypeOK, RefOutcome, candVars
<1>3. EvidenceAtHand' /\ RunsCounted'
  BY <1>1, ReferenceRecorded
     DEF IInv, EvidenceAtHand, RunsCounted, candVars, TypeOK
<1>4. Promises'
  BY <1>1, PromisesWhileRunning
<1> QED BY <1>1, <1>2, <1>3, <1>4, ReferenceRecorded DEF IInv

LEMMA RerunBaselinePreserves ==
    ASSUME IInv, NEW o \in RefOutcome, RerunBaseline(o)
    PROVE  IInv'
<1>1. /\ pc = "baseline" /\ AppendReference(o) /\ attempt < RerunCount
      /\ attempt' = attempt + 1
      /\ UNCHANGED <<pc, preflight, current_reference, result>> /\ UNCHANGED candVars
  BY DEF RerunBaseline
<1>2. TypeOK'
  BY <1>1, ReferenceRecorded, TriageAssumption DEF IInv, TypeOK, candVars
<1>3. EvidenceAtHand' /\ RunsCounted'
  BY <1>1 DEF IInv, EvidenceAtHand, RunsCounted, candVars
<1>4. Promises'
  BY <1>1, PromisesWhileRunning
<1> QED BY <1>1, <1>2, <1>3, <1>4, ReferenceRecorded DEF IInv

LEMMA TriageReferencePreserves ==
    ASSUME IInv, NEW o \in RefOutcome, TriageReference(o)
    PROVE  IInv'
<1>1. /\ pc = "triage" /\ pc' = "triage_candidate"
      /\ AppendReference(o) /\ attempt < RerunCount
      /\ current_reference' = IF o.trace = None THEN current_reference ELSE o.trace
      /\ UNCHANGED <<preflight, attempt, result>> /\ UNCHANGED candVars
  BY DEF TriageReference
<1>2. TypeOK'
  BY <1>1, ReferenceRecorded DEF IInv, TypeOK, RefOutcome, candVars
<1>3. RunsCounted'
  BY <1>1, ReferenceRecorded DEF IInv, RunsCounted, candVars, TypeOK
<1>4. /\ refLog' # <<>>
      /\ current_reference' \in Trace
      /\ \E j \in 1 .. Len(reference_hashes') :
            reference_hashes'[j] = Hash("reference", current_reference')
  BY <1>1, ReferenceRecorded, TriageAssumption DEF IInv, EvidenceAtHand
<1>5. PICK j \in 1 .. Len(reference_hashes) :
         comparison = CompareCanonical(reference_hashes[j][2], Last(candLog).trace)
  BY <1>1 DEF IInv, EvidenceAtHand
<1>6. \E k \in 1 .. Len(reference_hashes') : reference_hashes'[k] = reference_hashes[j]
  BY <1>1, ReferenceRecorded
<1>7. EvidenceAtHand'
  BY <1>1, <1>4, <1>5, <1>6 DEF IInv, EvidenceAtHand, candVars
<1>8. Promises'
  BY <1>1, PromisesWhileRunning
<1> QED BY <1>1, <1>2, <1>3, <1>7, <1>8, ReferenceRecorded DEF IInv

\* The comparison with the current reference is one with a recorded trace.
LEMMA FreshComparison ==
    ASSUME IInv, NEW t, pc \in {"candidate", "triage_candidate"}
    PROVE  \E j \in 1 .. Len(reference_hashes) :
              CompareCanonical(current_reference, t) = CompareCanonical(reference_hashes[j][2], t)
<1>1. PICK j \in 1 .. Len(reference_hashes) :
         reference_hashes[j] = Hash("reference", current_reference)
  BY DEF IInv, EvidenceAtHand
<1>2. reference_hashes[j][2] = current_reference
  BY <1>1 DEF Hash
<1> QED BY <1>2

LEMMA FirstCandidatePreserves ==
    ASSUME IInv, NEW o \in CandOutcome, FirstCandidate(o)
    PROVE  IInv'
<1>1. /\ pc = "candidate"
      /\ candidate_canonical' = o.trace
      /\ comparison' = CompareCanonical(current_reference, o.trace)
      /\ candLog' = Append(candLog, o)
      /\ pc' = IF NeedsTriage(o, comparison') THEN "triage" ELSE "classify"
      /\ UNCHANGED <<preflight, attempt, result>> /\ UNCHANGED refVars
  BY DEF FirstCandidate
<1>2. candidate_results = <<>> /\ candLog = <<>> /\ Len(refLog) = 1 /\ attempt = 0
  <2>1. /\ Len(candLog) = 0 /\ Len(candidate_results) = 0
        /\ Len(refLog) = 1 /\ attempt = 0
    BY <1>1 DEF IInv, RunsCounted, LogsAgree
  <2>2. candLog \in Seq(CandOutcome) /\ candidate_results \in Seq(Status)
    BY DEF IInv, TypeOK
  <2> QED BY <2>1, <2>2
<1>3. /\ candidate_results' = Append(candidate_results, o.status)
      /\ candidate_hashes' = <<Hash("candidate", o.trace)>>
  BY <1>2 DEF FirstCandidate
<1>4. /\ candidate_hashes' \in Seq({"candidate"} \X Trace)
      /\ candidate_results' \in Seq(Status)
      /\ candLog' \in Seq(CandOutcome)
      /\ Len(candLog') = 1 /\ Last(candLog') = o /\ candLog'[1] = o /\ candLog' # <<>>
  <2>1. Hash("candidate", o.trace) \in {"candidate"} \X Trace /\ o.status \in Status
    BY DEF CandOutcome, Hash
  <2> QED BY <1>1, <1>2, <1>3, <2>1 DEF Last
<1>5. LogsAgree'
  BY <1>1, <1>2, <1>3, <1>4 DEF IInv, LogsAgree, refVars
<1>6. TypeOK'
  BY <1>1, <1>3, <1>4, CompareType DEF IInv, TypeOK, CandOutcome, refVars
<1>7. RunsCounted'
  BY <1>1, <1>2, <1>4 DEF RunsCounted, refVars, NeedsTriage
<1>8. EvidenceAtHand'
  BY <1>1, <1>4, FreshComparison DEF IInv, EvidenceAtHand, refVars
<1>9. Promises'
  BY <1>1, PromisesWhileRunning
<1> QED BY <1>5, <1>6, <1>7, <1>8, <1>9 DEF IInv

LEMMA TriageCandidatePreserves ==
    ASSUME IInv, NEW o \in CandOutcome, TriageCandidate(o)
    PROVE  IInv'
<1>1. /\ pc = "triage_candidate" /\ pc' = "triage"
      /\ candidate_results' = Append(candidate_results, o.status)
      /\ candidate_hashes' = Append(candidate_hashes, Hash("candidate", o.trace))
      /\ candidate_canonical' = o.trace
      /\ comparison' = CompareCanonical(current_reference, o.trace)
      /\ candLog' = Append(candLog, o)
      /\ attempt' = attempt + 1
      /\ UNCHANGED <<preflight, result>> /\ UNCHANGED refVars
  BY DEF TriageCandidate, RerunComparison
<1>2. attempt < RerunCount /\ Len(refLog) = attempt + 2 /\ Len(candLog) = attempt + 1
  BY <1>1 DEF IInv, RunsCounted
<1>3. TypeOK'
  BY <1>1, <1>2, CandidateRecorded, CompareType, TriageAssumption
     DEF IInv, TypeOK, CandOutcome, refVars
<1>4. RunsCounted'
  BY <1>1, <1>2, CandidateRecorded DEF RunsCounted, refVars, IInv, TypeOK
<1>5. EvidenceAtHand'
  BY <1>1, FreshComparison, CandidateRecorded DEF IInv, EvidenceAtHand, refVars
<1>6. Promises'
  BY <1>1, PromisesWhileRunning
<1> QED BY <1>1, <1>3, <1>4, <1>5, <1>6, CandidateRecorded DEF IInv

LEMMA TriageDonePreserves ==
    ASSUME IInv, TriageDone
    PROVE  IInv'
<1>1. /\ pc = "triage" /\ pc' = "classify" /\ attempt = RerunCount
      /\ UNCHANGED <<preflight, attempt, result>> /\ UNCHANGED refVars /\ UNCHANGED candVars
  BY DEF TriageDone, RerunsDone
<1>2. TypeOK' /\ LogsAgree'
  BY <1>1 DEF IInv, TypeOK, LogsAgree, refVars, candVars
<1>3. EvidenceAtHand' /\ RunsCounted'
  BY <1>1 DEF IInv, EvidenceAtHand, RunsCounted, refVars, candVars
<1>4. Promises'
  BY <1>1, PromisesWhileRunning
<1> QED BY <1>2, <1>3, <1>4 DEF IInv

\* On a stable baseline it does not matter which comparison is classified: it is the one of
\* the last candidate trace with the trace of every ok reference run.
LEMMA EvidenceAtClassify ==
    ASSUME IInv, pc = "classify", AllEqual(reference_hashes)
    PROVE  /\ \A k \in 1 .. Len(refLog) : refLog[k].status = "ok" =>
                 reference_hashes[1][2] = refLog[k].trace
           /\ comparison = CompareCanonical(reference_hashes[1][2], Last(candLog).trace)
           /\ CompareCanonical(current_reference, candidate_canonical) = comparison
<1>1. \A k \in 1 .. Len(refLog) : refLog[k].status = "ok" =>
         reference_hashes[1] = Hash("reference", refLog[k].trace)
  BY DEF IInv, LogsAgree, AllEqual
<1>2. comparison = CompareCanonical(reference_hashes[1][2], Last(candLog).trace)
  BY DEF IInv, EvidenceAtHand, AllEqual
<1>3. Hash("reference", current_reference) = reference_hashes[1]
  BY DEF IInv, EvidenceAtHand, AllEqual
<1>4. current_reference = reference_hashes[1][2]
  BY <1>3 DEF Hash
<1>5. CompareCanonical(current_reference, candidate_canonical) = comparison
  BY <1>2, <1>4 DEF IInv, EvidenceAtHand
<1> QED BY <1>1, <1>2, <1>5 DEF Hash

\* The verdict finalize_prepared_case writes.
LEMMA ClassifyPreserves ==
    ASSUME IInv, Classify
    PROVE  IInv'
<1> DEFINE stable == AllEqual(reference_hashes)
           recompute == /\ AllEqual(candidate_hashes)
                        /\ Last(candidate_hashes) = Last(reference_hashes)
           comp == IF recompute THEN CompareCanonical(current_reference, candidate_canonical)
                   ELSE comparison
           status == Last(candidate_results)
           verdict == ClassifyResult(stable, Last(reference_results), status, comp)
<1>1. /\ pc = "classify"
      /\ UNCHANGED <<preflight, attempt, refVars, candVars>>
      /\ IF ~ stable THEN Finish(Row("baseline_invalid", status, None))
         ELSE Finish(Row(verdict, status, comp))
  BY DEF Classify
<1>2. CASE ~ stable
  <2>1. "baseline_invalid" \in Classification /\ "baseline_invalid" \notin CandidateVerdict
    BY DEF Classification, CandidateVerdict
  <2> QED BY <1>1, <1>2, <2>1, FinishPreserves
<1>3. CASE stable
  <2>1. comp \in Comparison
    BY <1>1, CompareType DEF IInv, EvidenceAtHand
  <2>2. verdict \in Classification
    BY <1>3, ClassifyType
  <2>3. /\ result' = Row(verdict, status, comp) /\ pc' = "done"
        /\ result' \in [classification : Classification, bucket : Bucket,
                        comparison : Comparison \cup {None}]
        /\ result'.classification = verdict
    <3>1. Finish(Row(verdict, status, comp)) /\ comp \in Comparison \cup {None}
      BY <1>1, <1>3, <2>1
    <3> HIDE DEF verdict, status, comp
    <3> QED BY <2>2, <3>1, RowType DEF Finish
  <2>4. TypeOK'
    BY <1>1, <2>3 DEF IInv, TypeOK, refVars, candVars
  <2>5. LogsAgree' /\ EvidenceAtHand' /\ RunsCounted'
    BY <1>1, <2>3 DEF IInv, LogsAgree, EvidenceAtHand, RunsCounted, refVars, candVars
  <2>6. CASE verdict \notin CandidateVerdict
    BY <2>3, <2>4, <2>5, <2>6, PromisesUnjudged DEF IInv
  <2>7. CASE verdict \in CandidateVerdict
    <3>1. /\ refLog \in Seq(RefOutcome) /\ refLog # <<>> /\ Len(refLog) \in Nat \ {0}
          /\ candLog \in Seq(CandOutcome) /\ candLog # <<>> /\ Len(candLog) \in Nat \ {0}
      BY <1>1 DEF IInv, EvidenceAtHand, TypeOK
    <3>2. /\ Last(reference_results) = Last(refLog).status
          /\ status = Last(candLog).status
      BY <3>1 DEF IInv, LogsAgree, Last
    <3>3. Last(refLog).status = "ok"
      BY <2>7, <3>2 DEF ClassifyResult, CandidateVerdict
    <3>4. \A k \in 1 .. Len(refLog) : refLog[k].status = "ok" =>
             reference_hashes[1][2] = refLog[k].trace
      BY <1>1, <1>3, EvidenceAtClassify
    <3>5. comp = comparison
      BY <1>1, <1>3, EvidenceAtClassify
    <3>6. JudgedOnStableBaseline'
      BY <1>1, <3>1, <3>3, <3>4 DEF JudgedOnStableBaseline, refVars
    <3>7. /\ comp.noise_only = FALSE
          /\ (comp.equivalent <=> reference_hashes[1][2].behaviour = Last(candLog).trace.behaviour)
      <4>1. comp = CompareCanonical(reference_hashes[1][2], Last(candLog).trace)
        BY <1>1, <1>3, <3>5, EvidenceAtClassify
      <4> HIDE DEF comp
      <4> QED BY <4>1 DEF CompareCanonical
    <3>8. /\ verdict = "no_diff" => comp.equivalent
          /\ verdict = "bug_likely" => ~ comp.equivalent \/ status \in Crashed
      BY <3>7 DEF ClassifyResult
    <3>9. VerdictMatchesEvidence'
      BY <1>1, <2>3, <3>2, <3>4, <3>7, <3>8 DEF VerdictMatchesEvidence, refVars, candVars
    <3>10. BugIsRetested'
      <4>1. CASE Len(refLog) = RerunCount + 1 /\ Len(candLog) = RerunCount + 1
        BY <1>1, <4>1 DEF BugIsRetested, refVars, candVars
      <4>2. CASE /\ Len(refLog) = 1 /\ Len(candLog) = 1
                 /\ candLog[1].status = "ok" /\ comparison.equivalent
        <5>1. status = "ok" /\ comp.equivalent
          BY <3>2, <3>5, <4>2 DEF Last
        <5>2. comp # None
          BY <2>1, TriageAssumption
        <5>3. verdict = "no_diff"
          BY <2>7, <3>7, <5>1, <5>2 DEF ClassifyResult, Crashed, CandidateVerdict
        <5> QED BY <1>1, <2>3, <4>2, <5>3 DEF BugIsRetested, refVars, candVars
      <4> QED BY <1>1, <4>1, <4>2 DEF IInv, RunsCounted
    <3> QED BY <2>4, <2>5, <3>6, <3>9, <3>10 DEF IInv, Promises
  <2> QED BY <2>6, <2>7
<1> QED BY <1>2, <1>3

LEMMA StepPreserves == IInv /\ [Next]_vars => IInv'
<1> SUFFICES ASSUME IInv, [Next]_vars PROVE IInv'
  OBVIOUS
<1>0. {"build_failure", "baseline_invalid", "infra_error"} \subseteq Classification \ CandidateVerdict
  BY DEF Classification, CandidateVerdict
<1>1. CASE BuildFailure
  BY <1>0, <1>1, FinishPreserves DEF BuildFailure
<1>2. CASE BaselineInvalid
  BY <1>0, <1>2, FinishPreserves DEF BaselineInvalid
<1>3. CASE PrepareRaises
  BY <1>0, <1>3, FinishPreserves DEF PrepareRaises, InfraErrorRow
<1>4. CASE CandidateRaises
  BY <1>0, <1>4, FinishPreserves DEF CandidateRaises, InfraErrorRow
<1>5. CASE FinalizeRaises
  BY <1>0, <1>5, FinishPreserves DEF FinalizeRaises, InfraErrorRow
<1>6. CASE \E o \in RefOutcome : FirstReference(o) \/ RerunBaseline(o) \/ TriageReference(o)
  BY <1>6, FirstReferencePreserves, RerunBaselinePreserves, TriageReferencePreserves
<1>7. CASE \E o \in CandOutcome : FirstCandidate(o) \/ TriageCandidate(o)
  BY <1>7, FirstCandidatePreserves, TriageCandidatePreserves
<1>8. CASE TriageDone
  BY <1>8, TriageDonePreserves
<1>9. CASE Classify
  BY <1>9, ClassifyPreserves
<1>10. CASE UNCHANGED vars
  <2>1. TypeOK' /\ LogsAgree'
    BY <1>10 DEF vars, IInv, TypeOK, LogsAgree
  <2>2. EvidenceAtHand' /\ RunsCounted'
    BY <1>10 DEF vars, IInv, EvidenceAtHand, RunsCounted
  <2>3. JudgedOnStableBaseline' /\ BugIsRetested'
    BY <1>10 DEF vars, IInv, Promises, JudgedOnStableBaseline, BugIsRetested, Judged
  <2>4. VerdictMatchesEvidence'
    BY <1>10 DEF vars, IInv, Promises, VerdictMatchesEvidence, Judged
  <2> QED BY <2>1, <2>2, <2>3, <2>4 DEF IInv, Promises
<1> QED
  BY <1>1, <1>2, <1>3, <1>4, <1>5, <1>6, <1>7, <1>8, <1>9, <1>10 DEF Next

\* The case's variables keep their types.
THEOREM TypeCorrect == Spec => []TypeOK
<1>1. Spec => []IInv
  BY InitEstablishes, StepPreserves, PTL DEF Spec
<1>2. IInv => TypeOK
  BY DEF IInv
<1> QED BY <1>1, <1>2, PTL

\* Whatever the number of reruns, a verdict on the candidate kernel rests on a
\* reference kernel whose ok runs, all of them, showed one trace.
THEOREM BaselineIsStable == Spec => []JudgedOnStableBaseline
<1>1. Spec => []IInv
  BY InitEstablishes, StepPreserves, PTL DEF Spec
<1>2. IInv => JudgedOnStableBaseline
  BY DEF IInv, Promises
<1> QED BY <1>1, <1>2, PTL

\* no_diff and bug_likely say what the last candidate run showed, against every
\* ok reference run of the case.
THEOREM VerdictIsEvidence == Spec => []VerdictMatchesEvidence
<1>1. Spec => []IInv
  BY InitEstablishes, StepPreserves, PTL DEF Spec
<1>2. IInv => VerdictMatchesEvidence
  BY DEF IInv, Promises
<1> QED BY <1>1, <1>2, PTL

\* Every bug_likely has been through all the reruns.
THEOREM BugsAreRetested == Spec => []BugIsRetested
<1>1. Spec => []IInv
  BY InitEstablishes, StepPreserves, PTL DEF Spec
<1>2. IInv => BugIsRetested
  BY DEF IInv, Promises
<1> QED BY <1>1, <1>2, PTL

\* The buckets of cases that agree and of cases that differ.
Compared == {"passed_scml_and_no_diff", "passed_scml_and_diverged"}

\* A row without a comparison is in neither bucket.
LEMMA BucketOfNone ==
    ASSUME NEW c, NEW s
    PROVE  Row(c, s, None).bucket \notin Compared
  BY DEF Row, ScmlResultBucket, Compared

\* A row with a comparison is in one of them only if the comparison says so.
LEMMA BucketOfComparison ==
    ASSUME NEW c, NEW s, NEW comp \in Comparison, Row(c, s, comp).bucket \in Compared
    PROVE  Row(c, s, comp).bucket = "passed_scml_and_no_diff" <=> comp.equivalent
<1>1. comp # None
  BY TriageAssumption
<1> QED BY <1>1 DEF Row, ScmlResultBucket, Compared

LEMMA BucketAfterClassify ==
    ASSUME IInv, Classify
    PROVE  BucketRestsOnEvidence'
<1> DEFINE status == Last(candidate_results)
           verdict == ClassifyResult(TRUE, Last(reference_results), status, comparison)
           same == comparison.equivalent
<1>1. pc = "classify" /\ UNCHANGED refVars /\ UNCHANGED candVars
  BY DEF Classify
<1>2. CASE ~ AllEqual(reference_hashes)
  <2>1. result' = Row("baseline_invalid", status, None)
    BY <1>2 DEF Classify, Finish
  <2> QED BY <2>1, BucketOfNone DEF BucketRestsOnEvidence, Compared
<1>3. CASE AllEqual(reference_hashes)
  <2>1. result' = Row(verdict, status, comparison)
    BY <1>1, <1>3, EvidenceAtClassify DEF Classify, Finish
  <2>2. comparison \in Comparison
    BY <1>1, <1>3, EvidenceAtClassify, CompareType
  <2>3. SUFFICES ASSUME result'.bucket \in Compared
                 PROVE  BucketRestsOnEvidence'
    BY DEF BucketRestsOnEvidence, Compared
  <2>4. result'.bucket = "passed_scml_and_no_diff" <=> same
    <3> HIDE DEF verdict, status
    <3> QED BY <2>1, <2>2, <2>3, BucketOfComparison
  <2>5. \A k \in 1 .. Len(refLog) : refLog[k].status = "ok" =>
           (same <=> Last(candLog).trace.behaviour = refLog[k].trace.behaviour)
    <3>1. /\ comparison = CompareCanonical(reference_hashes[1][2], Last(candLog).trace)
          /\ \A k \in 1 .. Len(refLog) : refLog[k].status = "ok" =>
                reference_hashes[1][2] = refLog[k].trace
      BY <1>1, <1>3, EvidenceAtClassify
    <3>2. same <=> reference_hashes[1][2].behaviour = Last(candLog).trace.behaviour
      BY <3>1 DEF CompareCanonical
    <3> HIDE DEF same
    <3> QED BY <3>1, <3>2
  <2>6. \/ Len(refLog) = RerunCount + 1 /\ Len(candLog) = RerunCount + 1
        \/ Len(refLog) = 1 /\ Len(candLog) = 1 /\ candLog[1].status = "ok" /\ same
    BY <1>1 DEF IInv, RunsCounted
  <2> HIDE DEF same
  <2> QED BY <1>1, <2>4, <2>5, <2>6 DEF BucketRestsOnEvidence, refVars, candVars
<1> QED BY <1>2, <1>3

\* A rerun that raises, or anything else that ends a case before its classification, leaves
\* no row that says whether the kernels agree.
THEOREM BucketsRestOnEvidence == Spec => []BucketRestsOnEvidence
<1>1. Spec => []IInv
  BY InitEstablishes, StepPreserves, PTL DEF Spec
<1>2. Init => BucketRestsOnEvidence
  BY DEF Init, BucketRestsOnEvidence
<1>3. IInv /\ BucketRestsOnEvidence /\ [Next]_vars => BucketRestsOnEvidence'
  <2> SUFFICES ASSUME IInv, BucketRestsOnEvidence, [Next]_vars
               PROVE  BucketRestsOnEvidence'
    OBVIOUS
  <2>1. CASE BuildFailure \/ BaselineInvalid
    <3>1. result'.bucket \notin Compared
      BY <2>1, BucketOfNone DEF BuildFailure, BaselineInvalid, Finish
    <3> QED BY <3>1 DEF BucketRestsOnEvidence, Compared
  <2>2. CASE PrepareRaises \/ CandidateRaises \/ FinalizeRaises
    <3>1. result'.bucket \notin Compared
      BY <2>2, BucketOfNone DEF PrepareRaises, CandidateRaises, FinalizeRaises, Finish,
                                InfraErrorRow
    <3> QED BY <3>1 DEF BucketRestsOnEvidence, Compared
  <2>3. CASE \E o \in RefOutcome : FirstReference(o) \/ RerunBaseline(o) \/ TriageReference(o)
    BY <2>3 DEF FirstReference, RerunBaseline, TriageReference, BucketRestsOnEvidence
  <2>4. CASE \E o \in CandOutcome : FirstCandidate(o) \/ TriageCandidate(o)
    BY <2>4 DEF FirstCandidate, TriageCandidate, BucketRestsOnEvidence
  <2>5. CASE TriageDone
    BY <2>5 DEF TriageDone, BucketRestsOnEvidence
  <2>6. CASE Classify
    BY <2>6, BucketAfterClassify
  <2>7. CASE UNCHANGED vars
    BY <2>7 DEF vars, BucketRestsOnEvidence
  <2> QED BY <2>1, <2>2, <2>3, <2>4, <2>5, <2>6, <2>7 DEF Next
<1> QED BY <1>1, <1>2, <1>3, PTL DEF Spec
=============================================================================
