------------------------------- MODULE Compare -------------------------------
(***************************************************************************)
(* The trace comparator, analyzer/compare.py: compare_canonical walks two  *)
(* canonical traces in lockstep, stops at the first pair of events that    *)
(* differ in something that matters, and then looks at the final state and *)
(* the process exit.  The walk is one step per event pair; the result it   *)
(* returns is set against definitions that quantify over all pairs.        *)
(*                                                                         *)
(* A canonical trace's event_count is the length of its event list and an  *)
(* event's index is its position (normalize.py), so neither is kept.       *)
(***************************************************************************)
EXTENDS Integers, Sequences

CONSTANTS
    Syscall,        \* system call names
    NoiseSyscalls,  \* normalization.noise_syscalls of the workflow config
    Args, Ret, Errno, Outputs,   \* the values of the four compared fields
    FinalState,     \* sampled external states
    ProcessExit,    \* values of process_exit
    Traces,         \* the canonical traces under comparison
    None            \* Python's None

Event == [syscall_name : Syscall, args : Args, return_value : Ret,
          errno : Errno, outputs : Outputs]

Trace == [events : Seq(Event), final_state : FinalState,
          process_exit : ProcessExit]

ASSUME ConstantsAssumption ==
    /\ Traces \subseteq Trace
    /\ None \notin Nat

VARIABLES
    reference, candidate,   \* the arguments
    i,                      \* position of the next pair, from 1
    first_divergence_index,
    noise_only,
    comparison,             \* the returned dictionary
    pc

vars == <<reference, candidate, i, first_divergence_index, noise_only,
          comparison, pc>>

-----------------------------------------------------------------------------
Lower(m, n) == IF m <= n THEN m ELSE n

Count(trace) == Len(trace.events)

Fields == {"args", "return_value", "errno", "outputs"}

IsNoiseEvent(left, right) ==
    /\ left.syscall_name = right.syscall_name
    /\ left.syscall_name \in NoiseSyscalls
    /\ \A field \in {"args", "outputs"} : left[field] = right[field]

\* The body of the loop leaves first_divergence_index set.
EventDiverges(left, right) ==
    \/ left.syscall_name # right.syscall_name
    \/ \E field \in Fields :
          /\ left[field] # right[field]
          /\ ~ (IsNoiseEvent(left, right) /\ field \in {"return_value", "errno"})

\* Mutant: one-based instead of zero-based.
DivergenceIndexOneBased == i

\* left["index"] of the pair under comparison.
DivergenceIndex == i - 1

NextPosition == i + 1

\* A process exit that differs is blamed on the end of the trace.
IndexAfterExit(process_exit_equal) ==
    IF ~ process_exit_equal /\ first_divergence_index = None
      THEN Count(reference) ELSE first_divergence_index

NoiseAfterState(process_exit_equal, equivalent) ==
    noise_only /\ process_exit_equal /\ ~ equivalent

\* Mutant: the final state is not looked at.
EquivalentButState(index, final_state_equal, process_exit_equal) ==
    index = None /\ process_exit_equal

Equivalent(index, final_state_equal, process_exit_equal) ==
    index = None /\ final_state_equal /\ process_exit_equal

Result(equivalent, noise, index, reason) ==
    [equivalent |-> equivalent, noise_only |-> noise,
     first_divergence_index |-> index, reason |-> reason]

-----------------------------------------------------------------------------
Begin ==
    /\ i = 1
    /\ first_divergence_index = None
    /\ noise_only = TRUE
    /\ comparison = None
    /\ pc = "counts"

Init == reference \in Traces /\ candidate \in Traces /\ Begin

\* Traces of different length are told apart without looking at an event.
CompareCounts ==
    /\ pc = "counts"
    /\ IF Count(reference) # Count(candidate)
         THEN /\ comparison' = Result(FALSE, FALSE,
                                      Lower(Count(reference), Count(candidate)),
                                      "event_count_mismatch")
              /\ pc' = "done"
         ELSE /\ pc' = "events"
              /\ UNCHANGED comparison
    /\ UNCHANGED <<reference, candidate, i, first_divergence_index, noise_only>>

CompareEvent ==
    /\ pc = "events"
    /\ i <= Count(reference)
    /\ IF EventDiverges(reference.events[i], candidate.events[i])
         THEN /\ first_divergence_index' = DivergenceIndex
              /\ noise_only' = FALSE
              /\ pc' = "state"
              /\ UNCHANGED i
         ELSE /\ i' = NextPosition
              /\ UNCHANGED <<first_divergence_index, noise_only, pc>>
    /\ UNCHANGED <<reference, candidate, comparison>>

EventsExhausted ==
    /\ pc = "events"
    /\ i > Count(reference)
    /\ pc' = "state"
    /\ UNCHANGED <<reference, candidate, i, first_divergence_index, noise_only,
                   comparison>>

CompareState ==
    /\ pc = "state"
    /\ LET final_state_equal == reference.final_state = candidate.final_state
           process_exit_equal == reference.process_exit = candidate.process_exit
           index == IndexAfterExit(process_exit_equal)
           equivalent == Equivalent(index, final_state_equal, process_exit_equal)
           noise == NoiseAfterState(process_exit_equal, equivalent)
       IN  /\ first_divergence_index' = index
           /\ noise_only' = noise
           /\ comparison' = Result(equivalent, noise /\ final_state_equal, index,
                                   IF equivalent THEN "no_diff" ELSE "content_mismatch")
    /\ pc' = "done"
    /\ UNCHANGED <<reference, candidate, i>>

Next == CompareCounts \/ CompareEvent \/ EventsExhausted \/ CompareState

Spec == Init /\ [][Next]_vars /\ WF_vars(Next)

-----------------------------------------------------------------------------
(* What the comparison should mean.                                        *)

\* Two events show the same behaviour: everything but the result of a noise
\* system call agrees.
SameBehaviour(left, right) ==
    /\ left.syscall_name = right.syscall_name
    /\ left.args = right.args
    /\ left.outputs = right.outputs
    /\ \/ left.syscall_name \in NoiseSyscalls
       \/ left.return_value = right.return_value /\ left.errno = right.errno

EquivalentTraces(left, right) ==
    /\ Count(left) = Count(right)
    /\ \A k \in 1 .. Count(left) : SameBehaviour(left.events[k], right.events[k])
    /\ left.final_state = right.final_state
    /\ left.process_exit = right.process_exit

TypeOK ==
    /\ reference \in Traces
    /\ candidate \in Traces
    /\ i \in Nat \ {0}
    /\ first_divergence_index \in Nat \cup {None}
    /\ noise_only \in BOOLEAN
    /\ pc \in {"counts", "events", "state", "done"}
    /\ pc = "done" =>
          comparison \in [equivalent : BOOLEAN, noise_only : BOOLEAN,
                          first_divergence_index : Nat \cup {None},
                          reason : {"event_count_mismatch", "no_diff", "content_mismatch"}]

\* The early exits of the walk lose nothing: compare_canonical reports two traces
\* equivalent exactly when they have as many events, every pair shows the same
\* behaviour, and the final states and the process exits agree.
VerdictIsPointwise ==
    pc = "done" => (comparison.equivalent <=> EquivalentTraces(reference, candidate))

\* Two traces of one length part at d, an index from 0: all pairs before it show the
\* same behaviour, and then comes a pair that does not, or, past the last pair, a
\* process exit that differs.
PartAt(left, right, d) ==
    /\ \A k \in 1 .. d : SameBehaviour(left.events[k], right.events[k])
    /\ \/ /\ d < Count(left)
          /\ ~ SameBehaviour(left.events[d + 1], right.events[d + 1])
       \/ /\ d = Count(left)
          /\ left.process_exit # right.process_exit

\* What compare_canonical's first_divergence_index says.  For traces of one length it is
\* the first place where they part.  For traces of different length it is not: no event
\* is looked at (compare.py:20-26), pairs before the index may differ too, and the index
\* is the first position that only the longer trace has; the reason tells the two apart.
ReportedIndexIsJustified ==
    pc = "done" /\ comparison.first_divergence_index # None =>
       IF Count(reference) = Count(candidate)
         THEN /\ PartAt(reference, candidate, comparison.first_divergence_index)
              /\ comparison.reason = "content_mismatch"
         ELSE /\ comparison.first_divergence_index
                    = Lower(Count(reference), Count(candidate))
              /\ comparison.reason = "event_count_mismatch"

\* A divergence without an index (the reducer and the reports read None as "no
\* call to blame") is a difference of the final state and of nothing else.
MissingIndexIsFinalState ==
    pc = "done" /\ ~ comparison.equivalent /\ comparison.first_divergence_index = None =>
       /\ reference.final_state # candidate.final_state
       /\ reference.process_exit = candidate.process_exit
       /\ Count(reference) = Count(candidate)
       /\ \A k \in 1 .. Count(reference) :
             SameBehaviour(reference.events[k], candidate.events[k])

\* compare_canonical never reports noise_only: a walk that finds no divergence
\* and an equal process exit and final state is equivalent, and then noise_only
\* is cleared.  classify_result's noise_only branch is therefore never taken.
NoiseOnlyNeverReported == pc = "done" => ~ comparison.noise_only
=============================================================================
