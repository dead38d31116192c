------------------------------- MODULE Reducer -------------------------------
(***************************************************************************)
(* tools/reduce_case.py: greedy_reduce.  Starting from a program that      *)
(* diverged, drop one call at a time, from the last to the first; keep the *)
(* first smaller program that still diverges in one run and in three       *)
(* confirming runs, and start again from it.  The trial without call i is  *)
(* written to the file drop-i, and an accepted trial's file becomes the    *)
(* program that the next trials are derived from.                          *)
(*                                                                         *)
(* A program is the sequence of its calls.  A run is what run_case         *)
(* returns: the comparison of the last attempt.                            *)
(***************************************************************************)
EXTENDS Integers, Sequences

CONSTANTS
    Source,      \* the program to reduce
    RerunCount   \* confirming runs of a trial (3)

ASSUME ReducerAssumption ==
    /\ Source \in Seq(Nat)
    /\ RerunCount \in Nat

\* syzabi_mutate: program p without its k-th call (k counts from 0).
DropCall(p, k) == SubSeq(p, 1, k) \o SubSeq(p, k + 2, Len(p))

\* The programs that dropping calls can lead to.
Kept(S) == SelectSeq(Source, LAMBDA c : c \in S)
Reducts == {Kept(S) : S \in SUBSET {Source[i] : i \in 1 .. Len(Source)}}

Drops == 0 .. Len(Source) - 1

NoProgram == <<0>>
NoFile == -1   \* initial_program is still the source's own file

VARIABLES
    overlay,     \* scml_overlay_enabled
    recorded,    \* the campaign row holds evidence that passes the SCML invariants
    flaky,       \* TRUE: every run may go either way
    steady,      \* if ~flaky, the programs that diverge whenever they are run
    files,       \* files[k]: contents of drop-k
    base,        \* initial_program: NoFile or the k of drop-k
    text,        \* current_text
    info,        \* the program that current_info describes
    comparison,  \* current_comparison
    origin,      \* whether current_comparison and current_runs are of a run of the
                 \* reducer or of the campaign row
    preflight,   \* current_preflight's status
    replay_mode, \* current_preflight's reducer_replay_mode
    blocked,     \* reduction_blocked
    confirmed,
    changed,
    drop,        \* drop_index
    trial,       \* trial_comparison
    confirms,    \* confirming runs of this trial
    step

reduceVars == <<overlay, recorded, flaky, steady, files, base, text, info, comparison, origin,
                preflight, replay_mode, blocked, confirmed, changed, drop, trial, confirms, step>>

world == <<overlay, recorded, flaky, steady>>
current == <<base, text, info, comparison, origin, preflight, replay_mode, confirmed>>
atHand == <<comparison, origin, preflight, replay_mode, blocked, confirmed>>

-----------------------------------------------------------------------------
Divergences == {"at_call", "elsewhere"}
Comparisons == {"none", "equivalent"} \cup Divergences

\* What run_case may answer for program p: a comparison, SystemExit ("exit") or another
\* exception ("error").  A divergence may lie in a call of the program or in a call
\* of the runtime or the final state (map_event_index_to_program_call is None).
RunCase(p) ==
    IF flaky THEN {"equivalent", "exit", "error"} \cup Divergences
             ELSE IF p \in steady THEN {"at_call"} ELSE {"equivalent"}

\* What scml_preflight_for_program may answer.
Preflight == IF flaky THEN {"passed", "rejected", "exit", "error"} ELSE {"passed"}

\* scml_reduction_invariants_hold
InvariantsHold(cmp, status) == cmp = "at_call" /\ status = "passed"

\* Contents of the file initial_program.
BaseText == IF base = NoFile THEN Source ELSE files[base]

ReduceInit ==
    /\ overlay \in BOOLEAN
    /\ recorded \in BOOLEAN
    /\ flaky \in BOOLEAN
    /\ steady \in (IF flaky THEN {{}} ELSE SUBSET Reducts)
    /\ files = [k \in Drops |-> NoProgram]
    /\ base = NoFile
    /\ text = Source
    /\ info = Source
    /\ comparison = "none"
    /\ origin = "none"
    /\ preflight = "none"
    /\ replay_mode = "none"
    /\ blocked = FALSE
    /\ confirmed = TRUE
    /\ changed = TRUE
    /\ drop = NoFile
    /\ trial = "none"
    /\ confirms = 0
    /\ step = "replay"

-----------------------------------------------------------------------------
(* Before the reduction.                                                   *)

\* Mutant: the last of the three branches forgets to say so.
ConfirmedUnlessReplayFailed(next) == next = "pass" /\ confirmed

\* confirmed, once a branch that goes on at next has fallen back on recorded evidence.
ConfirmedAfterRecovery(next) == FALSE

\* require_recorded_source_evidence: comparison, runs and preflight of the campaign row,
\* or SystemExit.
Recover(next) ==
    IF recorded
    THEN /\ comparison' = "at_call"
         /\ origin' = "recorded"
         /\ preflight' = "passed"
         /\ replay_mode' = "recovery_only"
         /\ blocked' = TRUE
         /\ confirmed' = ConfirmedAfterRecovery(next)
         /\ step' = next
    ELSE /\ step' = "exited"
         /\ UNCHANGED atHand

\* A fresh run of the source program.
Replay ==
    /\ step = "replay"
    /\ \E o \in RunCase(Source) :
         \/ /\ o \in Comparisons
            /\ comparison' = o
            /\ origin' = "fresh"
            /\ step' = IF overlay THEN "preflight" ELSE "pass"
            /\ UNCHANGED <<preflight, replay_mode, blocked, confirmed>>
         \/ o = "exit" /\ overlay /\ Recover("check")
         \/ /\ o = "error" \/ (o = "exit" /\ ~overlay)
            /\ step' = "exited"
            /\ UNCHANGED atHand
    /\ UNCHANGED <<world, files, base, text, info, changed, drop, trial, confirms>>

PreflightSource ==
    /\ step = "preflight"
    /\ \E s \in Preflight :
         \/ /\ s \in {"passed", "rejected"}
            /\ preflight' = s
            /\ replay_mode' = "fresh_replay"
            /\ step' = "check"
            /\ UNCHANGED <<comparison, origin, blocked, confirmed>>
         \/ s = "exit" /\ Recover("check")
         \/ /\ s = "error"
            /\ step' = "exited"
            /\ UNCHANGED atHand
    /\ UNCHANGED <<world, files, base, text, info, changed, drop, trial, confirms>>

\* With the overlay a source that no longer diverges is not reduced.
CheckSource ==
    /\ step = "check"
    /\ IF InvariantsHold(comparison, preflight)
       THEN step' = "pass" /\ UNCHANGED atHand
       ELSE Recover("pass")
    /\ UNCHANGED <<world, files, base, text, info, changed, drop, trial, confirms>>

-----------------------------------------------------------------------------
(* The reduction.                                                          *)

\* current_info["call_count"]
CallCount == Len(info)

\* while changed and not reduction_blocked
BeginPass ==
    /\ step = "pass"
    /\ IF changed /\ ~blocked
       THEN /\ changed' = FALSE
            /\ drop' = CallCount - 1
            /\ step' = "trial"
       ELSE step' = "report" /\ UNCHANGED <<changed, drop>>
    /\ UNCHANGED <<world, files, current, blocked, trial, confirms>>

EndPass ==
    /\ step = "trial"
    /\ drop < 0
    /\ step' = "pass"
    /\ UNCHANGED <<world, files, current, blocked, changed, drop, trial, confirms>>

\* Mutant: the call that was just tried is tried again.
SameDrop == drop

PreviousDrop == drop - 1

\* continue: the trial is given up; its file stays.
NextDrop == step' = "trial" /\ drop' = PreviousDrop

\* mutate_drop_call, write_text and the first run of the trial.  mutate_drop_call reads
\* the file of the current program, which an earlier trial of this pass may have
\* overwritten; it fails if there is no such call.
Trial ==
    /\ step = "trial"
    /\ drop >= 0
    /\ confirms' = 0
    /\ IF drop >= Len(BaseText)
       THEN step' = "exited" /\ UNCHANGED <<files, trial, drop>>
       ELSE LET p == DropCall(BaseText, drop)
            IN  /\ files' = [files EXCEPT ![drop] = p]
                /\ \E o \in RunCase(p) :
                     \/ o \in {"equivalent", "exit"} /\ NextDrop /\ UNCHANGED trial
                     \/ o = "error" /\ step' = "exited" /\ UNCHANGED <<trial, drop>>
                     \/ /\ o \in Divergences
                        /\ trial' = o
                        /\ step' = IF overlay THEN "trial_preflight" ELSE "confirm"
                        /\ UNCHANGED drop
    /\ UNCHANGED <<world, current, blocked, changed>>

TrialPreflight ==
    /\ step = "trial_preflight"
    /\ \E s \in Preflight :
         \/ s = "error" /\ step' = "exited" /\ UNCHANGED drop
         \/ s # "error" /\ ~InvariantsHold(trial, s) /\ NextDrop
         \/ InvariantsHold(trial, s) /\ step' = "confirm" /\ UNCHANGED drop
    /\ UNCHANGED <<world, files, current, blocked, changed, trial, confirms>>

\* _confirm_divergence: one more run of the trial.
Confirm ==
    /\ step = "confirm"
    /\ confirms < RerunCount
    /\ \E o \in RunCase(files[drop]) :
         \/ o \in Divergences /\ confirms' = confirms + 1 /\ UNCHANGED <<step, drop>>
         \/ o \in {"equivalent", "exit"} /\ NextDrop /\ UNCHANGED confirms
         \/ o = "error" /\ step' = "exited" /\ UNCHANGED <<drop, confirms>>
    /\ UNCHANGED <<world, files, current, blocked, changed, trial>>

\* read_text(trial_path)
AcceptedText == files[drop]

\* initial_program = trial_path
NextBase == drop

Accept ==
    /\ step = "confirm"
    /\ confirms = RerunCount
    /\ text' = AcceptedText
    /\ info' = files[drop]
    /\ comparison' = trial
    /\ origin' = "fresh"
    /\ preflight' = IF overlay THEN "passed" ELSE "none"
    /\ replay_mode' = IF overlay THEN "fresh_replay" ELSE "none"
    /\ base' = NextBase
    /\ changed' = TRUE
    /\ step' = "pass"
    /\ UNCHANGED <<world, files, blocked, confirmed, drop, trial, confirms>>

\* Mutant: the program is read back from the file it was derived from.
ReadBack == BaseText

\* What is written to <program_id>-minimized.syz.
FinalText == text

\* The minimized program and main's report.  With the overlay a report needs a
\* divergence in a call of the program.
Report ==
    /\ step = "report"
    /\ text' = FinalText
    /\ step' = IF overlay /\ comparison # "at_call" THEN "exited" ELSE "done"
    /\ UNCHANGED <<world, files, base, info, atHand, changed, drop, trial, confirms>>

ReduceNext ==
    \/ Replay \/ PreflightSource \/ CheckSource
    \/ BeginPass \/ EndPass \/ Trial \/ TrialPreflight \/ Confirm \/ Accept \/ Report

\* One thread; every run it waits for ends (RunCase).
ReduceSpec == ReduceInit /\ [][ReduceNext]_reduceVars /\ WF_reduceVars(ReduceNext)

-----------------------------------------------------------------------------
ReduceTypeOK ==
    /\ overlay \in BOOLEAN /\ recorded \in BOOLEAN /\ flaky \in BOOLEAN
    /\ steady \subseteq Reducts
    /\ files \in [Drops -> Reducts \cup {NoProgram}]
    /\ base \in Drops \cup {NoFile}
    /\ text \in Reducts /\ info \in Reducts
    /\ comparison \in Comparisons /\ trial \in {"none"} \cup Divergences
    /\ origin \in {"none", "fresh", "recorded"}
    /\ preflight \in {"none", "passed", "rejected"}
    /\ replay_mode \in {"none", "fresh_replay", "recovery_only"}
    /\ blocked \in BOOLEAN /\ confirmed \in BOOLEAN /\ changed \in BOOLEAN
    /\ drop \in Drops \cup {NoFile}
    /\ confirms \in 0 .. RerunCount
    /\ step \in {"replay", "preflight", "check", "pass", "trial", "trial_preflight",
                 "confirm", "report", "done", "exited"}

\* Evidence that the reducer made itself: its runs, and its preflight.
FreshEvidence == origin = "fresh" /\ replay_mode = "fresh_replay"

\* Evidence of the campaign row, which is of the source program.
RecordedEvidence ==
    /\ origin = "recorded" /\ replay_mode = "recovery_only"
    /\ recorded /\ text = Source

\* Every report with the SCML overlay has a divergence in a call of the program and a
\* passed preflight.  One that says "confirmed" has both from runs of its own; one that
\* does not has both from the campaign.  Whichever of the three branches of greedy_reduce
\* falls back on recorded evidence, and after whatever fresh run or preflight, the two
\* kinds are never mixed and recorded evidence is never passed off as fresh.
OverlayReportIsSound ==
    step = "done" /\ overlay =>
      /\ comparison = "at_call" /\ preflight = "passed"
      /\ IF confirmed THEN FreshEvidence ELSE RecordedEvidence

\* The program that is handed out is the one the evidence in the report is about,
\* although the file it came from may have been overwritten by later trials; if programs
\* behave the same in every run and it is not the source program, it diverges.
ReducedProgramDiverges ==
    step = "done" => text = info /\ (~flaky /\ text # Source => text \in steady)

\* The reduction ends.
Terminates == <>(step \in {"done", "exited"})
=============================================================================
