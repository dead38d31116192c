------------------------------ MODULE ScmlGate ------------------------------
(***************************************************************************)
(* The SCML preflight (tools/preflight_scml_gate.py with the gate of       *)
(* targets/asterinas/scml.py).  A sweep builds every program of the source *)
(* list, runs it under strace, lets sctrace match the trace with what      *)
(* Asterinas declares to support, and publishes two lists, the eligible    *)
(* programs and the rejected ones with reasons, and a summary.  A sweep    *)
(* that is limited to some programs writes beside these files.             *)
(***************************************************************************)
EXTENDS Integers, FiniteSets

CONSTANTS
    Programs,    \* rows of the source list
    Jobs,        \* threads of a sweep
    Targets,     \* system calls that the programs' metadata name
    Outputs,     \* what sctrace may print: sets of lines
    Manifest,    \* by system call: [category, enabled]
    Profile,     \* [categories, syscalls]: categories enabled, system calls deferred
    MaxSweeps,   \* bound: sweeps
    MaxKills     \* bound: sweeps that are killed

Lines == UNION Outputs

\* Lines are [form, of, read, field]: the system call a line is of, the name that
\* parse_syscall_name finds in it, "" if none (no target is called that), and the
\* unsupported_ field of the manifest of which it has a value.
ASSUME GateAssumption ==
    /\ Jobs \in Nat \ {0} /\ MaxSweeps \in Nat /\ MaxKills \in Nat
    /\ {} \in Outputs /\ "" \notin Targets
    /\ \A l \in Lines : l.form \in {"unsupported", "parse error"} /\ l.read \in {"", l.of}

VARIABLES
    phase,       \* of the sweep: "idle", "tasks", or the file it writes next
    selected,    \* the programs of the sweep
    limited,     \* --limit or --program-id was given
    task,        \* task[p]: step of the thread that has p
    raised,      \* a task of the sweep ended with an exception
    verdict,     \* verdict[p]: reasons of this sweep, {} for an accepted program
    attempt,     \* attempt[p]: how far the last full sweep got with p
    printed,     \* printed[p]: preflight.sctrace.stdout.txt
    eligible, rejections, summary,      \* the published files
    unpublished, \* a full sweep has begun and has not published everything
    torn,        \* ... and has written to the published files
    sweeps, kills

gateVars == <<phase, selected, limited, task, raised, verdict, attempt, printed, eligible,
              rejections, summary, unpublished, torn, sweeps, kills>>

published == <<eligible, rejections, summary>>
evidence == <<attempt, printed>>

GateInit ==
    /\ phase = "idle" /\ selected = {} /\ limited = FALSE
    /\ task = [p \in Programs |-> "idle"] /\ raised = FALSE
    /\ verdict = [p \in Programs |-> {}]
    /\ attempt = [p \in Programs |-> "none"] /\ printed = [p \in Programs |-> {}]
    /\ eligible = {} /\ rejections = [p \in {} |-> {}] /\ summary = <<0, 0>>
    /\ unpublished = TRUE /\ torn = TRUE      \* nothing has been published yet
    /\ sweeps = 0 /\ kills = 0

-----------------------------------------------------------------------------
(* The gate                                                                *)

\* Mutant: the reason is the one for which the profile defers the call.
DeferReason(name) == IF name \in Profile.syscalls THEN name ELSE "category_not_enabled"

\* apply_generation_profile: an entry is enabled if neither it nor its category is deferred.
GenerationEnabled(name) ==
    /\ Manifest[name].enabled
    /\ name \notin Profile.syscalls
    /\ Manifest[name].category \in Profile.categories

StructPatterns == {"clone3"}
PathPatterns == {"mount", "open", "openat", "rename", "mkdir", "link", "unlink"}

PatternReason(l) ==
    CASE l.field = "" /\ l.read \in StructPatterns -> "unsupported_struct_pattern"
      [] l.field = "" /\ l.read \in PathPatterns -> "unsupported_path_pattern"
      [] OTHER -> "unsupported_flag_pattern"

Deferred(name) == "deferred_category"

\* classify_line of a line that relevant_output_lines has kept.
Reason(l) ==
    CASE l.form = "parse error" -> "scml_parser_gap"
      [] l.form # "parse error" /\ l.read \notin DOMAIN Manifest -> "syscall_not_in_manifest"
      [] l.form # "parse error" /\ l.read \in DOMAIN Manifest /\ ~GenerationEnabled(l.read) ->
           Deferred(l.read)
      [] OTHER -> PatternReason(l)

\* A line on another system call than the targets is dropped, and with it one whose name
\* cannot be read: no line classify_line gets has none.
Relevant(lines) == {l \in lines : l.form = "parse error" \/ l.read \in Targets}

Reasons(lines, succeeded) ==
    {Reason(l) : l \in Relevant(lines)} \cup IF succeeded THEN {} ELSE {"scml_parser_gap"}

Taxonomy == {"preflight_build_failure", "preflight_runtime_timeout",
             "preflight_runtime_failure", "preflight_matcher_timeout", "scml_parser_gap",
             "syscall_not_in_manifest", "deferred_category", "unsupported_flag_pattern",
             "unsupported_path_pattern", "unsupported_struct_pattern"}

-----------------------------------------------------------------------------
(* run_preflight of one program                                            *)

\* Mutant: a limited sweep has no directories of its own.
SameEvidence == TRUE

\* evidence_root: a limited sweep keeps its evidence elsewhere.
WritesEvidence == ~limited

Attempt(p, outcome) ==
    attempt' = IF WritesEvidence THEN [attempt EXCEPT ![p] = outcome] ELSE attempt

Busy == {p \in Programs : task[p] \in {"build", "trace", "match"}}

Advance(p, step) == task' = [task EXCEPT ![p] = step]

sweepOnly == <<phase, selected, limited, published, unpublished, torn, sweeps, kills>>

\* A thread takes a program; one thread means no pool, and no program after an exception.
Take(p) ==
    /\ phase = "tasks" /\ task[p] = "queued"
    /\ Cardinality(Busy) < Jobs
    /\ Jobs > 1 \/ ~raised
    /\ Advance(p, "build")
    /\ UNCHANGED <<sweepOnly, raised, verdict, evidence>>

Reject(p, reason) ==
    /\ verdict' = [verdict EXCEPT ![p] = {reason}]
    /\ Attempt(p, reason)
    /\ Advance(p, "done")

\* A build that fails rejects; what an earlier sweep printed stays where it is.
Build(p) ==
    /\ task[p] = "build"
    /\ \/ Reject(p, "preflight_build_failure")
       \/ Advance(p, "trace") /\ UNCHANGED <<verdict, attempt>>
    /\ UNCHANGED <<sweepOnly, raised, printed>>

Trace(p) ==
    /\ task[p] = "trace"
    /\ \/ Reject(p, "preflight_runtime_timeout")
       \/ Reject(p, "preflight_runtime_failure")
       \/ Advance(p, "match") /\ UNCHANGED <<verdict, attempt>>
    /\ UNCHANGED <<sweepOnly, raised, printed>>

\* sctrace, and the classification of what it printed.
Match(p) ==
    /\ task[p] = "match"
    /\ \E lines \in Outputs :
         /\ printed' = IF WritesEvidence THEN [printed EXCEPT ![p] = lines] ELSE printed
         /\ \/ Reject(p, "preflight_matcher_timeout")
            \/ \E succeeded \in BOOLEAN :
                 /\ verdict' = [verdict EXCEPT ![p] = Reasons(lines, succeeded)]
                 /\ Attempt(p, IF succeeded THEN "matched" ELSE "matcher failed")
                 /\ Advance(p, "done")
    /\ UNCHANGED <<sweepOnly, raised>>

\* An exception of build_one, of a tool that is missing, of output that is no text or of
\* the metadata, which are read when sctrace's output has been written.
Raise(p) ==
    /\ p \in Busy
    /\ raised' = TRUE
    /\ Attempt(p, "raised")
    /\ Advance(p, "raised")
    /\ \/ UNCHANGED printed
       \/ /\ task[p] = "match" /\ WritesEvidence
          /\ \E lines \in Outputs : printed' = [printed EXCEPT ![p] = lines]
    /\ UNCHANGED <<sweepOnly, verdict>>

-----------------------------------------------------------------------------
(* main                                                                    *)

Begin(programs, option) ==
    /\ phase = "idle" /\ sweeps < MaxSweeps
    /\ sweeps' = sweeps + 1
    /\ phase' = "tasks"
    /\ option \/ programs = Programs
    /\ selected' = programs /\ limited' = option
    /\ task' = [p \in Programs |-> IF p \in programs THEN "queued" ELSE "idle"]
    /\ raised' = FALSE
    /\ verdict' = [p \in Programs |-> {}]
    /\ unpublished' = (unpublished \/ ~option)
    /\ UNCHANGED <<evidence, published, torn, kills>>

Stop == phase' = "idle" /\ UNCHANGED <<selected, limited, evidence, sweeps>>

\* What a sweep knows of its tasks is gone when it is over.
Forget ==
    /\ task' = [p \in Programs |-> "idle"] /\ raised' = FALSE
    /\ verdict' = [p \in Programs |-> {}]

\* Mutant: an exception costs its program alone.
Swallowed == FALSE

MustDie == raised

\* The executor waits for every task; then the first exception ends the sweep.
Die ==
    /\ phase = "tasks" /\ Busy = {} /\ MustDie
    /\ Jobs > 1 => \A p \in selected : task[p] # "queued"
    /\ Stop /\ Forget
    /\ UNCHANGED <<published, unpublished, torn, kills>>

Done == {p \in selected : task[p] = "done"}
Accepted == {p \in Done : verdict[p] = {}}

Publish ==
    /\ phase = "tasks" /\ ~MustDie
    /\ \A p \in selected : task[p] \in {"done", "raised"}
    /\ IF ~limited
       THEN phase' = "eligible" /\ UNCHANGED <<limited, selected, task, raised, verdict,
                                                     evidence, sweeps>>
       ELSE Stop /\ Forget
    /\ UNCHANGED <<published, unpublished, torn, kills>>

sweepState == <<selected, limited, task, raised, verdict, evidence, sweeps, kills>>

WriteEligible ==
    /\ phase = "eligible"
    /\ eligible' = Accepted
    /\ torn' = TRUE
    /\ phase' = "rejections"
    /\ UNCHANGED <<sweepState, rejections, summary, unpublished>>

WriteRejections ==
    /\ phase = "rejections"
    /\ rejections' = [p \in Done \ Accepted |-> verdict[p]]
    /\ phase' = "summary"
    /\ UNCHANGED <<sweepState, eligible, summary, unpublished, torn>>

WriteSummary ==
    /\ phase = "summary"
    /\ summary' = <<Cardinality(Accepted), Cardinality(Done \ Accepted)>>
    /\ torn' = FALSE /\ unpublished' = FALSE
    /\ Stop /\ Forget
    /\ UNCHANGED <<eligible, rejections, kills>>

\* The user stops the sweep, or it is killed; a list that is being written is cut.
Kill ==
    /\ phase # "idle" /\ kills < MaxKills
    /\ kills' = kills + 1
    /\ Stop /\ Forget
    /\ \/ UNCHANGED <<published, torn>>
       \/ /\ phase = "eligible"
          /\ torn' = TRUE /\ eligible' \in SUBSET Accepted
          /\ UNCHANGED <<rejections, summary>>
       \/ /\ phase = "rejections"
          /\ \E listed \in SUBSET (Done \ Accepted) :
               rejections' = [p \in listed |-> verdict[p]]
          /\ UNCHANGED <<eligible, summary, torn>>
    /\ UNCHANGED unpublished

GateNext ==
    \/ \E programs \in SUBSET Programs, option \in BOOLEAN : Begin(programs, option)
    \/ \E p \in Programs : Take(p) \/ Build(p) \/ Trace(p) \/ Match(p) \/ Raise(p)
    \/ Die \/ Publish \/ WriteEligible \/ WriteRejections \/ WriteSummary \/ Kill

GateSpec == GateInit /\ [][GateNext]_gateVars

-----------------------------------------------------------------------------
GateTypeOK ==
    /\ phase \in {"idle", "tasks", "eligible", "rejections", "summary"}
    /\ selected \subseteq Programs /\ limited \in BOOLEAN
    /\ task \in [Programs -> {"idle", "queued", "build", "trace", "match", "done", "raised"}]
    /\ raised \in BOOLEAN
    /\ verdict \in [Programs -> SUBSET Taxonomy]
    /\ attempt \in [Programs -> Taxonomy \cup {"none", "matched", "matcher failed", "raised"}]
    /\ printed \in [Programs -> Outputs]
    /\ eligible \subseteq Programs
    /\ DOMAIN rejections \subseteq Programs
    /\ \A p \in DOMAIN rejections : rejections[p] \in (SUBSET Taxonomy) \ {{}}
    /\ unpublished \in BOOLEAN /\ torn \in BOOLEAN
    /\ sweeps \in 0 .. MaxSweeps /\ kills \in 0 .. MaxKills

\* Unless a sweep is publishing or was killed while it did, the published files are of one
\* sweep and account for every program of the source list exactly once: exceptions of
\* tasks, limited sweeps and sweeps that died do not make one disappear.
PublishedIsWhole ==
    ~torn => /\ eligible \cap DOMAIN rejections = {}
             /\ eligible \cup DOMAIN rejections = Programs
             /\ summary = <<Cardinality(eligible), Cardinality(DOMAIN rejections)>>

\* Unless a full sweep is under way or did not get to its end, the evidence kept beside the
\* lists is the one they were made from: an eligible program was built, ran and was
\* matched, and sctrace complained of none of its system calls, but in lines whose name
\* cannot be read; a rejected one has a reason in the evidence.
ListsAreBacked ==
    ~unpublished =>
        /\ \A p \in eligible :
             /\ attempt[p] = "matched"
             /\ \A l \in printed[p] : l.form = "unsupported" /\ (l.of \in Targets => l.read = "")
        /\ \A p \in DOMAIN rejections :
             \/ attempt[p] \in Taxonomy /\ rejections[p] = {attempt[p]}
             \/ attempt[p] = "matcher failed" /\ "scml_parser_gap" \in rejections[p]
             \/ attempt[p] = "matched" /\ \E l \in printed[p] :
                                           l.form = "parse error" \/ l.of \in Targets
=============================================================================
