----------------------------- MODULE BuildCache -----------------------------
(***************************************************************************)
(* The build directory of one program (tools/prog2c_wrap.py): build_one    *)
(* takes fingerprints of its inputs, reuses the directory if               *)
(* load_cached_build_result accepts it, and otherwise generates C code,    *)
(* compiles it for the reference and for the candidate kernel, and writes  *)
(* build-result.json last.  Inputs change at any time, a build may be      *)
(* interrupted anywhere, and a campaign looks at the status only           *)
(* (orchestrator/stability.py, build_status_ok).                           *)
(*                                                                         *)
(* The fingerprinted inputs are of two kinds: what syz-prog2c reads (the   *)
(* program, the tool, its configuration) and what the compilers read (the  *)
(* tracer and the runners).  One build runs at a time, with a candidate    *)
(* binary of its own, as for every command runner.                         *)
(***************************************************************************)
EXTENDS Integers, FiniteSetsExt

CONSTANTS
    Texts,        \* the contents an input may have
    MaxEdits,     \* bound: writes of inputs
    MaxBuilds,    \* bound: calls of build_one
    None

ASSUME BuildAssumption == Texts # {} /\ MaxEdits \in Nat /\ MaxBuilds \in Nat

Inputs == {"generator", "tracer"}

Sides == {"reference", "candidate"}

Fingerprints == [Inputs -> Texts]

Time == Nat

\* An input: its modification time, and when this content was put in place.  The two differ
\* for a file that was moved there, or copied with its times.
Input == [text : Texts, mtime : Time, written : Time]

\* testcase.c.
Stamped == [text : Texts, mtime : Time]

Binary == [source : Texts, tracer : Texts, torn : BOOLEAN, mtime : Time]

BuildRecord == [status : {"ok", "build_failure"}, fp : Fingerprints, torn : BOOLEAN,
                mtime : Time, started : Time]

\* A missing file is none of these.
ASSUME NoneAssumption == None \notin Stamped \cup Binary \cup BuildRecord

VARIABLES
    clock,       \* the time of the last write
    inputs,      \* content and times of every input
    source,      \* testcase.c and its instrumented form
    bins,        \* testcase.bin and testcase.candidate.bin
    result,      \* build-result.json, and when the fingerprints of its build were taken
    stage,       \* where build_one is
    fp,          \* build_fingerprints
    started,     \* when they were taken
    toolText,    \* what the tool that runs now has read
    failed,      \* a step of this build failed
    dirty,       \* a build was interrupted after the result was written
    edits, builds

buildVars == <<clock, inputs, source, bins, result, stage, fp, started, toolText, failed,
               dirty, edits, builds>>

disk == <<inputs, source, bins, result>>
locals == <<fp, started, toolText, failed>>
counters == <<edits, builds>>

-----------------------------------------------------------------------------
\* build_one returns, and its local variables are gone.
Return ==
    /\ stage' = "idle"
    /\ fp' = None
    /\ started' = 0
    /\ toolText' = None
    /\ failed' = FALSE

BuildInit ==
    /\ clock = 0
    /\ \E t \in Texts : inputs = [i \in Inputs |-> [text |-> t, mtime |-> 0, written |-> 0]]
    /\ source = None
    /\ bins = [s \in Sides |-> None]
    /\ result = None
    /\ stage = "idle"
    /\ fp = None
    /\ started = 0
    /\ toolText = None
    /\ failed = FALSE
    /\ dirty = FALSE
    /\ edits = 0
    /\ builds = 0

\* An input is edited, updated, or set back to what it was; a backup that is moved back
\* brings its old time along.  The older that time, the more the cache accepts: it is
\* taken as older than everything in the directory.
Edit(i, t) ==
    /\ edits < MaxEdits
    /\ edits' = edits + 1
    /\ clock' = clock + 1
    /\ \E m \in {0, clock + 1} :
         inputs' = [inputs EXCEPT ![i] = [text |-> t, mtime |-> m, written |-> clock + 1]]
    /\ UNCHANGED <<source, bins, result, stage, locals, dirty, builds>>

Current == [i \in Inputs |-> inputs[i].text]

\* build_input_fingerprints.
TakeFingerprints ==
    /\ stage = "idle"
    /\ builds < MaxBuilds
    /\ builds' = builds + 1
    /\ fp' = Current
    /\ started' = clock
    /\ stage' = "lookup"
    /\ UNCHANGED <<clock, disk, toolText, failed, dirty, edits>>

NewestInput == Max({inputs[i].mtime : i \in Inputs})

OutputTimes == {source.mtime} \cup {bins[s].mtime : s \in Sides}

\* Mutant: the time of build-result.json itself is left out.
OldestProduct == Min(OutputTimes)

OldestOutput == Min({result.mtime} \cup OutputTimes)

\* load_cached_build_result.
Cached ==
    /\ result # None
    /\ ~ result.torn
    /\ result.status = "ok"
    /\ source # None /\ \A s \in Sides : bins[s] # None
    /\ result.fp = fp
    /\ OldestOutput >= NewestInput

Hit ==
    /\ stage = "lookup"
    /\ Cached
    /\ Return
    /\ UNCHANGED <<clock, disk, dirty, counters>>

Miss ==
    /\ stage = "lookup"
    /\ ~ Cached
    /\ stage' = "prog2c"
    /\ UNCHANGED <<clock, disk, locals, dirty, counters>>

\* build_prog2c: the code is in memory when the tool is done.
Prog2c ==
    /\ stage = "prog2c"
    /\ \/ /\ toolText' = inputs["generator"].text
          /\ stage' = "source"
          /\ UNCHANGED failed
       \/ /\ failed' = TRUE
          /\ stage' = "report"
          /\ UNCHANGED toolText
    /\ UNCHANGED <<clock, disk, fp, started, dirty, counters>>

\* testcase.c, then its instrumented form, which is the older of the two after an
\* interruption in between, so that the pair counts as not written.
WriteSource ==
    /\ stage = "source"
    /\ clock' = clock + 1
    /\ source' = [text |-> toolText, mtime |-> clock + 1]
    /\ stage' = "reference"
    /\ UNCHANGED <<inputs, bins, result, locals, dirty, counters>>

Compiling == [reference |-> "compiles reference", candidate |-> "compiles candidate"]

\* compile_testcase: the compiler reads the tracer and the runner ...
StartCompiler(s) ==
    /\ stage = s
    /\ toolText' = inputs["tracer"].text
    /\ stage' = Compiling[s]
    /\ UNCHANGED <<clock, disk, fp, started, failed, dirty, counters>>

AfterCompiler(s) == IF s = "reference" THEN "candidate" ELSE "report"

\* ... and leaves a binary,
CompilerEnds(s) ==
    /\ stage = Compiling[s]
    /\ clock' = clock + 1
    /\ bins' = [bins EXCEPT ![s] = [source |-> source.text, tracer |-> toolText,
                                    torn |-> FALSE, mtime |-> clock + 1]]
    /\ stage' = AfterCompiler(s)
    /\ UNCHANGED <<inputs, source, result, locals, dirty, counters>>

\* Mutant: a compiler that fails is not noticed.
FailureUnnoticed(s) ==
    /\ stage = Compiling[s]
    /\ stage' = AfterCompiler(s)
    /\ UNCHANGED <<clock, disk, locals, dirty, counters>>

\* or fails and leaves what was there.
CompilerFails(s) ==
    /\ stage = Compiling[s]
    /\ failed' = TRUE
    /\ stage' = AfterCompiler(s)
    /\ UNCHANGED <<clock, disk, fp, started, toolText, dirty, counters>>

\* compiler_for_side raises ValueError: the other side is not compiled.
NoCompiler(s) ==
    /\ stage = s
    /\ failed' = TRUE
    /\ stage' = "report"
    /\ UNCHANGED <<clock, disk, fp, started, toolText, dirty, counters>>

\* The result, as it is while it is being written.  (Fingerprints count only with ok.)
BuildResult ==
    [status |-> IF failed THEN "build_failure" ELSE "ok", fp |-> fp,
     torn |-> TRUE, mtime |-> clock + 1, started |-> started]

\* dump_json truncates build-result.json ...
StartReport ==
    /\ stage = "report"
    /\ clock' = clock + 1
    /\ result' = BuildResult
    /\ stage' = "reporting"
    /\ UNCHANGED <<inputs, source, bins, locals, dirty, counters>>

\* ... and writes it.
EndReport ==
    /\ stage = "reporting"
    /\ clock' = clock + 1
    /\ result' = [result EXCEPT !.torn = FALSE, !.mtime = clock + 1]
    /\ dirty' = FALSE
    /\ Return
    /\ UNCHANGED <<inputs, source, bins, counters>>

\* Ctrl-C, a kill, or an exception of a tool: a binary under construction may be
\* left cut short.
Interrupt ==
    /\ stage # "idle"
    /\ \/ UNCHANGED <<clock, bins>>
       \/ \E s \in Sides :
            /\ stage = Compiling[s]
            /\ clock' = clock + 1
            /\ bins' = [bins EXCEPT ![s] = [source |-> source.text, tracer |-> toolText,
                                            torn |-> TRUE, mtime |-> clock + 1]]
    /\ dirty' = (dirty \/ stage # "lookup")
    /\ Return
    /\ UNCHANGED <<inputs, source, result, counters>>

BuildOne ==
    \/ TakeFingerprints \/ Hit \/ Miss \/ Prog2c \/ WriteSource
    \/ \E s \in Sides : StartCompiler(s) \/ CompilerEnds(s) \/ CompilerFails(s) \/ NoCompiler(s)
    \/ StartReport \/ EndReport

BuildNext == BuildOne \/ Interrupt \/ \E i \in Inputs, t \in Texts : Edit(i, t)

BuildSpec == BuildInit /\ [][BuildNext]_buildVars

-----------------------------------------------------------------------------
BuildTypeOK ==
    /\ clock \in Time
    /\ inputs \in [Inputs -> Input]
    /\ source \in Stamped \cup {None}
    /\ bins \in [Sides -> Binary \cup {None}]
    /\ result \in BuildRecord \cup {None}
    /\ stage \in {"idle", "lookup", "prog2c", "source", "report", "reporting"}
                 \cup Sides \cup {Compiling[s] : s \in Sides}
    /\ fp \in Fingerprints \cup {None}
    /\ started \in Time
    /\ toolText \in Texts \cup {None}
    /\ failed \in BOOLEAN
    /\ dirty \in BOOLEAN
    /\ edits \in 0 .. MaxEdits
    /\ builds \in 0 .. MaxBuilds

\* Everything in the directory is whole and made from the inputs as they are now.
UpToDate ==
    /\ source.text = inputs["generator"].text
    /\ \A s \in Sides : /\ ~ bins[s].torn
                        /\ bins[s].source = inputs["generator"].text
                        /\ bins[s].tracer = inputs["tracer"].text

\* An input was put in place since the recorded build began, and its time does not tell:
\* that was before the record was written, or the file brought an older time along.
HiddenChange(i) ==
    /\ inputs[i].written > result.started
    /\ inputs[i].written < result.mtime \/ inputs[i].mtime < inputs[i].written

\* load_cached_build_result accepts a directory only if it is up to date, however
\* inputs were edited and set back and builds interrupted before.  The exception is a
\* change that the times hide: then the recorded build's result may vouch for what was
\* made of other inputs, by itself or by a later build that was interrupted.
HitIsFresh == [][Hit => UpToDate \/ \E i \in Inputs : HiddenChange(i)]_buildVars

\* build_status_ok, all that prepare_case looks at.
BuildStatusOk == result # None /\ ~ result.torn /\ result.status = "ok"

\* A campaign that starts now compares like with like: unless a build was interrupted,
\* both kernels get whole binaries of the same generated code, with the same tracer
\* if it was left alone during the build.
KernelsGetTheSameProgram ==
    stage = "idle" /\ BuildStatusOk /\ ~ dirty =>
       /\ \A s \in Sides : bins[s] # None /\ ~ bins[s].torn /\ bins[s].source = source.text
       /\ \/ bins["reference"].tracer = bins["candidate"].tracer
          \/ inputs["tracer"].written > result.started
=============================================================================
