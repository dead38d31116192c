------------------------------ MODULE Normalize ------------------------------
(***************************************************************************)
(* From raw to canonical traces (analyzer/normalize.py), and their         *)
(* comparison.  Descriptors, addresses and process ids are replaced by     *)
(* numbers in the order of their first use, so that two kernels that hand  *)
(* out other numbers compare as equal.                                     *)
(*                                                                         *)
(* A raw event is [syscall_name, args, return_value, errno, outputs]; an   *)
(* output [label, preview, digest, fds] has the preview in two parts, the  *)
(* first 16 bytes and the rest, and the descriptors that it holds, if any. *)
(***************************************************************************)
EXTENDS Compare, SequencesExt

CONSTANTS
    RawTraces,                  \* the raw traces under comparison
    Labels, Previews, Digests   \* of buffers

RawOutput == [label : Labels, preview : Previews, digest : Digests, fds : Seq(Int)]

RawEvent == [syscall_name : Syscall, args : Seq(Int), return_value : Int, errno : Errno,
             outputs : Seq(RawOutput)]

RawTrace == [events : Seq(RawEvent), final_state : FinalState, process_exit : ProcessExit]

ASSUME RawAssumption == RawTraces \subseteq RawTrace

VARIABLES rawReference, rawCandidate

rawVars == <<rawReference, rawCandidate>>

-----------------------------------------------------------------------------
(* What a value stands for: by system call and position, from 0.           *)

FdReturns == {"open", "openat", "eventfd", "eventfd2"}
PidReturns == {"clone", "getpid", "getppid"}
AddrReturns == {"mmap", "brk"}

FdPositions == [name \in {"close", "read", "write", "pread64", "pwrite64", "lseek", "fstat",
                          "newfstatat", "openat", "mmap"} |-> IF name = "mmap" THEN {4} ELSE {0}]

PidPositions == [wait4 |-> {0}]

AddrPositions ==
    [open |-> {0}, openat |-> {1}, read |-> {1}, write |-> {1}, pread64 |-> {1},
     pwrite64 |-> {1}, fstat |-> {1}, newfstatat |-> {1, 2}, mkdir |-> {0}, unlink |-> {0},
     rename |-> {0, 1}, mmap |-> {0}, munmap |-> {0}, mprotect |-> {0}, brk |-> {0},
     clone |-> {1, 2, 3, 4}, wait4 |-> {1, 3}, pipe |-> {0}, pipe2 |-> {0}, socketpair |-> {3}]

At(positions, name, position) == name \in DOMAIN positions /\ position \in positions[name]

\* Values that keep their meaning whatever they stand for.
Plain(value, kind) == IF value \in {0, -1, -100} THEN "plain" ELSE kind

ArgKind(name, position, value) ==
    Plain(value, CASE At(FdPositions, name, position) /\ value >= 0 -> "fd"
                   [] At(PidPositions, name, position) /\ value > 0 -> "pid"
                   [] At(AddrPositions, name, position) /\ value > 0 -> "addr"
                   [] OTHER -> "plain")

ReturnKind(name, value) ==
    Plain(value, CASE name \in FdReturns /\ value >= 0 -> "fd"
                   [] name \in PidReturns /\ value > 0 -> "pid"
                   [] name \in AddrReturns /\ value > 0 -> "addr"
                   [] OTHER -> "plain")

\* The values of an event, in the order in which normalize_event comes to them.
Use(kind, value) == [kind |-> kind, value |-> value]

ArgUses(e) == [k \in DOMAIN e.args |-> Use(ArgKind(e.syscall_name, k - 1, e.args[k]), e.args[k])]
ReturnUse(e) == Use(ReturnKind(e.syscall_name, e.return_value), e.return_value)
FdUses(o) == [k \in DOMAIN o.fds |-> Use("fd", o.fds[k])]

-----------------------------------------------------------------------------
(* CanonicalContext: for every kind the values seen, in order.             *)

NewContext == [kind \in {"fd", "pid", "addr"} |-> <<>>]

Token(use, ctx) ==
    LET seen == ctx[use.kind] IN
      <<use.kind, IF Contains(seen, use.value)
                  THEN SelectInSeq(seen, LAMBDA v : v = use.value) - 1 ELSE Len(seen)>>

Seen(use, ctx) ==
    IF Contains(ctx[use.kind], use.value) THEN ctx
    ELSE [ctx EXCEPT ![use.kind] = Append(@, use.value)]

-----------------------------------------------------------------------------
(* Each function gives what it puts out and the context it leaves.  In a   *)
(* list the context goes from one element to the next.                     *)

NormalizeScalar(use, ctx) ==
    IF use.kind = "plain" THEN [out |-> <<"plain", use.value>>, ctx |-> ctx]
    ELSE [out |-> Token(use, ctx), ctx |-> Seen(use, ctx)]

ScalarContexts(uses, ctx) ==
    LET after[k \in 0 .. Len(uses)] ==
          IF k = 0 THEN ctx ELSE NormalizeScalar(uses[k], after[k - 1]).ctx
    IN  after

NormalizeScalars(uses, ctx) ==
    LET after == ScalarContexts(uses, ctx) IN
      [out |-> [k \in 1 .. Len(uses) |-> NormalizeScalar(uses[k], after[k - 1]).out],
       ctx |-> after[Len(uses)]]

\* The device and inode of a stat buffer are masked, its digest is not.
Preview(o) ==
    IF o.label = "stat" /\ Len(o.preview) = 2 THEN [o.preview EXCEPT ![1] = "zeros"] ELSE o.preview

NormalizeOutput(o, ctx) ==
    LET fds == NormalizeScalars(FdUses(o), ctx) IN
      [out |-> [o EXCEPT !.preview = Preview(o), !.fds = fds.out], ctx |-> fds.ctx]

OutputContexts(outputs, ctx) ==
    LET after[k \in 0 .. Len(outputs)] ==
          IF k = 0 THEN ctx ELSE NormalizeOutput(outputs[k], after[k - 1]).ctx
    IN  after

NormalizeOutputs(outputs, ctx) ==
    LET after == OutputContexts(outputs, ctx) IN
      [out |-> [k \in 1 .. Len(outputs) |-> NormalizeOutput(outputs[k], after[k - 1]).out],
       ctx |-> after[Len(outputs)]]

\* Mutant: every event starts with an empty context.
Forgotten(ctx) == NewContext

Carried(ctx) == ctx

NormalizeEvent(e, ctx) ==
    LET args == NormalizeScalars(ArgUses(e), Carried(ctx))
        return == NormalizeScalar(ReturnUse(e), args.ctx)
        outputs == NormalizeOutputs(e.outputs, return.ctx)
    IN  [out |-> [e EXCEPT !.args = args.out, !.return_value = return.out,
                           !.outputs = outputs.out],
         ctx |-> outputs.ctx]

EventContexts(events) ==
    LET after[k \in 0 .. Len(events)] ==
          IF k = 0 THEN NewContext ELSE NormalizeEvent(events[k], after[k - 1]).ctx
    IN  after

Canonicalize(raw) ==
    LET after == EventContexts(raw.events) IN
      [raw EXCEPT !.events =
         [k \in 1 .. Len(raw.events) |-> NormalizeEvent(raw.events[k], after[k - 1]).out]]

-----------------------------------------------------------------------------
(* canonicalize both traces, then compare_canonical.                       *)

ASSUME TracesAssumption == Traces = {Canonicalize(raw) : raw \in RawTraces}

RawInit ==
    /\ rawReference \in RawTraces /\ reference = Canonicalize(rawReference)
    /\ rawCandidate \in RawTraces /\ candidate = Canonicalize(rawCandidate)
    /\ Begin

RawSpec == RawInit /\ [][Next /\ UNCHANGED rawVars]_<<vars, rawVars>>

-----------------------------------------------------------------------------
(* What renaming may change: said of the uses, without contexts or tokens. *)

\* The uses at the same place of two events, with the result of a noise call or without.
EventPairs(e, f, noise) ==
    {<<ArgUses(e)[k], ArgUses(f)[k]>> : k \in DOMAIN e.args}
    \cup (IF noise \/ e.syscall_name \notin NoiseSyscalls
          THEN {<<ReturnUse(e), ReturnUse(f)>>} ELSE {})
    \cup UNION {{<<FdUses(e.outputs[n])[k], FdUses(f.outputs[n])[k]>> :
                    k \in DOMAIN e.outputs[n].fds} : n \in DOMAIN e.outputs}

UsePairs(left, right, noise) ==
    UNION {EventPairs(left.events[k], right.events[k], noise) : k \in DOMAIN left.events}

\* A one-to-one renaming of each kind takes the left of every pair to its right.
Renamed(pairs) ==
    \A x \in pairs :
       /\ x[1].kind = x[2].kind
       /\ x[1].kind = "plain" => x[1].value = x[2].value
       /\ x[1].kind # "plain" => \A y \in pairs :
             y[1].kind = x[1].kind => (y[1].value = x[1].value <=> y[2].value = x[2].value)

\* All that is left alone agrees.
SameEventShape(e, f) ==
    /\ e.syscall_name = f.syscall_name
    /\ Len(e.args) = Len(f.args)
    /\ e.syscall_name \in NoiseSyscalls \/ e.errno = f.errno
    /\ Len(e.outputs) = Len(f.outputs)
    /\ \A n \in DOMAIN e.outputs :
          LET o == e.outputs[n]  p == f.outputs[n] IN
            /\ o.label = p.label /\ o.digest = p.digest
            /\ Preview(o) = Preview(p) /\ Len(o.fds) = Len(p.fds)

SameShape(left, right) ==
    /\ left.final_state = right.final_state /\ left.process_exit = right.process_exit
    /\ Len(left.events) = Len(right.events)
    /\ \A k \in DOMAIN left.events : SameEventShape(left.events[k], right.events[k])

\* The verdict does not depend on which numbers a kernel hands out, and on nothing less:
\* traces that differ by a renaming are equivalent, and equivalent traces differ by a
\* renaming, but for the results of noise calls.  Between the two are the traces whose noise
\* calls alone break the renaming: such a result takes a number all the same, and shifts the
\* ones that come after it.
EquivalentUpToRenaming ==
    pc = "done" =>
       /\ SameShape(rawReference, rawCandidate)
             /\ Renamed(UsePairs(rawReference, rawCandidate, TRUE))
          => comparison.equivalent
       /\ comparison.equivalent =>
             /\ SameShape(rawReference, rawCandidate)
             /\ Renamed(UsePairs(rawReference, rawCandidate, FALSE))
=============================================================================
