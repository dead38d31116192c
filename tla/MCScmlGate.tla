----------------------------- MODULE MCScmlGate -----------------------------
(***************************************************************************)
(* A finite instance of ScmlGate: programs that call mount, ioctl and      *)
(* bpf, with lines on each of them, on a call that none of the programs    *)
(* names, and lines that cannot be read.                                   *)
(***************************************************************************)
EXTENDS ScmlGate

Line(form, of, read, field) == [form |-> form, of |-> of, read |-> read, field |-> field]

MCTargets == {"mount", "ioctl", "bpf"}

\* bpf is not in the manifest, the category of ioctl is not enabled.
MCManifest == [mount |-> [category |-> "file", enabled |-> TRUE],
               ioctl |-> [category |-> "device", enabled |-> TRUE]]

MCProfile == [categories |-> {"file"}, syscalls |-> {"bpf"}]

MCOutputs ==
    {{},
     {Line("unsupported", "mount", "mount", "")},
     {Line("unsupported", "ioctl", "ioctl", "codes"), Line("unsupported", "brk", "brk", "")},
     {Line("unsupported", "bpf", "bpf", ""), Line("unsupported", "mount", "mount", "mount_flags")},
     {Line("unsupported", "mount", "", "")},
     {Line("parse error", "brk", "", "")}}
=============================================================================
