------------------------------ MODULE MCCompare ------------------------------
(***************************************************************************)
(* A finite instance of Normalize and Compare: all pairs of raw traces of  *)
(* at most two events, some of three, over events that open, use and close *)
(* descriptors, map and use memory, wait for processes and make pipes,     *)
(* with the numbers that one kernel or another may hand out.  mmap is the  *)
(* noise call, as in the StarryOS workflow.                                *)
(***************************************************************************)
EXTENDS Normalize

Called(name, args, ret, errno, outputs) ==
    [syscall_name |-> name, args |-> args, return_value |-> ret,
     errno |-> errno, outputs |-> outputs]

Buffer(label, preview, digest, fds) ==
    <<[label |-> label, preview |-> preview, digest |-> digest, fds |-> fds]>>

A == 64
B == 65

Opens == {Called("openat", <<-100, A>>, fd, 0, <<>>) : fd \in {3, 4}}
Closes == {Called("close", <<fd>>, 0, 0, <<>>) : fd \in {3, 4}}

\* mmap that fails, or succeeds at one of two addresses.
Maps == {Called("mmap", <<0>>, a, 0, <<>>) : a \in {A, B}}
        \cup {Called("mmap", <<0>>, -1, 12, <<>>)}

Reads == {Called("read", <<3, a>>, 1, 0, Buffer("buf", <<"x">>, 0, <<>>)) : a \in {A, B}}

\* The digest of a pipe's descriptors is one of the raw numbers.
Pipes == {Called("pipe2", <<A>>, 0, 0, Buffer("pipefd", <<"fds">>, fds[1], fds)) :
            fds \in {<<3, 4>>, <<4, 5>>}}

Stats == {Called("fstat", <<3, A>>, 0, 0, Buffer("stat", <<inode, "mode">>, 0, <<>>)) :
            inode \in {"1", "2"}}
         \cup {Called("fstat", <<3, A>>, 0, 0, Buffer("stat", <<"1">>, 0, <<>>))}

Waits == {Called("wait4", <<pid, 0>>, -1, errno, <<>>) : pid \in {-1, 3}, errno \in {10}}

MCPreviews == {<<"x">>, <<"fds">>, <<"1">>, <<"1", "mode">>, <<"2", "mode">>}

MCEvents == Opens \cup Closes \cup Maps \cup Reads \cup Pipes \cup Stats \cup Waits

Short == BoundedSeq(MCEvents, 2)
Long == {<<o, p, c>> : o \in Opens, p \in Opens, c \in Closes}

Run(events, state, exit) == [events |-> events, final_state |-> state, process_exit |-> exit]

MCRawTraces ==
    {Run(events, "s0", "x0") : events \in Short \cup Long}
    \cup {Run(events, s, x) : events \in BoundedSeq(MCEvents, 1),
                              s \in {"s0", "s1"}, x \in {"x0", "x1"}}

MCTraces == {Canonicalize(raw) : raw \in MCRawTraces}

Events == UNION {{t.events[k] : k \in DOMAIN t.events} : t \in MCTraces}
MCSyscall == {e.syscall_name : e \in Events}
MCArgs == {e.args : e \in Events}
MCRet == {e.return_value : e \in Events}
MCErrno == {e.errno : e \in Events}
MCOutputs == {e.outputs : e \in Events}
=============================================================================
