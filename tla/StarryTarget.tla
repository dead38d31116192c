---------------------------- MODULE StarryTarget ----------------------------
(***************************************************************************)
(* Runners of the StarryOS target on one host (targets/tgoskits_starryos/  *)
(* api.py).  They share the TGOSKits checkout: its disk image, which the   *)
(* first of them makes, and build-info.json, which records for what        *)
(* revision it was made and is also the lock file.  A runner that runs a   *)
(* case copies the image, installs its program in the copy, boots a VM and *)
(* talks to the guest's shell over the console; a health check boots the   *)
(* shared image, and so does a case if the checkout's QEMU template does   *)
(* not lead to the copy.                                                   *)
(***************************************************************************)
EXTENDS Integers, Sequences

CONSTANTS
    Runners,
    MaxPieces,   \* bound: pieces of console output that matter to a command
    MaxKills     \* bound: runners killed at the timeout of their run

ASSUME StarryAssumption ==
    /\ MaxPieces \in Nat
    /\ MaxKills \in Nat

Nobody == "nobody"

\* What the guest prints between the command line and the next prompt: the begin
\* marker, framed events, the exit marker with a number, or the exit marker as the
\* shell echoes it, with "$?" behind it.
Pieces == {"begin", "events", "exit", "echoed"}
Texts == UNION {[1 .. n -> Pieces] : n \in 0 .. MaxPieces}

\* What a read of the console came to: the text, and whether the prompt was seen
\* before the deadline.
Readings == [text : Texts, prompt : BOOLEAN]

VARIABLES
    info,        \* documents in build-info.json, "old" or "new" by their revision
    infoLock,    \* holder of the flock on it
    image,       \* the shared disk image
    template,    \* whether the checkout's QEMU template names that image; one that is not
                 \* there, and one in which nothing is replaced, do not
    prepares,    \* times the prepare commands were started
    mode,        \* mode[r]: --healthcheck or not
    copy,        \* copy[r]: the image in r's sandbox
    installed,   \* installed[r]: r's program is in its copy
    vm,          \* vm[r]: image that r's VM runs from, "none" without one
    booted,      \* booted[r]: image that r's VM was started from
    heard,       \* heard[r]: what r captured of its command's output
    report,      \* report[r]: status in the runner result, "none" without one
    kills,
    pc

vars == <<info, infoLock, image, template, prepares, mode, copy, installed, vm, booted, heard, report,
          kills, pc>>

world == <<template, mode, kills>>
shared == <<info, infoLock, image, prepares>>
private == <<copy, installed, vm, booted, heard, report>>

\* Two documents are what two runners of an earlier campaign may have left.  The record is
\* not kept in the checkout, and survives an image that is cleaned away there.  A guest of
\* an earlier health check may have written to the image.
Init ==
    /\ \/ info = <<>> /\ image \in {"none", "old"}
       \/ info = <<"old">> /\ image = "old"
       \/ info \in {<<"new">>, <<"new", "new">>} /\ image \in {"none", "new", "used"}
    /\ infoLock = Nobody
    /\ template \in {"image", "silent"}
    /\ prepares = 0
    /\ mode \in [Runners -> {"case", "healthcheck"}]
    /\ copy = [r \in Runners |-> "none"]
    /\ installed = [r \in Runners |-> FALSE]
    /\ vm = [r \in Runners |-> "none"]
    /\ booted = [r \in Runners |-> "none"]
    /\ heard = [r \in Runners |-> <<>>]
    /\ report = [r \in Runners |-> "none"]
    /\ kills = 0
    /\ pc = [r \in Runners |-> "open"]

Goto(r, label) == pc' = [pc EXCEPT ![r] = label]

\* The session, if any, is closed (finally); main writes the result of a RunnerError.
RunnerError(r) ==
    /\ vm' = [vm EXCEPT ![r] = "none"]
    /\ report' = [report EXCEPT ![r] = "infra_error"]
    /\ Goto(r, "ended")

-----------------------------------------------------------------------------
(* prepare_target                                                          *)

\* The flag, the architecture, the tools or the revision is not the configured one.
PreflightFails(r) ==
    /\ pc[r] = "open"
    /\ RunnerError(r)
    /\ UNCHANGED <<shared, world, copy, installed, booted, heard>>

LockFree == infoLock = Nobody

\* open("a+") and flock(LOCK_EX).
LockInfo(r) ==
    /\ pc[r] = "open"
    /\ LockFree
    /\ infoLock' = r
    /\ Goto(r, "check")
    /\ UNCHANGED <<info, image, prepares, world, private>>

\* Mutant: a record of whatever revision will do.
PreparedOnce == info # <<>>

Prepared == info = <<"new">>

\* json.loads raises on two documents, and main does not catch that.
CheckInfo(r) ==
    /\ pc[r] = "check"
    /\ \/ Len(info) > 1 /\ infoLock' = Nobody /\ Goto(r, "ended")
       \/ Prepared /\ infoLock' = Nobody /\ Goto(r, "sandbox")
       \/ Len(info) <= 1 /\ ~Prepared /\ Goto(r, "prepare") /\ UNCHANGED infoLock
    /\ UNCHANGED <<info, image, prepares, world, private>>

\* The commands write the image in place: a copy that is being made is torn.
BeginPrepare(r) ==
    /\ pc[r] = "prepare"
    /\ image' = "partial"
    /\ prepares' = prepares + 1
    /\ copy' = [q \in Runners |-> IF pc[q] = "copying" THEN "partial" ELSE copy[q]]
    /\ Goto(r, "preparing")
    /\ UNCHANGED <<info, infoLock, world, installed, vm, booted, heard, report>>

EndPrepare(r) ==
    /\ pc[r] = "preparing"
    /\ image' = "new"
    /\ Goto(r, "record")
    /\ UNCHANGED <<info, infoLock, prepares, world, private>>

\* A command fails (RunnerError) or is late (TimeoutExpired, which main lets pass).
PrepareFails(r) ==
    /\ pc[r] = "preparing"
    /\ infoLock' = Nobody
    /\ \/ RunnerError(r)
       \/ Goto(r, "ended") /\ UNCHANGED <<vm, report>>
    /\ UNCHANGED <<info, image, prepares, world, copy, installed, booted, heard>>

\* truncate takes effect at once; the document stays in the file object's buffer while
\* the lock is released.
RecordInfo(r) ==
    /\ pc[r] = "record"
    /\ info' = <<>>
    /\ infoLock' = Nobody
    /\ Goto(r, "flush")
    /\ UNCHANGED <<image, prepares, world, private>>

\* Mutant: the label with its abbreviated revision is recorded.
Label == "label"

Document == "new"

\* The file is closed: the buffer is appended to what the file holds by now.
FlushInfo(r) ==
    /\ pc[r] = "flush"
    /\ info' = Append(info, Document)
    /\ Goto(r, "sandbox")
    /\ UNCHANGED <<infoLock, image, prepares, world, private>>

-----------------------------------------------------------------------------
(* prepare_isolated_qemu_config, install_binary_into_rootfs                *)

\* A health check needs neither.
NeedsNoSandbox(r) ==
    /\ pc[r] = "sandbox"
    /\ mode[r] = "healthcheck"
    /\ Goto(r, "boot")
    /\ UNCHANGED <<shared, world, private>>

BeginCopy(r) ==
    /\ pc[r] = "sandbox"
    /\ mode[r] = "case"
    /\ image # "none"
    /\ copy' = [copy EXCEPT ![r] = image]
    /\ Goto(r, "copying")
    /\ UNCHANGED <<shared, world, installed, vm, booted, heard, report>>

\* "StarryOS disk image is missing"
ImageMissing(r) ==
    /\ pc[r] = "sandbox"
    /\ mode[r] = "case"
    /\ image = "none"
    /\ RunnerError(r)
    /\ UNCHANGED <<shared, world, copy, installed, booted, heard>>

\* shutil.copy2 raises an OSError, which main lets pass.
CopyFails(r) ==
    /\ pc[r] = "copying"
    /\ Goto(r, "ended")
    /\ UNCHANGED <<shared, world, private>>

\* The copy is complete; debugfs removes an old program and writes r's.
Install(r) ==
    /\ pc[r] = "copying"
    /\ \/ installed' = [installed EXCEPT ![r] = TRUE] /\ Goto(r, "boot") /\ UNCHANGED <<vm, report>>
       \/ RunnerError(r) /\ UNCHANGED installed
    /\ UNCHANGED <<shared, world, copy, booted, heard>>

-----------------------------------------------------------------------------
(* ShellSession                                                            *)

\* The configuration made for the run names the copy: prepare_isolated_qemu_config returns
\* None when there is no template, and replaces nothing when it does not name the image.
ConfigNamesCopy == template = "image"

\* A case without such a configuration boots what a health check boots.
BootImage(r) == IF mode[r] = "case" /\ ConfigNamesCopy THEN "copy" ELSE "shared"

StartSession(r) ==
    /\ pc[r] = "boot"
    /\ vm' = [vm EXCEPT ![r] = BootImage(r)]
    /\ booted' = [booted EXCEPT ![r] = BootImage(r)]
    /\ Goto(r, "prompt")
    /\ UNCHANGED <<shared, world, copy, installed, heard, report>>

\* read_until(shell_prompt) at boot.
FirstPrompt(r) ==
    /\ pc[r] = "prompt"
    /\ Goto(r, "command")
    /\ UNCHANGED <<shared, world, private>>

NoPrompt(r) ==
    /\ pc[r] = "prompt"
    /\ RunnerError(r)
    /\ UNCHANGED <<shared, world, copy, installed, booted, heard>>

\* First place of a marker in a text, 0 without one (str.find).
FirstOf(markers, text) ==
    IF \E i \in DOMAIN text : text[i] \in markers
    THEN CHOOSE i \in DOMAIN text :
            text[i] \in markers /\ \A j \in 1 .. i - 1 : text[j] \notin markers
    ELSE 0

BeginAt(text) == FirstOf({"begin"}, text)
ExitAt(text) == FirstOf({"exit", "echoed"}, text)

\* run_command: both markers are there and the exit marker carries a number.
Captured(h) ==
    /\ h.prompt
    /\ BeginAt(h.text) # 0
    /\ ExitAt(h.text) # 0 /\ h.text[ExitAt(h.text)] = "exit"

\* Mutant: what was captured up to the exit marker, earlier output included.
SectionFromStart(text) == SubSeq(text, 1, ExitAt(text) - 1)

\* What lies between the two markers; nothing, when they are in the wrong order.
Section(text) == SubSeq(text, BeginAt(text) + 1, ExitAt(text) - 1)

HasEvents(text) == \E i \in DOMAIN text : text[i] = "events"

\* The guest answers, dies, prints its prompt early or echoes the command.
RunCommand(r) ==
    /\ pc[r] = "command"
    /\ \E h \in Readings :
         \/ /\ Captured(h)
            /\ heard' = [heard EXCEPT ![r] = h.text]
            /\ Goto(r, "outputs")
            /\ UNCHANGED <<vm, report>>
         \/ ~Captured(h) /\ RunnerError(r) /\ UNCHANGED heard
    /\ UNCHANGED <<shared, world, copy, installed, booted>>

\* write_case_outputs, or the evaluation of the health check, whose own marker is
\* taken for the events here and whose command may also have failed.  An event that is
\* not JSON raises, which main lets pass, and no result is written.
WriteOutputs(r) ==
    /\ pc[r] = "outputs"
    /\ \/ /\ mode[r] = "case" \/ HasEvents(Section(heard[r]))
          /\ report' = [report EXCEPT ![r] =
                          IF HasEvents(Section(heard[r])) THEN "ok" ELSE "infra_error"]
          /\ Goto(r, "close") /\ UNCHANGED vm
       \/ /\ mode[r] = "case" /\ HasEvents(Section(heard[r]))
          /\ Goto(r, "close") /\ UNCHANGED <<vm, report>>
       \/ mode[r] = "healthcheck" /\ RunnerError(r)
    /\ UNCHANGED <<shared, world, copy, installed, booted, heard>>

\* close: SIGTERM to the VM's process group, then SIGKILL.
CloseSession(r) ==
    /\ pc[r] = "close"
    /\ vm' = [vm EXCEPT ![r] = "none"]
    /\ Goto(r, "ended")
    /\ UNCHANGED <<shared, world, copy, installed, booted, heard, report>>

\* A guest on the shared image writes to it, also one that outlives its runner; a copy that
\* is being made is torn.
GuestWrites(r) ==
    /\ vm[r] = "shared"
    /\ image # "none"
    /\ image' = IF image = "partial" THEN "partial" ELSE "used"
    /\ copy' = [q \in Runners |-> IF pc[q] = "copying" THEN "partial" ELSE copy[q]]
    /\ UNCHANGED <<info, infoLock, prepares, world, installed, vm, booted, heard, report, pc>>

-----------------------------------------------------------------------------
\* Mutant: the lock stays with a runner that was killed.
LockOfDead(r) == infoLock

\* flock ends with its holder; what the holder had not flushed is lost.
LockAfter(r) == IF infoLock = r THEN Nobody ELSE infoLock

\* The host's timeout; the VM has a process group of its own.
Kill(r) ==
    /\ pc[r] \notin {"open", "ended", "killed"}
    /\ kills < MaxKills
    /\ kills' = kills + 1
    /\ infoLock' = LockAfter(r)
    /\ Goto(r, "killed")
    /\ UNCHANGED <<info, image, prepares, template, mode, private>>

Runner(r) ==
    \/ LockInfo(r) \/ CheckInfo(r) \/ BeginPrepare(r) \/ EndPrepare(r)
    \/ PrepareFails(r) \/ RecordInfo(r) \/ FlushInfo(r)
    \/ NeedsNoSandbox(r) \/ BeginCopy(r) \/ ImageMissing(r) \/ CopyFails(r) \/ Install(r)
    \/ StartSession(r) \/ FirstPrompt(r) \/ NoPrompt(r) \/ RunCommand(r)
    \/ WriteOutputs(r) \/ CloseSession(r)

Next == \E r \in Runners : PreflightFails(r) \/ Runner(r) \/ GuestWrites(r) \/ Kill(r)

\* A runner goes on: console reads and prepare commands have deadlines, and the copy and
\* debugfs, which have none, work on local files and end by themselves.  Nothing makes
\* a guest write or a preflight fail.
Spec == Init /\ [][Next]_vars /\ \A r \in Runners : WF_vars(Runner(r))

-----------------------------------------------------------------------------
Conditions == {"none", "partial", "old", "new", "used"}

TypeOK ==
    /\ info \in Seq({"old", "new"})
    /\ infoLock \in Runners \cup {Nobody}
    /\ image \in Conditions /\ copy \in [Runners -> Conditions]
    /\ prepares \in Nat
    /\ template \in {"image", "silent"}
    /\ mode \in [Runners -> {"case", "healthcheck"}]
    /\ installed \in [Runners -> BOOLEAN]
    /\ vm \in [Runners -> {"none", "copy", "shared"}]
    /\ booted \in [Runners -> {"none", "copy", "shared"}]
    /\ heard \in [Runners -> Texts]
    /\ report \in [Runners -> {"none", "ok", "infra_error"}]
    /\ kills \in 0 .. MaxKills
    /\ pc \in [Runners -> {"open", "check", "prepare", "preparing", "record", "flush", "sandbox",
                           "copying", "boot", "prompt", "command", "outputs", "close", "ended",
                           "killed"}]

\* A case is reported ok only for events that the guest printed after the begin marker and
\* before the exit marker of this command: neither an early prompt, nor an echo of the
\* command line, nor output of something else makes a trace.  Where the QEMU template
\* names the image, it is also for the runner's own program in its own copy.
OkIsOwnRun ==
    \A r \in Runners : mode[r] = "case" /\ report[r] = "ok" =>
        /\ template = "image" => booted[r] = "copy" /\ installed[r]
        /\ \E b, e, x \in DOMAIN heard[r] :
             /\ b < e /\ e < x
             /\ heard[r][b] = "begin" /\ heard[r][e] = "events"
             /\ heard[r][x] = "exit"

\* A case that boots its copy boots a finished image of the pinned revision, as long as
\* the image was prepared once only and no VM was started on the shared image itself: the
\* runners that wait for the lock find it prepared.  Guests of an earlier health check
\* may have written to it.
CopiesAreWhole ==
    prepares <= 1 /\ (\A q \in Runners : booted[q] # "shared") =>
        \A r \in Runners : booted[r] = "copy" => copy[r] \in {"new", "used"}

\* Every runner ends: it gets the lock, also after a holder was killed, and waits for no
\* guest for ever.
RunnersEnd == <>(\A r \in Runners : pc[r] \in {"ended", "killed"})
=============================================================================
