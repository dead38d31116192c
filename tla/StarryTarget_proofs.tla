-------------------------- MODULE StarryTarget_proofs --------------------------
(***************************************************************************)
(* Proofs about StarryTarget, for any number of runners and kills and for  *)
(* answers of any length: what a case reports as ok is its own run, and    *)
(* copies are whole as long as the image was prepared once.                *)
(***************************************************************************)
EXTENDS StarryTarget, SequenceTheorems, WellFoundedInduction, TLAPS

-----------------------------------------------------------------------------
(* Places of markers in a text.                                            *)

LEMMA TextIsSequence ==
    ASSUME NEW text \in Texts
    PROVE  /\ text \in Seq(Pieces) /\ Len(text) \in Nat /\ DOMAIN text = 1 .. Len(text)
<1>1. PICK n \in 0 .. MaxPieces : text \in [1 .. n -> Pieces]
  BY DEF Texts
<1>2. n \in Nat
  BY StarryAssumption
<1>3. text \in Seq(Pieces)
  BY <1>1, <1>2
<1>4. QED
  BY <1>3, LenProperties

\* A non-empty set of positions has a least one.
LEMMA FirstExists ==
    ASSUME NEW T, T \subseteq Nat, T # {}
    PROVE  \E i \in T : \A j \in T : ~ (j < i)
<1>1. PICK i \in T : \A j \in T : ~ (<<j, i>> \in OpToRel(<, Nat))
  BY WFMin, NatLessThanWellFounded
<1>2. \A j \in T : ~ (j < i)
  BY <1>1 DEF OpToRel
<1>3. QED
  BY <1>2

\* str.find: the place that it returns is one of the marker.
LEMMA FirstOfFinds ==
    ASSUME NEW text \in Texts, NEW markers, FirstOf(markers, text) # 0
    PROVE  FirstOf(markers, text) \in DOMAIN text /\ text[FirstOf(markers, text)] \in markers
<1> DEFINE Places == {i \in DOMAIN text : text[i] \in markers}
<1>1. Places # {}
  BY DEF FirstOf
<1>2. Places \subseteq Nat
  BY TextIsSequence
<1>3. PICK i \in Places : \A j \in Places : ~ (j < i)
  BY <1>1, <1>2, FirstExists
<1>4. \A j \in 1 .. i - 1 : text[j] \notin markers
  BY <1>3, TextIsSequence
<1>5. QED
  BY <1>3, <1>4 DEF FirstOf

\* Events in a section lie between the begin and the exit marker.
LEMMA SectionIsBetween ==
    ASSUME NEW text \in Texts, BeginAt(text) # 0, ExitAt(text) # 0, text[ExitAt(text)] = "exit",
           HasEvents(Section(text))
    PROVE  \E b, e, x \in DOMAIN text :
              /\ b < e /\ e < x
              /\ text[b] = "begin" /\ text[e] = "events" /\ text[x] = "exit"
<1> DEFINE b == BeginAt(text)
           x == ExitAt(text)
<1>1. b \in DOMAIN text /\ text[b] = "begin"
  BY FirstOfFinds DEF BeginAt
<1>2. x \in DOMAIN text /\ text[x] = "exit"
  BY FirstOfFinds DEF ExitAt
<1>3. b \in Nat /\ x \in Nat /\ DOMAIN text = 1 .. Len(text) /\ Len(text) \in Nat
  BY <1>1, <1>2, TextIsSequence
<1>4. \A i \in b + 1 .. x - 1 : text[i] \in Pieces
  <2>1. \A i \in 1 .. Len(text) : text[i] \in Pieces
    BY TextIsSequence, ElementOfSeq
  <2>2. QED
    BY <1>1, <1>2, <1>3, <2>1
<1> DEFINE s == SubSeq(text, b + 1, x - 1)
<1>5. /\ s \in Seq(Pieces) /\ Len(s) = IF b + 1 <= x - 1 THEN (x - 1) - (b + 1) + 1 ELSE 0
      /\ \A i \in 1 .. (x - 1) - (b + 1) + 1 : s[i] = text[(b + 1) + i - 1]
  <2> HIDE DEF b, x
  <2>1. b + 1 \in Int /\ x - 1 \in Int
    BY <1>3
  <2>2. QED
    BY <1>4, <2>1, SubSeqProperties
<1>6. PICK i \in DOMAIN s : s[i] = "events"
  BY DEF HasEvents, Section
<1> HIDE DEF b, x, s
<1>7. i \in 1 .. Len(s)
  BY <1>5, LenProperties
<1>8. i \in Nat /\ 1 <= i /\ i <= x - 1 - b /\ s[i] = text[b + i]
  BY <1>3, <1>5, <1>7
<1>9. b + i \in DOMAIN text /\ text[b + i] = "events" /\ b < b + i /\ b + i < x
  BY <1>1, <1>2, <1>3, <1>6, <1>8
<1>10. QED
  BY <1>1, <1>2, <1>9

-----------------------------------------------------------------------------
(* The invariant.                                                          *)

Installed == {"boot", "prompt", "command", "outputs", "close"}
Booted == {"prompt", "command", "outputs", "close"}

\* Where a runner is that has seen the image prepared, or has prepared it.
Late == {"record", "flush", "sandbox", "copying"} \cup Installed

Between(text) ==
    \E b, e, x \in DOMAIN text :
       /\ b < e /\ e < x
       /\ text[b] = "begin" /\ text[e] = "events" /\ text[x] = "exit"

\* A runner: what its steps up to here have seen to.
OwnInv ==
    \A r \in Runners :
       /\ mode[r] = "case" /\ pc[r] \in Installed => installed[r]
       /\ mode[r] = "case" /\ pc[r] \in Booted /\ template = "image" => booted[r] = "copy"
       /\ vm[r] = "shared" => booted[r] = "shared"
       /\ booted[r] # "none" => pc[r] \in Booted \cup {"ended", "killed"}
       /\ pc[r] = "outputs" => /\ BeginAt(heard[r]) # 0 /\ ExitAt(heard[r]) # 0
                               /\ heard[r][ExitAt(heard[r])] = "exit"
       /\ pc[r] \notin {"close", "ended", "killed"} => report[r] = "none"
       /\ mode[r] = "case" /\ report[r] = "ok" =>
             /\ template = "image" => booted[r] = "copy" /\ installed[r]
             /\ Between(heard[r])

NoneShared == \A q \in Runners : booted[q] # "shared"

\* The image: while it has been prepared at most once, nobody uses it before it is
\* finished.  Nobody prepares it when its record is there to begin with.  A guest writes
\* to it only from a VM that was started on it.
ImageInv ==
    /\ prepares = 0 /\ info # <<"new">> => \A r \in Runners : pc[r] \notin Late
    /\ prepares = 0 => \A r \in Runners : pc[r] # "preparing"
    /\ prepares = 0 /\ info = <<"new">> =>
          /\ image \in {"none", "new", "used"}
          /\ \A r \in Runners : pc[r] \notin {"prepare", "record", "flush"}
    /\ prepares = 1 =>
          \/ image \in {"new", "used"}
          \/ /\ image = "partial" /\ info # <<"new">>
             /\ \A r \in Runners : pc[r] \notin Late
    /\ prepares <= 1 /\ NoneShared => \A r \in Runners :
          /\ mode[r] = "case" /\ pc[r] \in {"copying"} \cup Installed => copy[r] \in {"new", "used"}
          /\ booted[r] = "copy" => copy[r] \in {"new", "used"}

IInv == TypeOK /\ OwnInv /\ ImageInv

LEMMA InitIInv == Init => IInv
<1> SUFFICES ASSUME Init PROVE IInv
  OBVIOUS
<1>1. <<>> \in Texts /\ info \in Seq({"old", "new"})
  <2>1. <<>> \in Seq(Pieces) /\ Len(<<>>) = 0
    BY EmptySeq
  <2>2. <<>> \in [1 .. 0 -> Pieces]
    BY <2>1, LenProperties
  <2>3. 0 \in 0 .. MaxPieces
    BY StarryAssumption
  <2>4. <<>> \in Texts
    BY <2>2, <2>3 DEF Texts
  <2>5. /\ <<>> \in Seq({"old", "new"}) /\ <<"old">> \in Seq({"old", "new"})
        /\ <<"new">> \in Seq({"old", "new"}) /\ <<"new", "new">> \in Seq({"old", "new"})
    OBVIOUS
  <2>6. QED
    BY <2>4, <2>5 DEF Init
<1>2. TypeOK
  BY <1>1, StarryAssumption DEF Init, TypeOK, Conditions
<1>3. OwnInv
  BY DEF Init, OwnInv, Installed, Booted
<1>4. ImageInv
  <2>1. prepares = 0 /\ \A r \in Runners : pc[r] = "open" /\ booted[r] = "none"
    BY DEF Init
  <2>2. info = <<"new">> => image \in {"none", "new", "used"}
    BY DEF Init
  <2>3. QED
    BY <2>1, <2>2 DEF ImageInv, Late, Installed
<1>5. QED
  BY <1>2, <1>3, <1>4 DEF IInv

LEMMA TypePreserved == IInv /\ [Next]_vars => TypeOK'
<1> SUFFICES ASSUME IInv, [Next]_vars PROVE TypeOK'
  OBVIOUS
<1> USE DEF IInv, TypeOK, shared, world, private, Goto, Conditions
<1>1. CASE UNCHANGED vars
  BY <1>1 DEF vars
<1>2. ASSUME NEW r \in Runners, PreflightFails(r) \/ Runner(r) \/ GuestWrites(r) \/ Kill(r) PROVE TypeOK'
  <2>1. CASE PreflightFails(r) \/ PrepareFails(r) \/ ImageMissing(r) \/ NoPrompt(r)
    <3>1. CASE PreflightFails(r)
      BY <3>1 DEF PreflightFails, RunnerError
    <3>2. CASE PrepareFails(r)
      BY <3>2 DEF PrepareFails, RunnerError
    <3>3. CASE ImageMissing(r)
      BY <3>3 DEF ImageMissing, RunnerError
    <3>4. CASE NoPrompt(r)
      BY <3>4 DEF NoPrompt, RunnerError
    <3>5. QED
      BY <2>1, <3>1, <3>2, <3>3, <3>4
  <2>2. CASE LockInfo(r) \/ CheckInfo(r)
    BY <2>2 DEF LockInfo, CheckInfo
  <2>3. CASE BeginPrepare(r) \/ EndPrepare(r)
    BY <2>3 DEF BeginPrepare, EndPrepare
  <2>4. CASE RecordInfo(r) \/ FlushInfo(r)
    <3>1. CASE RecordInfo(r)
      <4>1. <<>> \in Seq({"old", "new"})
        BY EmptySeq
      <4>2. QED
        BY <3>1, <4>1 DEF RecordInfo
    <3>2. CASE FlushInfo(r)
      <4>1. Append(info, Document) \in Seq({"old", "new"})
        BY AppendProperties DEF Document
      <4>2. QED
        BY <3>2, <4>1 DEF FlushInfo
    <3>3. QED
      BY <2>4, <3>1, <3>2
  <2>5. CASE NeedsNoSandbox(r) \/ BeginCopy(r) \/ CopyFails(r) \/ Install(r)
    <3>1. CASE NeedsNoSandbox(r)
      BY <3>1 DEF NeedsNoSandbox
    <3>2. CASE BeginCopy(r)
      BY <3>2 DEF BeginCopy
    <3>3. CASE Install(r)
      BY <3>3 DEF Install, RunnerError
    <3>4. CASE CopyFails(r)
      BY <3>4 DEF CopyFails
    <3>5. QED
      BY <2>5, <3>1, <3>2, <3>3, <3>4
  <2>6. CASE StartSession(r) \/ FirstPrompt(r) \/ CloseSession(r)
    <3>1. CASE StartSession(r)
      <4>1. BootImage(r) \in {"none", "copy", "shared"}
        BY DEF BootImage
      <4>2. QED
        BY <3>1, <4>1 DEF StartSession
    <3>2. CASE FirstPrompt(r)
      BY <3>2 DEF FirstPrompt
    <3>3. CASE CloseSession(r)
      BY <3>3 DEF CloseSession
    <3>4. QED
      BY <2>6, <3>1, <3>2, <3>3
  <2>7. CASE RunCommand(r)
    <3>1. PICK h \in Readings :
            \/ /\ heard' = [heard EXCEPT ![r] = h.text]
               /\ Goto(r, "outputs") /\ UNCHANGED <<vm, report>>
            \/ RunnerError(r) /\ UNCHANGED heard
      BY <2>7 DEF RunCommand
    <3>2. h.text \in Texts
      BY <3>1 DEF Readings
    <3>3. UNCHANGED <<shared, world, copy, installed, booted>>
      BY <2>7 DEF RunCommand
    <3>4. QED
      BY <3>1, <3>2, <3>3 DEF RunnerError
  <2>8. CASE WriteOutputs(r)
    BY <2>8 DEF WriteOutputs, RunnerError
  <2>9. CASE Kill(r)
    BY <2>9, StarryAssumption DEF Kill, LockAfter
  <2>10. CASE GuestWrites(r)
    BY <2>10 DEF GuestWrites
  <2>11. QED
    BY <1>2, <2>1, <2>2, <2>3, <2>4, <2>5, <2>6, <2>7, <2>8, <2>9, <2>10 DEF Runner
<1>3. QED
  BY <1>1, <1>2 DEF Next

LEMMA OwnPreserved == IInv /\ [Next]_vars => OwnInv'
<1> SUFFICES ASSUME IInv, [Next]_vars PROVE OwnInv'
  OBVIOUS
<1> USE DEF IInv, TypeOK, OwnInv, Installed, Booted, shared, world, private, Goto
<1>1. CASE UNCHANGED vars
  BY <1>1 DEF vars
<1>2. ASSUME NEW r \in Runners, PreflightFails(r) \/ Runner(r) \/ GuestWrites(r) \/ Kill(r) PROVE OwnInv'
  <2>1. CASE PreflightFails(r) \/ PrepareFails(r) \/ ImageMissing(r) \/ NoPrompt(r)
    BY <2>1 DEF PreflightFails, PrepareFails, ImageMissing, NoPrompt, RunnerError
  <2>2. CASE LockInfo(r) \/ CheckInfo(r)
    BY <2>2 DEF LockInfo, CheckInfo
  <2>3. CASE BeginPrepare(r) \/ EndPrepare(r)
    BY <2>3 DEF BeginPrepare, EndPrepare
  <2>4. CASE RecordInfo(r) \/ FlushInfo(r)
    BY <2>4 DEF RecordInfo, FlushInfo
  <2>5. CASE NeedsNoSandbox(r) \/ BeginCopy(r) \/ CopyFails(r) \/ Install(r)
    BY <2>5 DEF NeedsNoSandbox, BeginCopy, CopyFails, Install, RunnerError
  <2>6. CASE StartSession(r) \/ FirstPrompt(r) \/ CloseSession(r)
    BY <2>6 DEF StartSession, FirstPrompt, CloseSession, BootImage, ConfigNamesCopy
  <2>7. CASE RunCommand(r)
    BY <2>7 DEF RunCommand, RunnerError, Captured
  <2>8. CASE WriteOutputs(r)
    <3>1. CASE /\ report' = [report EXCEPT ![r] = IF HasEvents(Section(heard[r])) THEN "ok"
                                                 ELSE "infra_error"]
               /\ Goto(r, "close") /\ UNCHANGED vm
      <4>1. pc[r] = "outputs" /\ UNCHANGED <<template, mode, copy, installed, booted, heard>>
        BY <2>8 DEF WriteOutputs
      <4>2. HasEvents(Section(heard[r])) => Between(heard[r])
        BY <4>1, SectionIsBetween DEF Between
      <4>3. QED
        BY <3>1, <4>1, <4>2
    <3>2. CASE mode[r] = "healthcheck" /\ RunnerError(r)
      BY <2>8, <3>2 DEF WriteOutputs, RunnerError
    <3>3. CASE Goto(r, "close") /\ UNCHANGED <<vm, report>>
      BY <2>8, <3>3 DEF WriteOutputs
    <3>4. QED
      BY <2>8, <3>1, <3>2, <3>3 DEF WriteOutputs
  <2>9. CASE Kill(r)
    BY <2>9 DEF Kill
  <2>10. CASE GuestWrites(r)
    BY <2>10 DEF GuestWrites
  <2>11. QED
    BY <1>2, <2>1, <2>2, <2>3, <2>4, <2>5, <2>6, <2>7, <2>8, <2>9, <2>10 DEF Runner
<1>3. QED
  BY <1>1, <1>2 DEF Next

LEMMA ImagePreserved == IInv /\ [Next]_vars => ImageInv'
<1> SUFFICES ASSUME IInv, [Next]_vars PROVE ImageInv'
  OBVIOUS
<1> USE DEF IInv, TypeOK, ImageInv, NoneShared, Late, Installed, shared, world, private, Goto
<1>1. CASE UNCHANGED vars
  BY <1>1 DEF vars
<1>2. ASSUME NEW r \in Runners, PreflightFails(r) \/ Runner(r) \/ GuestWrites(r) \/ Kill(r) PROVE ImageInv'
  <2>1. CASE PreflightFails(r) \/ PrepareFails(r) \/ ImageMissing(r) \/ NoPrompt(r)
    BY <2>1 DEF PreflightFails, PrepareFails, ImageMissing, NoPrompt, RunnerError
  <2>2. CASE LockInfo(r)
    BY <2>2 DEF LockInfo
  <2>3. CASE CheckInfo(r)
    BY <2>3 DEF CheckInfo, Prepared
  <2>4. CASE BeginPrepare(r)
    BY <2>4 DEF BeginPrepare, OwnInv, Booted
  <2>5. CASE EndPrepare(r)
    BY <2>5 DEF EndPrepare
  <2>6. CASE RecordInfo(r) \/ FlushInfo(r)
    BY <2>6 DEF RecordInfo, FlushInfo, Document
  <2>7. CASE NeedsNoSandbox(r)
    BY <2>7 DEF NeedsNoSandbox
  <2>8. CASE BeginCopy(r)
    BY <2>8 DEF BeginCopy
  <2>9. CASE Install(r)
    BY <2>9 DEF Install, RunnerError
  <2>10. CASE StartSession(r) \/ FirstPrompt(r) \/ CloseSession(r)
    <3>1. CASE StartSession(r)
      <4>1. BootImage(r) = "copy" => mode[r] = "case"
        BY DEF BootImage
      <4>2. NoneShared' => NoneShared
        BY <3>1 DEF StartSession, OwnInv, Booted
      <4>3. QED
        BY <3>1, <4>1, <4>2 DEF StartSession
    <3>2. CASE FirstPrompt(r) \/ CloseSession(r)
      BY <3>2 DEF FirstPrompt, CloseSession
    <3>3. QED
      BY <2>10, <3>1, <3>2
  <2>11. CASE RunCommand(r) \/ WriteOutputs(r)
    BY <2>11 DEF RunCommand, WriteOutputs, RunnerError
  <2>12. CASE Kill(r)
    BY <2>12 DEF Kill
  <2>13. CASE CopyFails(r)
    BY <2>13 DEF CopyFails
  <2>14. CASE GuestWrites(r)
    <3>1. booted[r] = "shared" /\ ~NoneShared /\ ~NoneShared'
      BY <2>14 DEF GuestWrites, OwnInv
    <3>2. /\ image' = IF image = "partial" THEN "partial" ELSE "used"
          /\ UNCHANGED <<info, prepares, mode, pc>>
      BY <2>14 DEF GuestWrites
    <3>3. QED
      BY <3>1, <3>2
  <2>15. QED
    BY <1>2, <2>1, <2>2, <2>3, <2>4, <2>5, <2>6, <2>7, <2>8, <2>9, <2>10, <2>11, <2>12, <2>13, <2>14
       DEF Runner
<1>3. QED
  BY <1>1, <1>2 DEF Next

-----------------------------------------------------------------------------
\* Every step of a runner, and a kill at any of them, keeps what was seen to before.
THEOREM Invariance == Spec => []IInv
<1>1. Init => IInv
  BY InitIInv
<1>2. IInv /\ [Next]_vars => IInv'
  BY TypePreserved, OwnPreserved, ImagePreserved DEF IInv
<1>3. QED
  BY <1>1, <1>2, PTL DEF Spec

\* The files, locks and VMs of any number of runners keep their types.
THEOREM TypeCorrect == Spec => []TypeOK
<1>1. IInv => TypeOK
  BY DEF IInv
<1>2. QED
  BY <1>1, Invariance, PTL

\* ok is about the runner's own command, whatever comes over the console and however long
\* the answer is; with a QEMU template that names the image, it is about the runner's own
\* program and copy as well.
THEOREM OkOfOwnRun == Spec => []OkIsOwnRun
<1>1. IInv => OkIsOwnRun
  BY DEF IInv, OwnInv, OkIsOwnRun, Between
<1>2. QED
  BY <1>1, Invariance, PTL

\* A case that boots its copy boots a whole one of the pinned revision's image while that
\* image was prepared once at most and no VM was started on it, with any number of runners
\* that fail or are killed.
THEOREM CopiesWhole == Spec => []CopiesAreWhole
<1>1. IInv => CopiesAreWhole
  BY DEF IInv, ImageInv, NoneShared, CopiesAreWhole
<1>2. QED
  BY <1>1, Invariance, PTL
=============================================================================
