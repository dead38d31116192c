--------------------------- MODULE Campaign_proofs ---------------------------
(***************************************************************************)
(* A campaign of any number of entries, with any number of jobs, any batch *)
(* size and any limit: the slots are conserved, the failure of a batch     *)
(* stays in its batch, and every step is one that CampaignResults allows.  *)
(***************************************************************************)
EXTENDS Campaign, FiniteSetTheorems, TLAPS

\* The tasks with a run that holds a slot.
Running == {e \in Entries : task[e] = "run"}

\* No slot of the limiter is lost or made up.
SlotsConserved == free + Cardinality(Running) = Limit

\* The phases in which the prepared cases are worked off, chunk by chunk.
Batching == phase \in {"next_chunk", "package", "execute", "finalize"}

\* A pool has only the tasks of its phase; between two pools there is no task.  Only
\* an execute future raises.
TasksOfPhase ==
    /\ raised => phase = "execute"
    /\ phase \notin {"one", "prepare", "execute", "finalize"} =>
         \A e \in Entries : task[e] = "none"
    /\ phase \in {"execute", "finalize"} =>
         \A e \in Entries \ Chunk : task[e] = "none"

\* What an ended task has returned fits the phase that takes it.
AnswersFit ==
    \A e \in Entries : task[e] = "ended" =>
        /\ phase \in {"one", "finalize"} => out[e] \in {"judged", "infra_error"}
        /\ phase = "prepare" => out[e] \in {"judged", "infra_error", "pending"}

\* A row is in the place of its own entry.
OwnRow(e) == [entry : {e}, verdict : Verdicts] \cup {NoRow}
RowsOwn == \A e \in Entries : results[e] \in OwnRow(e)

\* The rows of a chunk are those of its own cases whose futures have been taken.
ChunkRows ==
    \A e \in Entries :
        /\ finalized[e] \in OwnRow(e)
        /\ finalized[e].verdict # "batch_failed"
        /\ phase = "finalize" => (finalized[e] # NoRow <=> e \in Chunk /\ task[e] = "none")

\* Without batching the entries that have a row are those whose future has been taken.
SingleRows ==
    phase = "one" => \A e \in Entries : results[e] # NoRow <=> task[e] = "none"

\* While cases are prepared no entry has a row.
PreparedSoFar ==
    phase = "prepare" =>
        /\ offset = 0
        /\ \A e \in Entries : /\ results[e] = NoRow
                              /\ task[e] = "none" => prepared[e] # "none"

\* Entry e was final before batching, or an earlier chunk has taken it.
Settled(e) == prepared[e] = "pending" => Position(e, Pending) < offset

\* Once they are prepared, the entries that have a row are the settled ones.
RowsSoFar ==
    Batching => \A e \in Entries : /\ prepared[e] # "none"
                                   /\ results[e] # NoRow <=> Settled(e)

\* Chunks are taken whole.
OffsetAligned == \E c \in Nat : offset = c * BatchSize

\* FailureIsContained, in every phase of the batching and not only between two chunks.
FailuresWhole ==
    Batching => \A e \in Entries : results[e].verdict = "batch_failed" =>
        /\ prepared[e] = "pending"
        /\ \A d \in Pending : ChunkOf(d) = ChunkOf(e) => results[d].verdict = "batch_failed"

NotYetReported == phase # "done" => output = <<>>

\* The inductive invariant.
IInv ==
    /\ TypeOK /\ SlotsConserved /\ TasksOfPhase /\ AnswersFit
    /\ RowsOwn /\ ChunkRows /\ SingleRows /\ PreparedSoFar /\ RowsSoFar
    /\ OffsetAligned /\ FailuresWhole /\ NotYetReported

-----------------------------------------------------------------------------
(* Facts about the limiter and about places in a list.                     *)

\* The limiter has at least one slot, whatever is configured.
LEMMA LimitType == Limit \in Nat /\ Limit >= 1
  BY CampaignAssumption DEF Limit

\* There are finitely many entries.
LEMMA EntriesFinite ==
    IsFiniteSet(Entries) /\ Cardinality(Entries) = N /\ Entries \subseteq Nat
<1>1. N \in Nat
  BY CampaignAssumption
<1>2. IsFiniteSet(1 .. N) /\ Cardinality(1 .. N) = N
  BY <1>1, FS_Interval
<1> QED BY <1>1, <1>2 DEF Entries

\* The running tasks are finitely many.
LEMMA RunningFinite == IsFiniteSet(Running) /\ Cardinality(Running) \in Nat
<1>1. Running \in SUBSET Entries
  BY DEF Running
<1>2. IsFiniteSet(Running)
  BY <1>1, EntriesFinite, FS_Subset
<1> QED BY <1>2, FS_CardinalityType

\* Places are counted from zero and are below the length of the list.
LEMMA PositionType ==
    ASSUME NEW S \in SUBSET Entries
    PROVE  /\ Cardinality(S) \in Nat
           /\ \A e \in Entries : Position(e, S) \in Nat
           /\ \A e \in S : Position(e, S) < Cardinality(S)
<1>1. IsFiniteSet(S)
  BY EntriesFinite, FS_Subset
<1>2. Cardinality(S) \in Nat
  BY <1>1, FS_CardinalityType
<1>3. ASSUME NEW e \in Entries
      PROVE  IsFiniteSet({d \in S : d < e}) /\ Position(e, S) \in Nat
  <2>1. {d \in S : d < e} \in SUBSET S
    OBVIOUS
  <2>2. IsFiniteSet({d \in S : d < e})
    BY <2>1, <1>1, FS_Subset
  <2> QED BY <2>2, FS_CardinalityType DEF Position
<1>4. ASSUME NEW e \in S
      PROVE  Position(e, S) < Cardinality(S)
  <2> DEFINE Below == {d \in S : d < e}
  <2>1. Below \in SUBSET S /\ e \in S /\ e \notin Below /\ e \in Entries
    BY EntriesFinite
  <2>2. Cardinality(Below) <= Cardinality(S) /\ Cardinality(Below) # Cardinality(S)
    <3> HIDE DEF Below
    <3> QED BY <2>1, <1>1, FS_Subset
  <2>3. Cardinality(Below) \in Nat /\ Position(e, S) = Cardinality(Below)
    BY <2>1, <1>3 DEF Position
  <2> QED BY <1>2, <2>2, <2>3
<1> QED BY <1>2, <1>3, <1>4

\* In the list of all entries the place of an entry is its index.
LEMMA PositionOfEntry ==
    ASSUME NEW e \in Entries
    PROVE  Position(e, Entries) = e - 1
<1>1. N \in Nat /\ e \in 1 .. N
  BY CampaignAssumption DEF Entries
<1>2. {d \in Entries : d < e} = 1 .. (e - 1)
  BY <1>1 DEF Entries
<1>3. Cardinality(1 .. (e - 1)) = e - 1
  BY <1>1, FS_Interval
<1> QED BY <1>2, <1>3 DEF Position

\* Places of the same chunk have the same quotient.
LEMMA ChunkQuotient ==
    ASSUME NEW b \in Nat \ {0}, NEW c \in Nat, NEW p \in Nat
    PROVE  p \in c * b .. c * b + b - 1 <=> p \div b = c
  OBVIOUS

-----------------------------------------------------------------------------
(* The initial states, and the steps of the pool's threads.                *)

\* The last conjuncts of the invariant: what the rows are, and whom they belong to.
RowsInv ==
    /\ TasksOfPhase /\ RowsOwn /\ ChunkRows /\ SingleRows /\ PreparedSoFar
    /\ RowsSoFar /\ OffsetAligned /\ FailuresWhole /\ NotYetReported

\* The invariant holds before the first task.
LEMMA InitEstablishes == Init => IInv
<1> SUFFICES ASSUME Init PROVE IInv
  OBVIOUS
<1>1. phase \in {"one", "prepare"} /\ ~Batching /\ phase # "finalize"
  BY DEF Init, Batching
<1>2. task \in [Entries -> {"queued"}]
  BY DEF Init, Submitted
<1>3. TypeOK
  <2>1. mode \in Modes /\ jobs \in JobCounts /\ phase \in Phases
    BY DEF Init, Phases
  <2>2. /\ raised \in BOOLEAN
        /\ offset \in Nat /\ batch \subseteq Entries
    BY DEF Init
  <2>3. runs \in [Entries -> 0 .. MaxRuns] /\ free \in 0 .. Limit
    BY CampaignAssumption, LimitType DEF Init
  <2>4. /\ out \in [Entries -> {"none", "judged", "infra_error", "pending", "ran",
                                "raised"}]
        /\ prepared \in [Entries -> {"none", "judged", "infra_error", "pending"}]
        /\ finalized \in [Entries -> Row \cup {NoRow}]
        /\ results \in [Entries -> Row \cup {NoRow}]
        /\ \A k \in DOMAIN output : output[k] \in Row
    BY DEF Init
  <2> QED BY <1>2, <2>1, <2>2, <2>3, <2>4 DEF TypeOK
<1>4. SlotsConserved
  <2>1. Running = {}
    BY <1>2 DEF Running
  <2> QED BY <2>1, FS_EmptySet, LimitType DEF Init, SlotsConserved
<1>5. TasksOfPhase /\ AnswersFit
  BY <1>1, <1>2 DEF Init, TasksOfPhase, AnswersFit
<1>6. RowsOwn /\ ChunkRows
  BY <1>1 DEF Init, RowsOwn, ChunkRows, OwnRow, NoRow, NoVerdict
<1>7. SingleRows /\ PreparedSoFar
  BY <1>2 DEF Init, SingleRows, PreparedSoFar
<1>8. RowsSoFar /\ FailuresWhole /\ NotYetReported
  BY <1>1 DEF Init, RowsSoFar, FailuresWhole, NotYetReported
<1>9. OffsetAligned
  <2>1. offset = 0 * BatchSize
    BY CampaignAssumption DEF Init
  <2> QED BY <2>1 DEF OffsetAligned
<1> QED BY <1>3, <1>4, <1>5, <1>6, <1>7, <1>8, <1>9 DEF IInv

\* A step that leaves the rows, the prepared cases and the main thread alone, and
\* neither adds nor removes a task, keeps what the invariant says of the rows.
LEMMA RowsFramed ==
    ASSUME RowsInv,
           UNCHANGED <<config, phase, raised, prepared, offset, finalized, results, output>>,
           \A e \in Entries : task'[e] = "none" <=> task[e] = "none"
    PROVE  RowsInv'
<1> USE DEF config
<1>1. Pending' = Pending
  BY DEF Pending
<1>2. Chunk' = Chunk
  BY <1>1 DEF Chunk
<1>3. TasksOfPhase'
  BY <1>2 DEF RowsInv, TasksOfPhase
<1>4. RowsOwn' /\ SingleRows'
  BY DEF RowsInv, RowsOwn, OwnRow, SingleRows
<1>5. ChunkRows'
  BY <1>2 DEF RowsInv, ChunkRows, OwnRow
<1>6. PreparedSoFar' /\ OffsetAligned' /\ NotYetReported'
  BY DEF RowsInv, PreparedSoFar, OffsetAligned, NotYetReported
<1>7. RowsSoFar'
  BY <1>1 DEF RowsInv, RowsSoFar, Settled, Batching
<1>8. FailuresWhole'
  BY <1>1 DEF RowsInv, FailuresWhole, ChunkOf, Batching
<1> QED BY <1>3, <1>4, <1>5, <1>6, <1>7, <1>8 DEF RowsInv

\* A thread takes a task.
LEMMA StartPreserves ==
    ASSUME IInv, NEW e \in Entries, Start(e)
    PROVE  IInv'
<1>1. /\ task[e] = "queued" /\ task' = [task EXCEPT ![e] = "work"]
      /\ runs' = [runs EXCEPT ![e] = 0]
      /\ UNCHANGED <<config, phase, out, raised, prepared, offset, batch, finalized,
                     results, free, output>>
  BY DEF Start
<1>2. TypeOK'
  BY <1>1, CampaignAssumption DEF IInv, TypeOK, config
<1>3. SlotsConserved'
  <2>1. Running' = Running
    BY <1>1 DEF IInv, TypeOK, Running
  <2> QED BY <1>1, <2>1 DEF IInv, SlotsConserved
<1>4. AnswersFit'
  BY <1>1 DEF IInv, TypeOK, AnswersFit
<1>5. RowsInv'
  BY <1>1, RowsFramed DEF IInv, TypeOK, RowsInv
<1> QED BY <1>2, <1>3, <1>4, <1>5 DEF IInv, RowsInv

\* A task asks for a slot of the limiter.
LEMMA AskSlotPreserves ==
    ASSUME IInv, NEW e \in Entries, AskSlot(e)
    PROVE  IInv'
<1>1. /\ task[e] = "work" /\ task' = [task EXCEPT ![e] = "wait"]
      /\ runs[e] < RunBound /\ runs' = [runs EXCEPT ![e] = runs[e] + 1]
      /\ UNCHANGED <<config, phase, out, raised, prepared, offset, batch, finalized,
                     results, free, output>>
  BY DEF AskSlot
<1>2. TypeOK'
  <2>1. RunBound \in Nat /\ RunBound <= MaxRuns
    BY CampaignAssumption DEF RunBound
  <2> QED BY <1>1, <2>1, CampaignAssumption DEF IInv, TypeOK, config
<1>3. SlotsConserved'
  <2>1. Running' = Running
    BY <1>1 DEF IInv, TypeOK, Running
  <2> QED BY <1>1, <2>1 DEF IInv, SlotsConserved
<1>4. AnswersFit'
  BY <1>1 DEF IInv, TypeOK, AnswersFit
<1>5. RowsInv'
  BY <1>1, RowsFramed DEF IInv, TypeOK, RowsInv
<1> QED BY <1>2, <1>3, <1>4, <1>5 DEF IInv, RowsInv

\* A run that begins takes a slot.
LEMMA BeginRunPreserves ==
    ASSUME IInv, NEW e \in Entries, BeginRun(e)
    PROVE  IInv'
<1>1. /\ task[e] = "wait" /\ task' = [task EXCEPT ![e] = "run"]
      /\ free > 0 /\ free' = free - 1
      /\ UNCHANGED <<config, phase, runs, out, raised, prepared, offset, batch,
                     finalized, results, output>>
  BY DEF BeginRun, SlotFree
<1>2. TypeOK'
  BY <1>1, LimitType DEF IInv, TypeOK, config
<1>3. SlotsConserved'
  <2>1. Running' = Running \cup {e} /\ e \notin Running
    BY <1>1 DEF IInv, TypeOK, Running
  <2>2. Cardinality(Running') = Cardinality(Running) + 1
    BY <2>1, RunningFinite, FS_AddElement
  <2> QED BY <1>1, <2>2, RunningFinite, LimitType DEF IInv, TypeOK, SlotsConserved
<1>4. AnswersFit'
  BY <1>1 DEF IInv, TypeOK, AnswersFit
<1>5. RowsInv'
  BY <1>1, RowsFramed DEF IInv, TypeOK, RowsInv
<1> QED BY <1>2, <1>3, <1>4, <1>5 DEF IInv, RowsInv

\* A run that ends gives its slot back, and the counter stays within the limit.
LEMMA EndRunPreserves ==
    ASSUME IInv, NEW e \in Entries, EndRun(e)
    PROVE  IInv'
<1>1. /\ task[e] = "run" /\ task' = [task EXCEPT ![e] = "work"]
      /\ free' = free + 1
      /\ UNCHANGED <<config, phase, runs, out, raised, prepared, offset, batch,
                     finalized, results, output>>
  BY DEF EndRun, Released
<1>2. Running' = Running \ {e} /\ e \in Running
  BY <1>1 DEF IInv, TypeOK, Running
<1>3. Cardinality(Running') = Cardinality(Running) - 1
  BY <1>2, RunningFinite, FS_RemoveElement
<1>4. Cardinality(Running') \in Nat
  <2>1. IsFiniteSet(Running')
    BY <1>2, RunningFinite, FS_RemoveElement
  <2> QED BY <2>1, FS_CardinalityType
<1>5. SlotsConserved' /\ free' \in 0 .. Limit
  BY <1>1, <1>3, <1>4, RunningFinite, LimitType DEF IInv, TypeOK, SlotsConserved
<1>6. TypeOK'
  BY <1>1, <1>5 DEF IInv, TypeOK, config
<1>7. AnswersFit'
  BY <1>1 DEF IInv, TypeOK, AnswersFit
<1>8. RowsInv'
  BY <1>1, RowsFramed DEF IInv, TypeOK, RowsInv
<1> QED BY <1>5, <1>6, <1>7, <1>8 DEF IInv, RowsInv

\* A task that ends returns an answer of its phase.
LEMMA EndTaskPreserves ==
    ASSUME IInv, NEW e \in Entries, EndTask(e)
    PROVE  IInv'
<1>1. PICK o \in Outcomes(e) : out' = [out EXCEPT ![e] = o]
  BY DEF EndTask
<1>2. /\ task[e] = "work" /\ task' = [task EXCEPT ![e] = "ended"]
      /\ UNCHANGED <<config, phase, runs, raised, prepared, offset, batch, finalized,
                     results, free, output>>
  BY DEF EndTask
<1>3. /\ o \in {"judged", "infra_error", "pending", "ran", "raised"}
      /\ phase \in {"one", "finalize"} => o \in {"judged", "infra_error"}
      /\ phase = "prepare" => o \in {"judged", "infra_error", "pending"}
  BY DEF Outcomes
<1>4. TypeOK'
  BY <1>1, <1>2, <1>3 DEF IInv, TypeOK, config
<1>5. SlotsConserved'
  <2>1. Running' = Running
    BY <1>2 DEF IInv, TypeOK, Running
  <2> QED BY <1>2, <2>1 DEF IInv, SlotsConserved
<1>6. AnswersFit'
  BY <1>1, <1>2, <1>3 DEF IInv, TypeOK, AnswersFit
<1>7. RowsInv'
  BY <1>2, RowsFramed DEF IInv, TypeOK, RowsInv
<1> QED BY <1>4, <1>5, <1>6, <1>7 DEF IInv, RowsInv

-----------------------------------------------------------------------------
(* The main thread takes a future.                                         *)

\* The future of entry e, taken in whatever phase, leaves the VMs alone.
LEMMA HarvestSlots ==
    ASSUME IInv, NEW e \in Entries, Harvest(e)
    PROVE  /\ SlotsConserved'
           /\ task[e] = "ended" /\ task' = [task EXCEPT ![e] = "none"]
           /\ ~raised
           /\ phase \in {"one", "prepare", "execute", "finalize"}
           /\ phase \in {"execute", "finalize"} => e \in Chunk
           /\ UNCHANGED <<config, phase, runs, out, offset, free, output>>
<1>1. /\ task[e] = "ended" /\ task' = [task EXCEPT ![e] = "none"]
      /\ ~raised
      /\ UNCHANGED <<config, phase, runs, out, offset, free, output>>
  BY DEF Harvest
<1>2. Running' = Running
  BY <1>1 DEF IInv, TypeOK, Running
<1>3. SlotsConserved'
  BY <1>1, <1>2 DEF IInv, SlotsConserved
<1>4. phase \in {"one", "prepare", "execute", "finalize"}
  BY <1>1 DEF IInv, TasksOfPhase, TypeOK, Phases
<1>5. phase \in {"execute", "finalize"} => e \in Chunk
  BY <1>1 DEF IInv, TasksOfPhase
<1> QED BY <1>1, <1>3, <1>4, <1>5

\* Without batching the row goes to the place of its entry.
LEMMA HarvestOnePreserves ==
    ASSUME IInv, NEW e \in Entries, Harvest(e), phase = "one"
    PROVE  IInv'
<1>1. /\ SlotsConserved'
      /\ task[e] = "ended" /\ task' = [task EXCEPT ![e] = "none"]
      /\ UNCHANGED <<config, phase, runs, out, offset, free, output>>
  BY HarvestSlots
<1>2. /\ results' = [results EXCEPT ![e] = [entry |-> e, verdict |-> out[e]]]
      /\ UNCHANGED <<raised, prepared, batch, finalized>>
  BY DEF Harvest, FutureIndex
<1>3. out[e] \in {"judged", "infra_error"}
  BY <1>1 DEF IInv, AnswersFit
<1>4. [entry |-> e, verdict |-> out[e]] \in Row
  BY <1>3 DEF Row, Verdicts
<1>5. [entry |-> e, verdict |-> out[e]] \in OwnRow(e) \ {NoRow}
  BY <1>3, EntriesFinite DEF OwnRow, NoRow, NoVerdict, Verdicts
<1>6. TypeOK'
  BY <1>1, <1>2, <1>4 DEF IInv, TypeOK, config
<1>7. AnswersFit'
  BY <1>1 DEF IInv, TypeOK, AnswersFit
<1>8. TasksOfPhase'
  BY <1>1, <1>2 DEF IInv, TasksOfPhase
<1>9. RowsOwn'
  BY <1>2, <1>5 DEF IInv, TypeOK, RowsOwn, OwnRow
<1>10. ChunkRows'
  BY <1>1, <1>2 DEF IInv, ChunkRows, OwnRow
<1>11. SingleRows'
  BY <1>1, <1>2, <1>5 DEF IInv, TypeOK, SingleRows
<1>12. PreparedSoFar' /\ RowsSoFar' /\ FailuresWhole'
  BY <1>1 DEF PreparedSoFar, RowsSoFar, FailuresWhole, Batching
<1>13. OffsetAligned' /\ NotYetReported'
  BY <1>1 DEF IInv, OffsetAligned, NotYetReported
<1> QED BY <1>1, <1>6, <1>7, <1>8, <1>9, <1>10, <1>11, <1>12, <1>13 DEF IInv

\* A prepared case is kept for its entry.
LEMMA HarvestPreparePreserves ==
    ASSUME IInv, NEW e \in Entries, Harvest(e), phase = "prepare"
    PROVE  IInv'
<1>1. /\ SlotsConserved'
      /\ task[e] = "ended" /\ task' = [task EXCEPT ![e] = "none"]
      /\ UNCHANGED <<config, phase, runs, out, offset, free, output>>
  BY HarvestSlots
<1>2. /\ prepared' = [prepared EXCEPT ![e] = out[e]]
      /\ UNCHANGED <<raised, batch, finalized, results>>
  BY DEF Harvest
<1>3. out[e] \in {"judged", "infra_error", "pending"}
  BY <1>1 DEF IInv, AnswersFit
<1>4. TypeOK'
  BY <1>1, <1>2, <1>3 DEF IInv, TypeOK, config
<1>5. AnswersFit'
  BY <1>1 DEF IInv, TypeOK, AnswersFit
<1>6. TasksOfPhase'
  BY <1>1, <1>2 DEF IInv, TasksOfPhase
<1>7. RowsOwn' /\ SingleRows'
  BY <1>1, <1>2 DEF IInv, RowsOwn, OwnRow, SingleRows
<1>8. ChunkRows'
  BY <1>1, <1>2 DEF IInv, ChunkRows, OwnRow
<1>9. PreparedSoFar'
  BY <1>1, <1>2, <1>3 DEF IInv, TypeOK, PreparedSoFar
<1>10. RowsSoFar' /\ FailuresWhole'
  BY <1>1 DEF RowsSoFar, FailuresWhole, Batching
<1>11. OffsetAligned' /\ NotYetReported'
  BY <1>1 DEF IInv, OffsetAligned, NotYetReported
<1> QED BY <1>1, <1>4, <1>5, <1>6, <1>7, <1>8, <1>9, <1>10, <1>11 DEF IInv

\* An executed case adds to the batch, or raises.
LEMMA HarvestExecutePreserves ==
    ASSUME IInv, NEW e \in Entries, Harvest(e), phase = "execute"
    PROVE  IInv'
<1>1. /\ SlotsConserved'
      /\ task[e] = "ended" /\ task' = [task EXCEPT ![e] = "none"]
      /\ UNCHANGED <<config, phase, runs, out, offset, free, output>>
  BY HarvestSlots
<1>2. /\ batch' = (IF out[e] = "ran" THEN batch \cup {e} ELSE batch)
      /\ UNCHANGED <<prepared, finalized, results>>
  BY DEF Harvest
<1>3. raised' \in BOOLEAN
  <2>1. raised' = (out[e] = "raised")
    BY Zenon DEF Harvest
  <2> QED BY <2>1, Zenon
<1>4. Pending' = Pending
  BY <1>2 DEF Pending
<1>5. Chunk' = Chunk
  BY <1>1, <1>4 DEF Chunk
<1>6. TypeOK'
  BY <1>1, <1>2, <1>3 DEF IInv, TypeOK, config
<1>7. AnswersFit'
  BY <1>1 DEF IInv, TypeOK, AnswersFit
<1>8. TasksOfPhase'
  BY <1>1, <1>5 DEF IInv, TypeOK, TasksOfPhase
<1>9. RowsOwn' /\ SingleRows' /\ PreparedSoFar'
  BY <1>1, <1>2 DEF IInv, RowsOwn, OwnRow, SingleRows, PreparedSoFar
<1>10. ChunkRows'
  BY <1>1, <1>2 DEF IInv, ChunkRows, OwnRow
<1>11. RowsSoFar'
  BY <1>1, <1>2, <1>4 DEF IInv, RowsSoFar, Settled, Batching
<1>12. FailuresWhole'
  BY <1>1, <1>2, <1>4 DEF IInv, FailuresWhole, ChunkOf, Batching
<1>13. OffsetAligned' /\ NotYetReported'
  BY <1>1 DEF IInv, OffsetAligned, NotYetReported
<1> QED BY <1>1, <1>6, <1>7, <1>8, <1>9, <1>10, <1>11, <1>12, <1>13 DEF IInv

\* A finalized case goes to its place in the chunk.
LEMMA HarvestFinalizePreserves ==
    ASSUME IInv, NEW e \in Entries, Harvest(e), phase = "finalize"
    PROVE  IInv'
<1>1. /\ SlotsConserved'
      /\ task[e] = "ended" /\ task' = [task EXCEPT ![e] = "none"]
      /\ e \in Chunk
      /\ UNCHANGED <<config, phase, runs, out, offset, free, output>>
  BY HarvestSlots
<1>2. /\ finalized' = [finalized EXCEPT ![e] = [entry |-> e, verdict |-> out[e]]]
      /\ UNCHANGED <<raised, prepared, batch, results>>
  BY DEF Harvest
<1>3. out[e] \in {"judged", "infra_error"}
  BY <1>1 DEF IInv, AnswersFit
<1>4. [entry |-> e, verdict |-> out[e]] \in Row
  BY <1>3 DEF Row, Verdicts
<1>5. [entry |-> e, verdict |-> out[e]] \in OwnRow(e) \ {NoRow}
  BY <1>3, EntriesFinite DEF OwnRow, NoRow, NoVerdict, Verdicts
<1>6. Pending' = Pending
  BY <1>2 DEF Pending
<1>7. Chunk' = Chunk
  BY <1>1, <1>6 DEF Chunk
<1>8. TypeOK'
  BY <1>1, <1>2, <1>4 DEF IInv, TypeOK, config
<1>9. AnswersFit'
  BY <1>1 DEF IInv, TypeOK, AnswersFit
<1>10. TasksOfPhase'
  BY <1>1, <1>2, <1>7 DEF IInv, TypeOK, TasksOfPhase
<1>11. RowsOwn' /\ SingleRows' /\ PreparedSoFar'
  BY <1>1, <1>2 DEF IInv, RowsOwn, OwnRow, SingleRows, PreparedSoFar
<1>12. ChunkRows'
  <2> SUFFICES ASSUME NEW d \in Entries
               PROVE  /\ finalized'[d] \in OwnRow(d)
                      /\ finalized'[d].verdict # "batch_failed"
                      /\ finalized'[d] # NoRow <=> d \in Chunk /\ task'[d] = "none"
    BY <1>7 DEF ChunkRows, OwnRow
  <2>1. CASE d = e
    BY <2>1, <1>1, <1>2, <1>3, <1>5 DEF IInv, TypeOK
  <2>2. CASE d # e
    BY <2>2, <1>1, <1>2 DEF IInv, TypeOK, ChunkRows
  <2> QED BY <2>1, <2>2
<1>13. RowsSoFar'
  BY <1>1, <1>2, <1>6 DEF IInv, RowsSoFar, Settled, Batching
<1>14. FailuresWhole'
  BY <1>1, <1>2, <1>6 DEF IInv, FailuresWhole, ChunkOf, Batching
<1>15. OffsetAligned' /\ NotYetReported'
  BY <1>1 DEF IInv, OffsetAligned, NotYetReported
<1> QED
  BY <1>1, <1>8, <1>9, <1>10, <1>11, <1>12, <1>13, <1>14, <1>15 DEF IInv

-----------------------------------------------------------------------------
(* The main thread: phases.                                                *)

\* A pool that did not raise and is drained has no task left.
LEMMA DrainedIsEmpty ==
    ASSUME IInv, PoolDrained, phase # "execute"
    PROVE  ~raised /\ \A e \in Entries : task[e] = "none"
  BY DEF IInv, TasksOfPhase, PoolDrained

\* The tasks that a pool is given, of which no VM runs yet.
LEMMA SubmittedType ==
    ASSUME NEW S \in SUBSET Entries
    PROVE  /\ Submitted(S) \in [Entries -> {"none", "queued"}]
           /\ \A e \in Entries : Submitted(S)[e] = "none" <=> e \notin S
  BY DEF Submitted

\* The chunk is a set of entries.
LEMMA ChunkType == Pending \in SUBSET Entries /\ Chunk \in SUBSET Pending
  BY DEF Chunk, Pending

\* The limiter is not affected when a pool without a VM is replaced by another one.
LEMMA SlotsKept ==
    ASSUME SlotsConserved, free' = free,
           \A e \in Entries : task[e] # "run",
           \A e \in Entries : task'[e] # "run"
    PROVE  SlotsConserved'
<1>1. Running = {} /\ Running' = {}
  BY DEF Running
<1> QED BY <1>1 DEF SlotsConserved

\* The cases of the current chunk are not settled, and the next offset settles them
\* and no other case.
LEMMA NextOffsetSettlesChunk ==
    ASSUME TypeOK, offset' = offset + BatchSize, prepared' = prepared,
           NEW e \in Entries
    PROVE  /\ e \in Chunk => ~Settled(e)
           /\ Settled(e)' <=> Settled(e) \/ e \in Chunk
<1>1. Pending' = Pending
  BY DEF Pending
<1>2. Position(e, Pending) \in Nat /\ offset \in Nat /\ BatchSize \in Nat \ {0}
  BY ChunkType, PositionType, CampaignAssumption DEF TypeOK
<1>3. e \in Pending <=> prepared[e] = "pending"
  BY DEF Pending
<1>4. e \in Chunk <=> /\ e \in Pending
                      /\ Position(e, Pending) \in offset .. offset + BatchSize - 1
  BY DEF Chunk
<1>5. Settled(e) <=> (e \in Pending => Position(e, Pending) < offset)
  BY <1>3 DEF Settled
<1>6. Settled(e)' <=> (e \in Pending => Position(e, Pending) < offset + BatchSize)
  BY <1>1, <1>3 DEF Settled
<1> QED BY <1>2, <1>4, <1>5, <1>6

\* The chunk holds the pending cases with one and the same chunk number.
LEMMA ChunkIsQuotient ==
    ASSUME TypeOK, OffsetAligned
    PROVE  \E c \in Nat : \A e \in Pending : e \in Chunk <=> ChunkOf(e) = c
<1>1. PICK c \in Nat : offset = c * BatchSize
  BY DEF OffsetAligned
<1>2. ASSUME NEW e \in Pending
      PROVE  e \in Chunk <=> ChunkOf(e) = c
  <2>1. Position(e, Pending) \in Nat /\ BatchSize \in Nat \ {0}
    BY ChunkType, PositionType, CampaignAssumption
  <2>2. Position(e, Pending) \in c * BatchSize .. c * BatchSize + BatchSize - 1
          <=> Position(e, Pending) \div BatchSize = c
    BY <2>1, ChunkQuotient
  <2> QED BY <1>1, <2>2 DEF Chunk, ChunkOf
<1> QED BY <1>2

\* The next offset is aligned too.
LEMMA NextOffsetAligned ==
    ASSUME TypeOK, OffsetAligned, offset' = offset + BatchSize
    PROVE  OffsetAligned' /\ offset' \in Nat
<1>1. PICK c \in Nat : offset = c * BatchSize
  BY DEF OffsetAligned
<1>2. c + 1 \in Nat /\ offset' = (c + 1) * BatchSize
  BY <1>1, CampaignAssumption
<1> QED BY <1>2, CampaignAssumption DEF OffsetAligned, TypeOK

\* The rows of final cases are taken over: those entries are settled, no other is.
LEMMA PartitionPreserves == IInv /\ Partition => IInv'
<1> SUFFICES ASSUME IInv, Partition PROVE IInv'
  OBVIOUS
<1>1. /\ phase = "prepare" /\ phase' = "next_chunk"
      /\ PoolDrained
      /\ results' = [e \in Entries |->
                       IF prepared[e] \in Verdicts
                       THEN [entry |-> e, verdict |-> prepared[e]] ELSE NoRow]
      /\ UNCHANGED <<config, pool, raised, prepared, offset, batch, finalized, output>>
  BY DEF Partition
<1>2. ~raised /\ \A e \in Entries : task[e] = "none"
  BY <1>1, DrainedIsEmpty
<1>3. offset = 0 /\ \A e \in Entries : prepared[e] \in {"judged", "infra_error", "pending"}
  BY <1>1, <1>2 DEF IInv, TypeOK, PreparedSoFar
<1>4. ASSUME NEW e \in Entries
      PROVE  /\ results'[e] \in OwnRow(e)
             /\ results'[e] \in Row \cup {NoRow}
             /\ results'[e] # NoRow <=> prepared[e] # "pending"
             /\ results'[e].verdict # "batch_failed"
  BY <1>1, <1>3, EntriesFinite DEF OwnRow, Row, NoRow, NoVerdict, Verdicts
<1>5. TypeOK'
  BY <1>1, <1>4 DEF IInv, TypeOK, config, pool, Phases
<1>6. SlotsConserved'
  BY <1>1, <1>2, SlotsKept DEF IInv, pool
<1>7. TasksOfPhase' /\ AnswersFit'
  BY <1>1, <1>2 DEF IInv, TasksOfPhase, AnswersFit, pool
<1>8. RowsOwn'
  BY <1>4 DEF RowsOwn, OwnRow
<1>9. ChunkRows' /\ SingleRows' /\ PreparedSoFar'
  BY <1>1 DEF IInv, ChunkRows, OwnRow, SingleRows, PreparedSoFar
<1>10. RowsSoFar'
  <2>1. ASSUME NEW e \in Entries
        PROVE  prepared'[e] # "none" /\ (results'[e] # NoRow <=> Settled(e)')
    <3>1. Pending' = Pending
      BY <1>1 DEF Pending
    <3>2. Position(e, Pending) \in Nat
      BY ChunkType, PositionType
    <3>3. Settled(e)' <=> prepared[e] # "pending"
      BY <1>1, <1>3, <3>1, <3>2 DEF Settled
    <3> QED BY <1>1, <1>3, <1>4, <3>3
  <2> QED BY <2>1 DEF RowsSoFar
<1>11. FailuresWhole'
  BY <1>4 DEF FailuresWhole
<1>12. OffsetAligned' /\ NotYetReported'
  BY <1>1 DEF IInv, OffsetAligned, NotYetReported
<1> QED BY <1>5, <1>6, <1>7, <1>8, <1>9, <1>10, <1>11, <1>12 DEF IInv

\* A step within the batching that leaves rows, prepared cases and offset alone keeps
\* what the invariant says of them.
LEMMA SameRows ==
    ASSUME IInv, Batching, Batching',
           UNCHANGED <<prepared, offset, results, output>>
    PROVE  /\ Chunk' = Chunk
           /\ RowsOwn' /\ RowsSoFar' /\ FailuresWhole' /\ OffsetAligned'
           /\ SingleRows' /\ PreparedSoFar' /\ NotYetReported'
<1>1. Pending' = Pending
  BY DEF Pending
<1>2. Chunk' = Chunk
  BY <1>1 DEF Chunk
<1>3. RowsOwn' /\ OffsetAligned'
  BY DEF IInv, RowsOwn, OwnRow, OffsetAligned
<1>4. RowsSoFar'
  BY <1>1 DEF IInv, RowsSoFar, Settled
<1>5. FailuresWhole'
  BY <1>1 DEF IInv, FailuresWhole, ChunkOf
<1>6. SingleRows' /\ PreparedSoFar' /\ NotYetReported'
  BY DEF IInv, SingleRows, PreparedSoFar, NotYetReported, Batching
<1> QED BY <1>2, <1>3, <1>4, <1>5, <1>6

\* The next chunk is taken.
LEMMA TakeChunkPreserves == IInv /\ TakeChunk => IInv'
<1> SUFFICES ASSUME IInv, TakeChunk PROVE IInv'
  OBVIOUS
<1>1. /\ phase = "next_chunk" /\ phase' = "package"
      /\ UNCHANGED <<config, pool, raised, prepared, offset, batch, finalized, results, output>>
  BY DEF TakeChunk
<1>2. /\ Chunk' = Chunk
      /\ RowsOwn' /\ RowsSoFar' /\ FailuresWhole' /\ OffsetAligned'
      /\ SingleRows' /\ PreparedSoFar' /\ NotYetReported'
  BY <1>1, SameRows DEF Batching
<1>3. TypeOK'
  BY <1>1 DEF IInv, TypeOK, config, pool, Phases
<1>4. \A e \in Entries : task[e] = "none"
  BY <1>1 DEF IInv, TasksOfPhase
<1>5. SlotsConserved'
  BY <1>1, <1>4, SlotsKept DEF IInv, pool
<1>6. TasksOfPhase' /\ AnswersFit'
  BY <1>1, <1>4 DEF IInv, TasksOfPhase, AnswersFit, pool
<1>7. ChunkRows'
  BY <1>1 DEF IInv, ChunkRows, OwnRow
<1> QED BY <1>2, <1>3, <1>5, <1>6, <1>7 DEF IInv

\* A chunk is packaged for execution by a pool.
LEMMA PackagePreserves == IInv /\ Package => IInv'
<1> SUFFICES ASSUME IInv, Package PROVE IInv'
  OBVIOUS
<1>1. /\ phase = "package" /\ batch' = {}
      /\ UNCHANGED <<config, runs, out, free, raised, prepared, offset, finalized,
                     results, output>>
  BY DEF Package
<1>2. phase' = "execute" /\ task' = Submitted(Chunk)
  BY DEF Package
<1>3. /\ Chunk' = Chunk
      /\ RowsOwn' /\ RowsSoFar' /\ FailuresWhole' /\ OffsetAligned'
      /\ SingleRows' /\ PreparedSoFar' /\ NotYetReported'
  BY <1>1, <1>2, SameRows DEF Batching
<1>4. \A e \in Entries : task[e] = "none"
  BY <1>1 DEF IInv, TasksOfPhase
<1>5. /\ task' \in [Entries -> {"none", "queued"}]
      /\ phase' = "execute" => \A e \in Entries \ Chunk : task'[e] = "none"
  BY <1>2, <1>4, ChunkType, SubmittedType DEF IInv, TypeOK
<1>6. TypeOK'
  BY <1>1, <1>2, <1>5 DEF IInv, TypeOK, config, Phases
<1>7. SlotsConserved'
  BY <1>1, <1>4, <1>5, SlotsKept DEF IInv
<1>8. TasksOfPhase'
  <2>1. ~raised
    BY <1>1 DEF IInv, TasksOfPhase
  <2> QED BY <1>1, <1>2, <1>3, <1>5, <2>1 DEF TasksOfPhase
<1>9. AnswersFit'
  BY <1>5 DEF AnswersFit
<1>10. ChunkRows'
  BY <1>1, <1>2 DEF IInv, ChunkRows, OwnRow
<1> QED BY <1>3, <1>6, <1>7, <1>8, <1>9, <1>10 DEF IInv

\* The cases of the chunk are handed to the pool that finalizes them.
LEMMA FinalizingPreserves ==
    ASSUME IInv, phase = "execute", ~raised',
           \A e \in Entries : task[e] = "none",
           Finalizing, batch' \in SUBSET Entries,
           UNCHANGED <<config, runs, out, free, raised, prepared, offset, results,
                       output>>
    PROVE  IInv'
<1>1. /\ phase' = "finalize" /\ task' = Submitted(Chunk)
      /\ finalized' = [e \in Entries |-> NoRow]
  BY DEF Finalizing
<1>2. /\ Chunk' = Chunk
      /\ RowsOwn' /\ RowsSoFar' /\ FailuresWhole' /\ OffsetAligned'
      /\ SingleRows' /\ PreparedSoFar' /\ NotYetReported'
  BY <1>1, SameRows DEF Batching
<1>3. /\ task' \in [Entries -> {"none", "queued"}]
      /\ \A e \in Entries : task'[e] = "none" <=> e \notin Chunk
  BY <1>1, ChunkType, SubmittedType
<1>4. TypeOK'
  BY <1>1, <1>3 DEF IInv, TypeOK, config, Phases
<1>5. SlotsConserved'
  BY <1>3, SlotsKept DEF IInv
<1>6. TasksOfPhase' /\ AnswersFit'
  BY <1>1, <1>2, <1>3 DEF TasksOfPhase, AnswersFit
<1>7. ChunkRows'
  BY <1>1, <1>2, <1>3 DEF ChunkRows, OwnRow, NoRow, NoVerdict
<1> QED BY <1>2, <1>4, <1>5, <1>6, <1>7 DEF IInv

\* All cases of a packaged batch have been executed and none raised.
LEMMA ExecutedPreserves == IInv /\ Executed => IInv'
<1> SUFFICES ASSUME IInv, Executed PROVE IInv'
  OBVIOUS
<1>1. /\ phase = "execute" /\ PoolDrained /\ ~raised /\ Finalizing
      /\ UNCHANGED <<config, runs, out, free, raised, prepared, offset, batch,
                     results, output>>
  BY DEF Executed
<1>2. \A e \in Entries : task[e] = "none"
  BY <1>1 DEF PoolDrained
<1>3. ~raised' /\ batch' \in SUBSET Entries
  BY <1>1 DEF IInv, TypeOK
<1> QED BY <1>1, <1>2, <1>3, FinalizingPreserves

\* The failure of a batch: its cases, and no others, get a row that says so.
LEMMA ChunkFailsPreserves == IInv /\ ChunkFails => IInv'
<1> SUFFICES ASSUME IInv, ChunkFails PROVE IInv'
  OBVIOUS
<1>1. /\ phase \in {"package", "execute"} /\ phase' = "next_chunk"
      /\ phase = "execute" => raised /\ PoolDrained
      /\ results' = [e \in Entries |->
                       IF e \in Chunk
                       THEN [entry |-> e, verdict |-> "batch_failed"] ELSE results[e]]
      /\ task' = Submitted({})
      /\ offset' = offset + BatchSize
      /\ UNCHANGED <<config, runs, out, free, prepared, batch, finalized, output>>
  BY DEF ChunkFails, FailedCases
<1>2. raised' = FALSE
  BY Zenon DEF ChunkFails
<1>3. ~raised' /\ raised' \in BOOLEAN
  BY <1>2, Zenon
<1>4. /\ task' \in [Entries -> {"none", "queued"}]
      /\ \A e \in Entries : task'[e] = "none"
  BY <1>1, SubmittedType
<1>5. \A e \in Entries : task[e] # "run"
  BY <1>1 DEF IInv, TasksOfPhase, PoolDrained, Busy
<1>6. ASSUME NEW e \in Entries
      PROVE  /\ results'[e] \in OwnRow(e)
             /\ results'[e] \in Row \cup {NoRow}
             /\ results'[e] # NoRow <=> results[e] # NoRow \/ e \in Chunk
             /\ e \in Chunk => results'[e].verdict = "batch_failed"
             /\ e \notin Chunk => results'[e] = results[e]
  BY <1>1, EntriesFinite DEF IInv, TypeOK, RowsOwn, OwnRow, Row, NoRow, NoVerdict, Verdicts
<1>7. OffsetAligned' /\ offset' \in Nat
  BY <1>1, NextOffsetAligned DEF IInv
<1>8. TypeOK'
  BY <1>1, <1>3, <1>4, <1>6, <1>7 DEF IInv, TypeOK, config, Phases
<1>9. SlotsConserved'
  BY <1>1, <1>4, <1>5, SlotsKept DEF IInv
<1>10. TasksOfPhase' /\ AnswersFit'
  BY <1>1, <1>3, <1>4 DEF TasksOfPhase, AnswersFit
<1>11. RowsOwn'
  BY <1>6 DEF RowsOwn, OwnRow
<1>12. ChunkRows' /\ SingleRows' /\ PreparedSoFar' /\ NotYetReported'
  BY <1>1 DEF IInv, ChunkRows, OwnRow, SingleRows, PreparedSoFar, NotYetReported
<1>13. RowsSoFar'
  <2>1. ASSUME NEW e \in Entries
        PROVE  prepared'[e] # "none" /\ (results'[e] # NoRow <=> Settled(e)')
    <3>1. prepared[e] # "none" /\ (results[e] # NoRow <=> Settled(e))
      BY <1>1 DEF IInv, RowsSoFar, Batching
    <3>2. Settled(e)' <=> Settled(e) \/ e \in Chunk
      BY <1>1, NextOffsetSettlesChunk DEF IInv
    <3> QED BY <1>1, <1>6, <3>1, <3>2
  <2> QED BY <2>1 DEF RowsSoFar
<1>14. FailuresWhole'
  <2>1. Pending' = Pending /\ \A d \in Pending : ChunkOf(d)' = ChunkOf(d)
    BY <1>1 DEF Pending, ChunkOf
  <2>2. PICK c \in Nat : \A d \in Pending : d \in Chunk <=> ChunkOf(d) = c
    BY ChunkIsQuotient DEF IInv
  <2>3. ASSUME NEW e \in Entries, results'[e].verdict = "batch_failed"
        PROVE  /\ prepared[e] = "pending"
               /\ \A d \in Pending : ChunkOf(d) = ChunkOf(e)
                                       => results'[d].verdict = "batch_failed"
    <3>1. CASE e \in Chunk
      <4>1. e \in Pending
        BY <3>1, ChunkType
      <4>2. \A d \in Pending : ChunkOf(d) = ChunkOf(e) => d \in Chunk
        BY <2>2, <3>1, <4>1
      <4> QED BY <1>6, <4>1, <4>2 DEF Pending
    <3>2. CASE e \notin Chunk
      <4>1. results[e].verdict = "batch_failed"
        BY <1>6, <2>3, <3>2
      <4>2. /\ prepared[e] = "pending"
            /\ \A d \in Pending : ChunkOf(d) = ChunkOf(e)
                                    => results[d].verdict = "batch_failed"
        BY <1>1, <4>1 DEF IInv, FailuresWhole, Batching
      <4> QED BY <1>6, <4>2 DEF Pending
    <3> QED BY <3>1, <3>2
  <2> SUFFICES ASSUME NEW e \in Entries, results'[e].verdict = "batch_failed"
               PROVE  /\ prepared'[e] = "pending"
                      /\ \A d \in Pending' : ChunkOf(d)' = ChunkOf(e)'
                                            => results'[d].verdict = "batch_failed"
    BY DEF FailuresWhole
  <2>4. e \in Pending
    BY <2>3 DEF Pending
  <2> QED BY <1>1, <2>1, <2>3, <2>4
<1> QED
  BY <1>7, <1>8, <1>9, <1>10, <1>11, <1>12, <1>13, <1>14 DEF IInv

\* What taking over a finalized chunk does to the rows: each of its cases gets its own,
\* and no other entry is touched.
LEMMA CollectedRows ==
    ASSUME IInv, CollectChunk, NEW e \in Entries
    PROVE  /\ \A d \in Entries : task[d] = "none"
           /\ results'[e] = IF e \in Chunk THEN finalized[e] ELSE results[e]
           /\ e \in Chunk => finalized[e] \in Row
<1>1. phase = "finalize" /\ PoolDrained
  BY DEF CollectChunk
<1>2. \A d \in Entries : task[d] = "none"
  BY <1>1, DrainedIsEmpty
<1>3. \A d \in Entries : finalized[d] # NoRow <=> d \in Chunk
  BY <1>1, <1>2 DEF IInv, ChunkRows
<1>4. \A d \in Entries : IF d \in Chunk THEN RowIndex(d) = d ELSE RowIndex(d) = 0
  BY <1>3 DEF IInv, ChunkRows, OwnRow, NoRow, RowIndex
<1>5. results'[e] = IF \E d \in Entries : RowIndex(d) = e
                    THEN finalized[CHOOSE d \in Entries : RowIndex(d) = e]
                    ELSE results[e]
  BY DEF CollectChunk
<1>6. e # 0 /\ 0 \notin Entries
  BY CampaignAssumption DEF Entries
<1>7. CASE e \in Chunk
  <2>1. \A d \in Entries : RowIndex(d) = e <=> d = e
    BY <1>4, <1>6, <1>7
  <2>2. (CHOOSE d \in Entries : RowIndex(d) = e) = e
    BY <2>1
  <2>3. finalized[e] \in Row
    BY <1>3, <1>7 DEF IInv, TypeOK
  <2> QED BY <1>2, <1>5, <1>7, <2>1, <2>2, <2>3
<1>8. CASE e \notin Chunk
  <2>1. \A d \in Entries : RowIndex(d) # e
    BY <1>4, <1>6, <1>8
  <2> QED BY <1>2, <1>5, <1>8, <2>1
<1> QED BY <1>7, <1>8

\* The rows of a finalized chunk are taken over.
LEMMA CollectChunkPreserves == IInv /\ CollectChunk => IInv'
<1> SUFFICES ASSUME IInv, CollectChunk PROVE IInv'
  OBVIOUS
<1>1. /\ phase = "finalize" /\ phase' = "next_chunk"
      /\ PoolDrained /\ results' \in [Entries -> {results'[e] : e \in Entries}]
      /\ offset' = offset + BatchSize
      /\ UNCHANGED <<config, pool, raised, prepared, batch, finalized,
                     output>>
  BY DEF CollectChunk
<1>2. ~raised /\ \A e \in Entries : task[e] = "none"
  BY <1>1, DrainedIsEmpty
<1>3. ASSUME NEW e \in Entries
      PROVE  /\ results'[e] = IF e \in Chunk THEN finalized[e] ELSE results[e]
             /\ e \in Chunk => finalized[e] \in Row
  BY CollectedRows
<1>4. ASSUME NEW e \in Entries
      PROVE  /\ results'[e] \in OwnRow(e)
             /\ results'[e] \in Row \cup {NoRow}
             /\ results'[e] # NoRow <=> results[e] # NoRow \/ e \in Chunk
             /\ results'[e].verdict = "batch_failed" =>
                  e \notin Chunk /\ results[e].verdict = "batch_failed"
  <2>1. NoRow \notin Row
    BY CampaignAssumption DEF NoRow, Row, Entries
  <2> QED BY <1>3, <2>1 DEF IInv, TypeOK, RowsOwn, ChunkRows
<1>5. OffsetAligned' /\ offset' \in Nat
  BY <1>1, NextOffsetAligned DEF IInv
<1>6. TypeOK'
  <2>1. results' \in [Entries -> Row \cup {NoRow}]
    BY <1>1, <1>4
  <2> QED BY <1>1, <1>5, <2>1 DEF IInv, TypeOK, config, pool, Phases
<1>7. SlotsConserved'
  BY <1>1, <1>2, SlotsKept DEF IInv, pool
<1>8. TasksOfPhase' /\ AnswersFit'
  BY <1>1, <1>2 DEF IInv, TasksOfPhase, AnswersFit, pool
<1>9. RowsOwn'
  BY <1>4 DEF RowsOwn, OwnRow
<1>10. ChunkRows' /\ SingleRows' /\ PreparedSoFar' /\ NotYetReported'
  BY <1>1 DEF IInv, ChunkRows, OwnRow, SingleRows, PreparedSoFar, NotYetReported
<1>11. RowsSoFar'
  <2>1. ASSUME NEW e \in Entries
        PROVE  prepared'[e] # "none" /\ (results'[e] # NoRow <=> Settled(e)')
    <3>1. prepared[e] # "none" /\ (results[e] # NoRow <=> Settled(e))
      BY <1>1 DEF IInv, RowsSoFar, Batching
    <3>2. Settled(e)' <=> Settled(e) \/ e \in Chunk
      BY <1>1, NextOffsetSettlesChunk DEF IInv
    <3> QED BY <1>1, <1>4, <3>1, <3>2
  <2> QED BY <2>1 DEF RowsSoFar
<1>12. FailuresWhole'
  <2>1. Pending' = Pending /\ \A d \in Pending : ChunkOf(d)' = ChunkOf(d)
    BY <1>1 DEF Pending, ChunkOf
  <2>2. PICK c \in Nat : \A d \in Pending : d \in Chunk <=> ChunkOf(d) = c
    BY ChunkIsQuotient DEF IInv
  <2>3. ASSUME NEW e \in Entries, results'[e].verdict = "batch_failed"
        PROVE  /\ prepared[e] = "pending"
               /\ \A d \in Pending : ChunkOf(d) = ChunkOf(e)
                                       => results'[d].verdict = "batch_failed"
    <3>1. e \notin Chunk /\ results[e].verdict = "batch_failed"
      BY <1>4, <2>3
    <3>2. /\ e \in Pending
          /\ \A d \in Pending : ChunkOf(d) = ChunkOf(e)
                                  => results[d].verdict = "batch_failed"
      BY <1>1, <3>1 DEF IInv, FailuresWhole, Batching, Pending
    <3>3. \A d \in Pending : ChunkOf(d) = ChunkOf(e) => d \notin Chunk
      BY <2>2, <3>1, <3>2
    <3> QED BY <1>3, <3>2, <3>3 DEF Pending
  <2> SUFFICES ASSUME NEW e \in Entries, results'[e].verdict = "batch_failed"
               PROVE  /\ prepared'[e] = "pending"
                      /\ \A d \in Pending' : ChunkOf(d)' = ChunkOf(e)'
                                            => results'[d].verdict = "batch_failed"
    BY DEF FailuresWhole
  <2>4. e \in Pending
    BY <2>3 DEF Pending
  <2> QED BY <1>1, <2>1, <2>3, <2>4
<1> QED BY <1>5, <1>6, <1>7, <1>8, <1>9, <1>10, <1>11, <1>12 DEF IInv

\* A campaign reports when every entry has a row, and its report holds the row of
\* entry k in place k.
LEMMA ReportIsWhole ==
    ASSUME IInv, Report
    PROVE  /\ \A e \in Entries : task[e] = "none" /\ results[e] # NoRow
           /\ ~raised
           /\ output = <<>>
           /\ output' = [e \in Entries |-> results[e]]
<1>1. \/ phase = "one" /\ PoolDrained
      \/ phase = "next_chunk" /\ offset >= Cardinality(Pending)
  BY DEF Report
<1>2. ~raised /\ \A e \in Entries : task[e] = "none"
  <2>1. CASE phase = "one" /\ PoolDrained
    BY <2>1, DrainedIsEmpty
  <2>2. CASE phase = "next_chunk"
    BY <2>2 DEF IInv, TasksOfPhase
  <2> QED BY <1>1, <2>1, <2>2
<1>3. ASSUME NEW e \in Entries PROVE results[e] # NoRow
  <2>1. CASE phase = "one"
    BY <2>1, <1>2 DEF IInv, SingleRows
  <2>2. CASE phase = "next_chunk" /\ offset >= Cardinality(Pending)
    <3>1. prepared[e] = "pending" => e \in Pending
      BY DEF Pending
    <3>2. e \in Pending => Position(e, Pending) < offset
      <4>1. e \in Pending => Position(e, Pending) < Cardinality(Pending)
        BY ChunkType, PositionType
      <4>2. Cardinality(Pending) \in Nat /\ Position(e, Pending) \in Nat /\ offset \in Nat
        BY ChunkType, PositionType DEF IInv, TypeOK
      <4> QED BY <2>2, <4>1, <4>2
    <3>3. Settled(e)
      BY <3>1, <3>2 DEF Settled
    <3> QED BY <2>2, <3>3 DEF IInv, RowsSoFar, Batching
  <2> QED BY <1>1, <2>1, <2>2
<1>4. Judged = Entries
  BY <1>3 DEF Judged
<1>5. output' = [k \in 1 .. Cardinality(Entries) |->
                   results[CHOOSE e \in Entries : Position(e, Entries) = k - 1]]
  BY <1>4 DEF Report
<1>6. ASSUME NEW k \in Entries
      PROVE  (CHOOSE e \in Entries : Position(e, Entries) = k - 1) = k
  <2>1. \A e \in Entries : Position(e, Entries) = e - 1 /\ e \in Int
    BY PositionOfEntry, EntriesFinite
  <2>2. \A e \in Entries : Position(e, Entries) = k - 1 <=> e = k
    BY <2>1
  <2> QED BY <2>2
<1>7. 1 .. Cardinality(Entries) = Entries
  BY EntriesFinite DEF Entries
<1>8. output' = [e \in Entries |-> results[e]]
  <2>1. output' = [k \in Entries |->
                     results[CHOOSE e \in Entries : Position(e, Entries) = k - 1]]
    BY <1>5, <1>7, Zenon
  <2> QED BY <1>6, <2>1
<1>9. output = <<>>
  BY <1>1 DEF IInv, NotYetReported, TasksOfPhase
<1> QED BY <1>2, <1>3, <1>8, <1>9

\* The campaign reports.
LEMMA ReportPreserves == IInv /\ Report => IInv'
<1> SUFFICES ASSUME IInv, Report PROVE IInv'
  OBVIOUS
<1>1. /\ phase' = "done"
      /\ UNCHANGED <<config, pool, raised, prepared, offset, batch, finalized, results>>
  BY DEF Report
<1>2. /\ \A e \in Entries : task[e] = "none" /\ results[e] # NoRow
      /\ ~raised
      /\ output' = [e \in Entries |-> results[e]]
  BY ReportIsWhole
<1>3. TypeOK'
  <2>1. \A k \in DOMAIN output' : output'[k] \in Row
    BY <1>2 DEF IInv, TypeOK
  <2> QED BY <1>1, <2>1 DEF IInv, TypeOK, config, pool, Phases
<1>4. SlotsConserved'
  BY <1>1, <1>2, SlotsKept DEF IInv, pool
<1>5. TasksOfPhase' /\ AnswersFit'
  BY <1>1, <1>2 DEF TasksOfPhase, AnswersFit, pool
<1>6. RowsOwn' /\ ChunkRows' /\ SingleRows' /\ PreparedSoFar'
  BY <1>1 DEF IInv, RowsOwn, ChunkRows, OwnRow, SingleRows, PreparedSoFar
<1>7. RowsSoFar' /\ FailuresWhole' /\ NotYetReported'
  BY <1>1 DEF RowsSoFar, FailuresWhole, Batching, NotYetReported
<1>8. OffsetAligned'
  BY <1>1 DEF IInv, OffsetAligned
<1> QED BY <1>3, <1>4, <1>5, <1>6, <1>7, <1>8 DEF IInv

\* Every step preserves the invariant.
LEMMA NextPreserves == IInv /\ [Next]_vars => IInv'
<1> SUFFICES ASSUME IInv, [Next]_vars PROVE IInv'
  OBVIOUS
<1>1. ASSUME NEW e \in Entries, Task(e) PROVE IInv'
  BY <1>1, StartPreserves, AskSlotPreserves, BeginRunPreserves, EndRunPreserves,
     EndTaskPreserves DEF Task
<1>2. ASSUME NEW e \in Entries, Harvest(e) PROVE IInv'
  <2>1. phase \in {"one", "prepare", "execute", "finalize"}
    BY <1>2, HarvestSlots
  <2> QED BY <1>2, <2>1, HarvestOnePreserves, HarvestPreparePreserves,
             HarvestExecutePreserves, HarvestFinalizePreserves
<1>3. CASE MainThread
  BY <1>2, <1>3, PartitionPreserves, TakeChunkPreserves, PackagePreserves,
     ExecutedPreserves, ChunkFailsPreserves,
     CollectChunkPreserves, ReportPreserves DEF MainThread
<1>4. CASE UNCHANGED vars
  <2> USE <1>4 DEF vars, config
  <2>1. TypeOK' /\ AnswersFit'
    BY DEF IInv, TypeOK, AnswersFit
  <2>2. SlotsConserved'
    BY DEF IInv, SlotsConserved, Running
  <2>3. RowsInv'
    BY RowsFramed DEF IInv, RowsInv
  <2> QED BY <2>1, <2>2, <2>3 DEF IInv, RowsInv
<1> QED BY <1>1, <1>3, <1>4 DEF Next

-----------------------------------------------------------------------------
(* Theorems.                                                               *)

\* The strengthened invariant holds in every reachable state of a campaign
\* (schedule_entries with everything it calls).
THEOREM InvariantHolds == Spec => []IInv
<1> QED BY InitEstablishes, NextPreserves, PTL DEF Spec

\* Every variable of a campaign keeps its type: rows name entries and verdicts, the
\* limiter's counter stays between zero and the limit (ConcurrencyLimiter).
THEOREM TypeCorrect == Spec => []TypeOK
<1>1. IInv => TypeOK
  BY DEF IInv
<1> QED BY <1>1, InvariantHolds, PTL

\* For every batch size and every number of cases: the failure of a batch is charged to
\* the cases of that batch, to all of them, and to no other case (the except clause of
\* schedule_entries_with_candidate_batch).
THEOREM FailureContained == Spec => []FailureIsContained
<1>1. IInv => FailureIsContained
  <2> SUFFICES ASSUME IInv, phase = "next_chunk", NEW e \in Entries,
                      results[e].verdict = "batch_failed"
               PROVE  /\ prepared[e] = "pending"
                      /\ Position(e, Pending) < offset
                      /\ \A d \in Entries : prepared[d] = "pending" /\ ChunkOf(d) = ChunkOf(e)
                                              => results[d].verdict = "batch_failed"
    BY DEF FailureIsContained
  <2>1. /\ prepared[e] = "pending"
        /\ \A d \in Pending : ChunkOf(d) = ChunkOf(e)
                                => results[d].verdict = "batch_failed"
    BY DEF IInv, FailuresWhole, Batching
  <2>2. results[e] # NoRow
    BY DEF NoRow, NoVerdict
  <2>3. Position(e, Pending) < offset
    BY <2>1, <2>2 DEF IInv, RowsSoFar, Batching, Settled
  <2> QED BY <2>1, <2>3 DEF Pending
<1> QED BY <1>1, InvariantHolds, PTL

-----------------------------------------------------------------------------
(* A campaign implements CampaignResults.                                  *)

\* At the start no entry is judged and nothing is reported.
LEMMA InitRefines == Init => Results!Init
<1> SUFFICES ASSUME Init PROVE Results!Init
  OBVIOUS
<1>1. [e \in Entries |-> results[e].verdict] = [e \in Entries |-> NoVerdict]
  BY DEF Init, NoRow
<1>2. output = <<>>
  BY DEF Init
<1> QED BY <1>1, <1>2 DEF Results!Init, Results!Entries, Entries

\* A step that gives rows to entries without one, and changes no other row, judges
\* those entries.
LEMMA JudgeSteps ==
    ASSUME IInv, IInv', UNCHANGED output,
           \A e \in Entries : results[e] # NoRow => results'[e] = results[e]
    PROVE  Results!Judge
<1>1. ASSUME NEW e \in Entries
      PROVE  /\ results'[e].verdict \in Verdicts \cup {NoVerdict}
             /\ results[e].verdict # NoVerdict => results'[e].verdict = results[e].verdict
  BY DEF IInv, RowsOwn, OwnRow, NoRow
<1> QED BY <1>1 DEF Results!Judge, Results!Entries, Entries

\* The row of an entry is never replaced: not by a late future, by another chunk, or by
\* the failure of another batch.
LEMMA RowsAreFinal ==
    ASSUME IInv, [Next]_vars, NEW e \in Entries, results[e] # NoRow
    PROVE  results'[e] = results[e]
<1>1. CASE UNCHANGED results
  BY <1>1
<1>2. ASSUME NEW d \in Entries, Harvest(d) PROVE results'[e] = results[e]
  <2>1. task[d] = "ended" /\ phase \in {"one", "prepare", "execute", "finalize"}
    BY <1>2, HarvestSlots
  <2>2. CASE phase = "one"
    <3>1. results' = [results EXCEPT ![d] = [entry |-> d, verdict |-> out[d]]]
      BY <1>2, <2>2 DEF Harvest, FutureIndex
    <3>2. d # e
      BY <2>1, <2>2 DEF IInv, SingleRows
    <3> QED BY <3>1, <3>2 DEF IInv, TypeOK
  <2>3. CASE phase \in {"prepare", "execute", "finalize"}
    BY <1>1, <1>2, <2>3 DEF Harvest
  <2> QED BY <2>1, <2>2, <2>3
<1>3. CASE Partition
  BY <1>3 DEF Partition, IInv, PreparedSoFar
<1>4. CASE ChunkFails
  <2>1. Settled(e) /\ offset' = offset + BatchSize /\ prepared' = prepared
    BY <1>4 DEF ChunkFails, IInv, RowsSoFar, Batching
  <2>2. e \notin Chunk
    BY <2>1, NextOffsetSettlesChunk DEF IInv
  <2> QED BY <1>4, <2>2 DEF ChunkFails, FailedCases
<1>5. CASE CollectChunk
  <2>1. Settled(e) /\ offset' = offset + BatchSize /\ prepared' = prepared
    BY <1>5 DEF CollectChunk, IInv, RowsSoFar, Batching
  <2>2. e \notin Chunk
    BY <2>1, NextOffsetSettlesChunk DEF IInv
  <2> QED BY <1>5, <2>2, CollectedRows
<1>6. CASE TakeChunk \/ Package \/ Executed \/ Report
  BY <1>1, <1>6 DEF TakeChunk, Package, Executed, Report
<1>7. ASSUME NEW d \in Entries, Task(d) PROVE results'[e] = results[e]
  BY <1>1, <1>7 DEF Task, Start, AskSlot, BeginRun, EndRun, EndTask
<1>8. CASE UNCHANGED vars
  BY <1>1, <1>8 DEF vars
<1> QED BY <1>2, <1>3, <1>4, <1>5, <1>6, <1>7, <1>8 DEF Next, MainThread

\* The report of a campaign is the one that CampaignResults publishes.
LEMMA ReportPublishes ==
    ASSUME IInv, Report
    PROVE  Results!Publish
<1>1. /\ \A e \in Entries : results[e] # NoRow
      /\ output = <<>>
      /\ output' = [e \in Entries |-> results[e]]
      /\ results' = results
  BY ReportIsWhole DEF Report
<1>2. ASSUME NEW e \in Entries
      PROVE  /\ results[e].verdict # NoVerdict
             /\ results[e] = [entry |-> e, verdict |-> results[e].verdict]
  <2>1. results[e] \in [entry : {e}, verdict : Verdicts]
    BY <1>1 DEF IInv, RowsOwn, OwnRow
  <2> QED BY <2>1 DEF Verdicts, NoVerdict
<1>3. output' = [e \in Entries |-> [entry |-> e, verdict |-> results[e].verdict]]
  BY <1>1, <1>2, Zenon
<1> QED BY <1>1, <1>2, <1>3 DEF Results!Publish, Results!Entries, Entries

\* Only the report writes the output.
LEMMA OnlyReportWrites == [Next]_vars => Report \/ UNCHANGED output
<1> SUFFICES ASSUME [Next]_vars, ~Report PROVE UNCHANGED output
  OBVIOUS
<1>1. ASSUME NEW e \in Entries, Task(e) \/ Harvest(e) PROVE UNCHANGED output
  BY <1>1 DEF Task, Start, AskSlot, BeginRun, EndRun, EndTask, Harvest
<1>2. CASE Partition \/ TakeChunk \/ Package \/ Executed
             \/ ChunkFails \/ CollectChunk
  BY <1>2 DEF Partition, TakeChunk, Package, Executed,
              ChunkFails, CollectChunk
<1>3. CASE UNCHANGED vars
  BY <1>3 DEF vars
<1> QED BY <1>1, <1>2, <1>3 DEF Next, MainThread

\* The safety part of Refines, for every number of entries, jobs and modes: a campaign
\* judges every entry at most once, and reports once, one row per entry in entry order,
\* when all are judged (schedule_entries).
THEOREM CampaignImplementsResults ==
    Spec => Results!Init /\ [][Results!Next]_(Results!vars)
<1>1. IInv /\ [Next]_vars => [Results!Next]_(Results!vars)
  <2> SUFFICES ASSUME IInv, [Next]_vars PROVE Results!Next
    OBVIOUS
  <2>1. CASE Report
    BY <2>1, ReportPublishes DEF Results!Next
  <2>2. CASE ~Report
    <3>1. IInv' /\ UNCHANGED output
      BY <2>2, NextPreserves, OnlyReportWrites
    <3>2. \A e \in Entries : results[e] # NoRow => results'[e] = results[e]
      BY RowsAreFinal
    <3> QED BY <3>1, <3>2, JudgeSteps DEF Results!Next
  <2> QED BY <2>1, <2>2
<1> QED BY <1>1, InitRefines, InvariantHolds, PTL DEF Spec

=============================================================================
