--------------------------- MODULE Compare_proofs ----------------------------
(***************************************************************************)
(* Proofs about the trace comparator, for traces of any length and any     *)
(* sets of values, and about canonicalization: what its numbers stand for. *)
(***************************************************************************)
EXTENDS Normalize, SequenceTheorems, WellFoundedInduction, TLAPS

\* The loop's test for a divergence and the definition of behaviour it stands
\* for are opposites of each other.
LEMMA DivergesIsDifferent ==
    ASSUME NEW left \in Event, NEW right \in Event
    PROVE  EventDiverges(left, right) <=> ~ SameBehaviour(left, right)
  BY DEF EventDiverges, SameBehaviour, IsNoiseEvent, Fields, Event

\* An event read at a position of a trace is an event.
LEMMA EventAt ==
    ASSUME NEW t \in Traces, NEW k \in 1 .. Count(t)
    PROVE  t.events[k] \in Event
  BY ConstantsAssumption DEF Trace, Count

\* A trace's length is a natural number.
LEMMA CountType ==
    ASSUME NEW t \in Traces
    PROVE  Count(t) \in Nat
  BY ConstantsAssumption DEF Trace, Count

\* What the walk has established so far: the pairs before position i agree, and
\* a recorded divergence is the pair at i.
WalkSoFar ==
    /\ pc = "counts" => i = 1
    /\ pc \in {"events", "state"} =>
          /\ Count(reference) = Count(candidate)
          /\ i <= Count(reference) + 1
          /\ \A k \in 1 .. i - 1 :
                SameBehaviour(reference.events[k], candidate.events[k])
    /\ pc \in {"counts", "events"} => first_divergence_index = None /\ noise_only
    /\ pc = "state" =>
          \/ /\ first_divergence_index = i - 1
             /\ i <= Count(reference)
             /\ ~ SameBehaviour(reference.events[i], candidate.events[i])
             /\ ~ noise_only
          \/ /\ first_divergence_index = None
             /\ i = Count(reference) + 1
             /\ noise_only

Verdict ==
    /\ VerdictIsPointwise
    /\ ReportedIndexIsJustified
    /\ MissingIndexIsFinalState
    /\ NoiseOnlyNeverReported

\* The inductive invariant.
IInv == TypeOK /\ WalkSoFar /\ Verdict

\* It holds at first.
LEMMA InitEstablishes == Init => IInv
  BY DEF Init, Begin, IInv, TypeOK, WalkSoFar, Verdict, VerdictIsPointwise,
         ReportedIndexIsJustified, MissingIndexIsFinalState, NoiseOnlyNeverReported

\* Every step of the walk keeps it.
LEMMA StepPreserves == IInv /\ [Next]_vars => IInv'
<1> SUFFICES ASSUME IInv, [Next]_vars PROVE IInv'
  OBVIOUS
<1>0. /\ Count(reference) \in Nat
      /\ Count(candidate) \in Nat
      /\ reference \in Traces
      /\ candidate \in Traces
      /\ None \notin Nat
  BY CountType, ConstantsAssumption DEF IInv, TypeOK
<1>1. CASE CompareCounts
  <2>1. CASE Count(reference) # Count(candidate)
    <3>1. /\ comparison' = Result(FALSE, FALSE,
                                  Lower(Count(reference), Count(candidate)),
                                  "event_count_mismatch")
          /\ pc' = "done"
          /\ UNCHANGED <<reference, candidate, i, first_divergence_index, noise_only>>
      BY <1>1, <2>1 DEF CompareCounts
    <3>2. /\ Lower(Count(reference), Count(candidate)) \in Nat
          /\ Lower(Count(reference), Count(candidate)) # None
      BY <1>0 DEF Lower
    <3>3. TypeOK'
      BY <3>1, <3>2 DEF IInv, TypeOK, Result
    <3>4. WalkSoFar'
      BY <3>1 DEF WalkSoFar
    <3>5. Verdict'
      BY <3>1, <3>2, <2>1, <1>0
         DEF Verdict, VerdictIsPointwise, ReportedIndexIsJustified, Count, Lower,
             MissingIndexIsFinalState, NoiseOnlyNeverReported, Result, EquivalentTraces
    <3> QED BY <3>3, <3>4, <3>5 DEF IInv
  <2>2. CASE Count(reference) = Count(candidate)
    <3>1. /\ pc = "counts" /\ pc' = "events"
          /\ UNCHANGED <<reference, candidate, i, first_divergence_index,
                         noise_only, comparison>>
      BY <1>1, <2>2 DEF CompareCounts
    <3>2. TypeOK'
      BY <3>1 DEF IInv, TypeOK
    <3>3. WalkSoFar'
      BY <3>1, <2>2, <1>0 DEF IInv, WalkSoFar, Count
    <3>4. Verdict'
      BY <3>1 DEF Verdict, VerdictIsPointwise, ReportedIndexIsJustified,
                  MissingIndexIsFinalState, NoiseOnlyNeverReported
    <3> QED BY <3>2, <3>3, <3>4 DEF IInv
  <2> QED BY <2>1, <2>2
<1>2. CASE CompareEvent
  <2>1. /\ pc = "events" /\ i \in 1 .. Count(reference)
        /\ Count(reference) = Count(candidate)
        /\ UNCHANGED <<reference, candidate, comparison>>
    BY <1>0, <1>2 DEF IInv, TypeOK, WalkSoFar, CompareEvent
  <2>2. /\ reference.events[i] \in Event
        /\ candidate.events[i] \in Event
    BY <1>0, <2>1, EventAt
  <2>3. CASE EventDiverges(reference.events[i], candidate.events[i])
    <3>1. /\ first_divergence_index' = i - 1 /\ noise_only' = FALSE /\ pc' = "state"
          /\ UNCHANGED i
      BY <1>2, <2>3 DEF CompareEvent, DivergenceIndex
    <3>2. ~ SameBehaviour(reference.events[i], candidate.events[i])
      BY <2>2, <2>3, DivergesIsDifferent
    <3>3. TypeOK'
      <4>1. i - 1 \in Nat
        BY <1>0, <2>1
      <4> QED BY <1>0, <2>1, <3>1, <4>1 DEF IInv, TypeOK
    <3>4. WalkSoFar'
      BY <1>0, <2>1, <3>1, <3>2 DEF IInv, WalkSoFar, Count
    <3>5. Verdict'
      BY <3>1 DEF Verdict, VerdictIsPointwise, ReportedIndexIsJustified,
                  MissingIndexIsFinalState, NoiseOnlyNeverReported
    <3> QED BY <3>3, <3>4, <3>5 DEF IInv
  <2>4. CASE ~ EventDiverges(reference.events[i], candidate.events[i])
    <3>1. /\ i' = i + 1
          /\ UNCHANGED <<first_divergence_index, noise_only, pc>>
      BY <1>2, <2>4 DEF CompareEvent, NextPosition
    <3>2. SameBehaviour(reference.events[i], candidate.events[i])
      BY <2>2, <2>4, DivergesIsDifferent
    <3>3. TypeOK'
      BY <2>1, <3>1 DEF IInv, TypeOK
    <3>4. \A k \in 1 .. i' - 1 : SameBehaviour(reference.events[k], candidate.events[k])
      BY <2>1, <3>1, <3>2 DEF IInv, WalkSoFar
    <3>5. WalkSoFar'
      BY <1>0, <2>1, <3>1, <3>4 DEF IInv, WalkSoFar, Count
    <3>6. Verdict'
      BY <2>1, <3>1 DEF Verdict, VerdictIsPointwise, ReportedIndexIsJustified,
                  MissingIndexIsFinalState, NoiseOnlyNeverReported
    <3> QED BY <3>3, <3>5, <3>6 DEF IInv
  <2> QED BY <2>3, <2>4
<1>3. CASE EventsExhausted
  <2>1. /\ pc = "events" /\ pc' = "state" /\ i > Count(reference)
        /\ UNCHANGED <<reference, candidate, i, first_divergence_index, noise_only,
                       comparison>>
    BY <1>3 DEF EventsExhausted
  <2>2. i = Count(reference) + 1
    BY <1>0, <2>1 DEF IInv, TypeOK, WalkSoFar
  <2>3. TypeOK'
    BY <2>1 DEF IInv, TypeOK
  <2>4. WalkSoFar'
    BY <1>0, <2>1, <2>2 DEF IInv, WalkSoFar, Count
  <2>5. Verdict'
    BY <2>1 DEF Verdict, VerdictIsPointwise, ReportedIndexIsJustified,
                MissingIndexIsFinalState, NoiseOnlyNeverReported
  <2> QED BY <2>3, <2>4, <2>5 DEF IInv
<1>4. CASE CompareState
  <2> DEFINE final == reference.final_state = candidate.final_state
             exit == reference.process_exit = candidate.process_exit
             index == IndexAfterExit(exit)
             equivalent == index = None /\ final /\ exit
             noise == NoiseAfterState(exit, equivalent)
  <2>1. /\ pc = "state" /\ pc' = "done"
        /\ first_divergence_index' = index
        /\ noise_only' = noise
        /\ comparison' = Result(equivalent, noise /\ final, index,
                                IF equivalent THEN "no_diff" ELSE "content_mismatch")
        /\ UNCHANGED <<reference, candidate, i>>
    BY <1>4 DEF CompareState, Equivalent
  <2>2. /\ index \in Nat \cup {None}
        /\ noise \in BOOLEAN
        /\ equivalent \in BOOLEAN
    BY <1>0 DEF IndexAfterExit, NoiseAfterState, IInv, TypeOK
  <2>3. /\ comparison'.equivalent = equivalent
        /\ comparison'.noise_only = (noise /\ final)
        /\ comparison'.first_divergence_index = index
    BY <2>1 DEF Result
  <2>4. TypeOK'
    BY <2>1, <2>2 DEF IInv, TypeOK, Result
  <2>5. WalkSoFar'
    BY <2>1 DEF WalkSoFar
  <2>6. ASSUME first_divergence_index = i - 1,
               i <= Count(reference),
               ~ SameBehaviour(reference.events[i], candidate.events[i]),
               ~ noise_only
        PROVE  Verdict'
    <3>1. /\ index = i - 1 /\ index # None /\ ~ equivalent /\ ~ noise
          /\ i \in 1 .. Count(reference)
          /\ Count(reference) = Count(candidate)
      BY <1>0, <2>1, <2>6 DEF IInv, TypeOK, WalkSoFar, IndexAfterExit, NoiseAfterState
    <3>2. VerdictIsPointwise'
      BY <1>0, <2>1, <2>3, <2>6, <3>1 DEF VerdictIsPointwise, EquivalentTraces
    <3>3. ReportedIndexIsJustified'
      BY <1>0, <2>1, <2>3, <2>6, <3>1
         DEF ReportedIndexIsJustified, PartAt, Count, IInv, TypeOK, WalkSoFar, Result
    <3> QED BY <2>3, <3>1, <3>2, <3>3
            DEF Verdict, MissingIndexIsFinalState, NoiseOnlyNeverReported
  <2>7. ASSUME first_divergence_index = None,
               i = Count(reference) + 1,
               noise_only
        PROVE  Verdict'
    <3>1. /\ Count(reference) = Count(candidate)
          /\ \A k \in 1 .. Count(reference) :
                SameBehaviour(reference.events[k], candidate.events[k])
      BY <1>0, <2>1, <2>7 DEF IInv, WalkSoFar
    <3>2. index = IF exit THEN None ELSE Count(reference)
      BY <2>7 DEF IndexAfterExit
    <3>3. equivalent <=> final /\ exit
      BY <1>0, <3>2
    <3>4. VerdictIsPointwise'
      BY <2>1, <2>3, <3>1, <3>3 DEF VerdictIsPointwise, EquivalentTraces, Count
    <3>5. ReportedIndexIsJustified'
      BY <1>0, <2>1, <2>3, <3>1, <3>2, <3>3 DEF ReportedIndexIsJustified, PartAt, Count, Result
    <3>6. MissingIndexIsFinalState'
      BY <1>0, <2>1, <2>3, <3>1, <3>2, <3>3 DEF MissingIndexIsFinalState, Count
    <3>7. ~ (noise /\ final)
      BY <3>3 DEF NoiseAfterState
    <3>8. NoiseOnlyNeverReported'
      BY <2>3, <3>7 DEF NoiseOnlyNeverReported
    <3> QED BY <3>4, <3>5, <3>6, <3>8 DEF Verdict
  <2>8. Verdict'
    BY <2>1, <2>6, <2>7 DEF IInv, WalkSoFar
  <2> QED BY <2>4, <2>5, <2>8 DEF IInv
<1>5. CASE UNCHANGED vars
  BY <1>5 DEF vars, IInv, TypeOK, WalkSoFar, Verdict, VerdictIsPointwise,
              ReportedIndexIsJustified, MissingIndexIsFinalState, NoiseOnlyNeverReported,
              EquivalentTraces, PartAt, Count
<1> QED BY <1>1, <1>2, <1>3, <1>4, <1>5 DEF Next

\* compare_canonical's walk keeps its variables in their types.
THEOREM TypeCorrect == Spec => []TypeOK
<1>1. Spec => []IInv
  BY InitEstablishes, StepPreserves, PTL DEF Spec
<1>2. IInv => TypeOK
  BY DEF IInv
<1> QED BY <1>1, <1>2, PTL

\* For traces of any length, compare_canonical calls two traces equivalent exactly
\* when every pair of events shows the same behaviour and the final states and
\* process exits agree.
THEOREM ComparesPointwise == Spec => []VerdictIsPointwise
<1>1. Spec => []IInv
  BY InitEstablishes, StepPreserves, PTL DEF Spec
<1>2. IInv => VerdictIsPointwise
  BY DEF IInv, Verdict
<1> QED BY <1>1, <1>2, PTL

\* The index compare_canonical reports, for every two traces: of traces of one length the
\* first place where they part, of others the length of the shorter one, which says
\* nothing of the pairs before it.
THEOREM IndexJustified == Spec => []ReportedIndexIsJustified
<1>1. Spec => []IInv
  BY InitEstablishes, StepPreserves, PTL DEF Spec
<1>2. IInv => ReportedIndexIsJustified
  BY DEF IInv, Verdict
<1> QED BY <1>1, <1>2, PTL

\* A divergence without an index is one of the final state alone.
THEOREM MissingIndexMeansFinalState == Spec => []MissingIndexIsFinalState
<1>1. Spec => []IInv
  BY InitEstablishes, StepPreserves, PTL DEF Spec
<1>2. IInv => MissingIndexIsFinalState
  BY DEF IInv, Verdict
<1> QED BY <1>1, <1>2, PTL

\* compare_canonical never returns noise_only, whatever the traces and the
\* configured noise system calls are.
THEOREM NoiseOnlyIsDead == Spec => []NoiseOnlyNeverReported
<1>1. Spec => []IInv
  BY InitEstablishes, StepPreserves, PTL DEF Spec
<1>2. IInv => NoiseOnlyNeverReported
  BY DEF IInv, Verdict
<1> QED BY <1>1, <1>2, PTL

-----------------------------------------------------------------------------
(* Normalization: what the tokens of a sequence of uses say. *)

\* A set of natural numbers that is not empty has a least member.
LEMMA LeastNumber ==
    ASSUME NEW T \in SUBSET Nat, T # {}
    PROVE  \E m \in T : \A n \in T : m <= n
<1>1. PICK m \in T : \A n \in T : ~ (<<n, m>> \in OpToRel(<, Nat))
  BY NatLessThanWellFounded, WFMin
<1>2. ASSUME NEW n \in T PROVE m <= n
  <2>1. ~ (<<n, m>> \in OpToRel(<, Nat))
    BY <1>1
  <2>2. ~ (n < m)
    BY <2>1 DEF OpToRel
  <2> QED
    BY <2>2
<1> QED
  BY <1>2

\* The kinds of use that take a number.
Numbered == {"fd", "pid", "addr"}

\* No value stands twice in it.
Distinct(s) == \A p, q \in 1 .. Len(s) : s[p] = s[q] => p = q

\* The number of a value that was seen is its place among the values seen.
LEMMA TokenOfSeen ==
    ASSUME NEW ctx, NEW use, NEW p \in 1 .. Len(ctx[use.kind]),
           ctx[use.kind] \in Seq(Int), Distinct(ctx[use.kind]),
           ctx[use.kind][p] = use.value
    PROVE  /\ Token(use, ctx) = <<use.kind, p - 1>>
           /\ Seen(use, ctx) = ctx
<1> DEFINE seen == ctx[use.kind]
           places == {q \in 1 .. Len(seen) : seen[q] = use.value}
<1>1. places = {p}
  BY DEF Distinct
<1>2. p \in Int
  OBVIOUS
<1>3. Min({p}) = p
  BY <1>2 DEF Min
<1>4. Contains(seen, use.value)
  BY DEF Contains
<1>5. SelectInSeq(seen, LAMBDA v : v = use.value) = p
  BY <1>1, <1>3 DEF SelectInSeq
<1>6. Token(use, ctx) = <<use.kind, p - 1>>
  BY <1>4, <1>5 DEF Token
<1>7. Seen(use, ctx) = ctx
  BY <1>4 DEF Seen
<1> QED
  BY <1>6, <1>7

\* A value that was not seen takes the next number.
LEMMA TokenOfNew ==
    ASSUME NEW ctx, NEW use, ~ Contains(ctx[use.kind], use.value)
    PROVE  /\ Token(use, ctx) = <<use.kind, Len(ctx[use.kind])>>
           /\ Seen(use, ctx) = [ctx EXCEPT ![use.kind] = Append(@, use.value)]
  BY DEF Token, Seen

\* A value that is not in a sequence of distinct values, and the sequence with it at the end.
Fresh(s, x) == s \in Seq(Int) /\ x \in Int /\ Distinct(s) /\ ~ Contains(s, x)

ExtendedBy(t, s, x) ==
    /\ t \in Seq(Int) /\ Distinct(t)
    /\ Len(s) \in Nat /\ Len(t) = Len(s) + 1
    /\ t[Len(s) + 1] = x
    /\ \A p \in 1 .. Len(s) : t[p] = s[p]

\* The values stay distinct.
LEMMA DistinctAppend ==
    ASSUME NEW s, NEW x, Fresh(s, x)
    PROVE  ExtendedBy(Append(s, x), s, x)
<1> DEFINE t == Append(s, x)
<1>1. /\ s \in Seq(Int) /\ x \in Int /\ Len(s) \in Nat /\ t \in Seq(Int) /\ Len(t) = Len(s) + 1
      /\ t[Len(s) + 1] = x /\ \A p \in 1 .. Len(s) : t[p] = s[p]
  BY DEF Fresh
<1> HIDE DEF t
<1>2. \A p \in 1 .. Len(t) : p \in 1 .. Len(s) \/ p = Len(s) + 1
  BY <1>1
<1>3. \A p \in 1 .. Len(s) : s[p] # x
  BY DEF Contains, Fresh
<1>4. ASSUME NEW p \in 1 .. Len(t), NEW q \in 1 .. Len(t), t[p] = t[q]
      PROVE  p = q
  <2>1. CASE p \in 1 .. Len(s) /\ q \in 1 .. Len(s)
    <3>1. s[p] = s[q]
      BY <1>1, <1>4, <2>1
    <3> QED
      BY <2>1, <3>1 DEF Distinct, Fresh
  <2>2. CASE p = Len(s) + 1 /\ q \in 1 .. Len(s)
    BY <1>1, <1>3, <1>4, <2>2
  <2>3. CASE q = Len(s) + 1 /\ p \in 1 .. Len(s)
    BY <1>1, <1>3, <1>4, <2>3
  <2> QED
    BY <1>2, <2>1, <2>2, <2>3
<1>5. Distinct(t)
  BY <1>4 DEF Distinct
<1>6. ExtendedBy(t, s, x)
  BY <1>1, <1>5 DEF ExtendedBy
<1> QED
  BY <1>6 DEF t

-----------------------------------------------------------------------------
\* Induction up to n, for the members of a set.
LEMMA UpTo ==
    ASSUME NEW n \in Nat, NEW T, 0 \in T, \A k \in 1 .. n : k - 1 \in T => k \in T
    PROVE  \A k \in 0 .. n : k \in T
<1> DEFINE Bad == {k \in 0 .. n : k \notin T}
<1>1. ASSUME Bad # {} PROVE FALSE
  <2>1. PICK k \in Bad : \A m \in Bad : k <= m
    <3>1. Bad \in SUBSET Nat
      OBVIOUS
    <3> QED
      BY <1>1, <3>1, LeastNumber
  <2>2. k \in 1 .. n /\ k - 1 \in 0 .. n /\ ~ (k <= k - 1)
    BY <2>1
  <2>3. k - 1 \notin Bad
    <3> HIDE DEF Bad
    <3> QED
      BY <2>1, <2>2
  <2> QED
    BY <2>1, <2>2, <2>3
<1> QED
  BY <1>1

\* A pass over a list of n elements: a state before each of them, and after the last.
Steps(n, S, first, step) == n \in Nat /\ first \in S /\ step \in [(1 .. n) \X S -> S]

IsPass(after, n, S, first, step) ==
    /\ after \in [0 .. n -> S] /\ after[0] = first
    /\ \A k \in 1 .. n : after[k] = step[<<k, after[k - 1]>>]

\* There is one.
LEMMA PassExists ==
    ASSUME NEW n, NEW S, NEW first, NEW step, Steps(n, S, first, step)
    PROVE  \E after : IsPass(after, n, S, first, step)
<1> DEFINE Pass(after, k) ==
             /\ after \in [0 .. k -> S] /\ after[0] = first
             /\ \A m \in 1 .. k : after[m] = step[<<m, after[m - 1]>>]
           T == {k \in 0 .. n : \E after : Pass(after, k)}
<1>0. n \in Nat /\ first \in S /\ step \in [(1 .. n) \X S -> S]
  BY DEF Steps
<1>1. 0 \in T
  <2> DEFINE after == [m \in 0 .. 0 |-> first]
  <2>1. Pass(after, 0)
    BY <1>0
  <2> HIDE DEF after, Pass
  <2> QED
    BY <1>0, <2>1
<1>2. ASSUME NEW k \in 1 .. n, k - 1 \in T PROVE k \in T
  <2>1. PICK before : Pass(before, k - 1)
    BY <1>2
  <2>2. before[k - 1] \in S
    BY <2>1
  <2> DEFINE last == step[<<k, before[k - 1]>>]
             after == [m \in 0 .. k |-> IF m = k THEN last ELSE before[m]]
  <2>3. last \in S
    BY <1>0, <2>2
  <2>4. \A m \in 0 .. k - 1 : after[m] = before[m] /\ before[m] \in S
    BY <2>1
  <2>5. after[k] = last
    OBVIOUS
  <2>6. after \in [0 .. k -> S]
    <3> HIDE DEF last
    <3> QED
      BY <2>1, <2>3
  <2>7. after[0] = first
    BY <2>1, <2>4
  <2> HIDE DEF after
  <2>8. ASSUME NEW m \in 1 .. k PROVE after[m] = step[<<m, after[m - 1]>>]
    <3>1. m - 1 \in 0 .. k - 1
      OBVIOUS
    <3>2. after[m - 1] = before[m - 1]
      BY <2>4, <3>1
    <3>3. CASE m = k
      BY <2>5, <3>2, <3>3
    <3>4. CASE m # k
      <4>1. m \in 1 .. k - 1 /\ m \in 0 .. k - 1
        BY <3>4
      <4>2. before[m] = step[<<m, before[m - 1]>>]
        BY <2>1, <4>1
      <4> QED
        BY <2>4, <3>2, <4>1, <4>2
    <3> QED
      BY <3>3, <3>4
  <2>9. Pass(after, k)
    BY <2>6, <2>7, <2>8
  <2> HIDE DEF Pass
  <2> QED
    BY <2>9
<1>3. n \in T
  <2> HIDE DEF T
  <2> QED
    BY <1>0, <1>1, <1>2, UpTo
<1> QED
  BY <1>3 DEF IsPass

-----------------------------------------------------------------------------
\* The values in use, the contexts, and how a context grows.
AllUses == [kind : Numbered \cup {"plain"}, value : Int]

Contexts == {ctx \in [Numbered -> Seq(Int)] : \A kind \in Numbered : Distinct(ctx[kind])}

Grows(c, d) ==
    \A kind \in Numbered :
       /\ Len(c[kind]) <= Len(d[kind])
       /\ \A p \in 1 .. Len(c[kind]) : d[kind][p] = c[kind][p]

\* The token stands for the use, in a context where its value was seen.
Names(token, use, ctx) ==
    IF use.kind = "plain" THEN token = <<"plain", use.value>>
    ELSE \E p \in 1 .. Len(ctx[use.kind]) :
            token = <<use.kind, p - 1>> /\ ctx[use.kind][p] = use.value

\* Nothing is seen at first.
LEMMA NewContextType == NewContext \in Contexts
<1>1. NewContext \in [Numbered -> Seq(Int)]
  BY DEF NewContext, Numbered
<1>2. \A kind \in Numbered : Len(NewContext[kind]) = 0
  BY DEF NewContext, Numbered
<1> QED
  BY <1>1, <1>2 DEF Contexts, Distinct

\* A context has a length for every kind.
LEMMA LengthOfKind ==
    ASSUME NEW c \in Contexts, NEW kind \in Numbered
    PROVE  c[kind] \in Seq(Int) /\ Len(c[kind]) \in Nat
  BY DEF Contexts

\* A context that stays as it is.
LEMMA GrowsReflexive ==
    ASSUME NEW c \in Contexts
    PROVE  Grows(c, c)
  BY LengthOfKind DEF Grows

\* Growth over two steps.
LEMMA GrowsTransitive ==
    ASSUME NEW c \in Contexts, NEW d \in Contexts, NEW e \in Contexts, Grows(c, d), Grows(d, e)
    PROVE  Grows(c, e)
<1>1. ASSUME NEW kind \in Numbered
      PROVE  /\ Len(c[kind]) <= Len(e[kind])
             /\ \A p \in 1 .. Len(c[kind]) : e[kind][p] = c[kind][p]
  <2>1. Len(c[kind]) \in Nat /\ Len(d[kind]) \in Nat /\ Len(e[kind]) \in Nat
    BY LengthOfKind
  <2>2. Len(c[kind]) <= Len(d[kind]) /\ Len(d[kind]) <= Len(e[kind])
    BY DEF Grows
  <2>3. ASSUME NEW p \in 1 .. Len(c[kind]) PROVE e[kind][p] = c[kind][p]
    <3>1. p \in 1 .. Len(d[kind])
      BY <2>1, <2>2
    <3> QED
      BY <3>1 DEF Grows
  <2> QED
    BY <2>1, <2>2, <2>3
<1> QED
  BY <1>1 DEF Grows

\* A token keeps its meaning as the context grows.
LEMMA NamesGrow ==
    ASSUME NEW c \in Contexts, NEW d \in Contexts, Grows(c, d),
           NEW use \in AllUses, NEW token, Names(token, use, c)
    PROVE  Names(token, use, d)
<1>1. CASE use.kind = "plain"
  BY <1>1 DEF Names
<1>2. CASE use.kind # "plain"
  <2>1. use.kind \in Numbered
    BY <1>2 DEF AllUses
  <2>2. PICK p \in 1 .. Len(c[use.kind]) :
           token = <<use.kind, p - 1>> /\ c[use.kind][p] = use.value
    BY <1>2 DEF Names
  <2>3. Len(c[use.kind]) \in Nat /\ Len(d[use.kind]) \in Nat
    BY <2>1, LengthOfKind
  <2>4. p \in 1 .. Len(d[use.kind]) /\ d[use.kind][p] = use.value
    BY <2>1, <2>2, <2>3 DEF Grows
  <2> QED
    BY <1>2, <2>2, <2>4 DEF Names
<1> QED
  BY <1>1, <1>2

\* Along a pass in which every step lets the context grow, it grows up to the end.
LEMMA GrowsAlongPass ==
    ASSUME NEW n \in Nat, NEW after \in [0 .. n -> Contexts],
           \A k \in 1 .. n : Grows(after[k - 1], after[k])
    PROVE  \A k \in 0 .. n : Grows(after[k], after[n])
<1> DEFINE T == {k \in 0 .. n : \A j \in 0 .. k : Grows(after[j], after[k])}
<1>1. 0 \in T
  BY GrowsReflexive
<1>2. ASSUME NEW k \in 1 .. n, k - 1 \in T PROVE k \in T
  <2>1. ASSUME NEW j \in 0 .. k PROVE Grows(after[j], after[k])
    <3>1. CASE j = k
      BY <3>1, GrowsReflexive
    <3>2. CASE j # k
      <4>1. j \in 0 .. k - 1 /\ j \in 0 .. n /\ k - 1 \in 0 .. n /\ k \in 0 .. n
        BY <3>2
      <4>2. Grows(after[j], after[k - 1]) /\ Grows(after[k - 1], after[k])
        BY <1>2, <4>1
      <4>3. after[j] \in Contexts /\ after[k - 1] \in Contexts /\ after[k] \in Contexts
        BY <4>1
      <4> QED
        BY <4>2, <4>3, GrowsTransitive
    <3> QED
      BY <3>1, <3>2
  <2> QED
    BY <2>1
<1>3. n \in T
  <2> HIDE DEF T
  <2> QED
    BY <1>1, <1>2, UpTo
<1> QED
  BY <1>3

-----------------------------------------------------------------------------
\* A context in which a new value was seen.
SeenAlso(d, c, kind, x) ==
    /\ c \in Contexts /\ kind \in Numbered /\ x \in Int /\ ~ Contains(c[kind], x)
    /\ d = [c EXCEPT ![kind] = Append(@, x)]

\* It is a context, has grown, and holds the value at the next place.
LEMMA ContextAppend ==
    ASSUME NEW d, NEW c, NEW kind, NEW x, SeenAlso(d, c, kind, x)
    PROVE  /\ d \in Contexts /\ Grows(c, d) /\ ExtendedBy(d[kind], c[kind], x)
           /\ \A other \in Numbered : other # kind => d[other] = c[other]
<1> DEFINE s == c[kind]
           t == d[kind]
<1>0. /\ c \in Contexts /\ kind \in Numbered /\ x \in Int /\ ~ Contains(s, x)
      /\ d = [c EXCEPT ![kind] = Append(s, x)]
  BY DEF SeenAlso
<1>1. s \in Seq(Int) /\ Distinct(s) /\ c \in [Numbered -> Seq(Int)]
  BY <1>0 DEF Contexts
<1>2. t = Append(s, x) /\ \A other \in Numbered : other # kind => d[other] = c[other]
  BY <1>0, <1>1
<1>3. Fresh(s, x)
  BY <1>0, <1>1 DEF Fresh
<1>4. ExtendedBy(t, s, x)
  BY <1>2, <1>3, DistinctAppend
<1>5. \A other \in Numbered : Distinct(d[other])
  <2> SUFFICES ASSUME NEW other \in Numbered PROVE Distinct(d[other])
    OBVIOUS
  <2>1. CASE other = kind
    BY <1>4, <2>1 DEF ExtendedBy
  <2>2. CASE other # kind
    BY <1>0, <1>2, <2>2 DEF Contexts
  <2> QED
    BY <2>1, <2>2
<1>6. d \in [Numbered -> Seq(Int)]
  <2>1. Append(s, x) \in Seq(Int)
    BY <1>2, <1>4 DEF ExtendedBy
  <2> QED
    BY <1>0, <1>1, <2>1
<1>7. Grows(c, d)
  <2> SUFFICES ASSUME NEW other \in Numbered
               PROVE  /\ Len(c[other]) <= Len(d[other])
                      /\ \A p \in 1 .. Len(c[other]) : d[other][p] = c[other][p]
    BY DEF Grows
  <2>1. CASE other = kind
    <3> HIDE DEF s, t
    <3>1. Len(s) <= Len(t) /\ \A p \in 1 .. Len(s) : t[p] = s[p]
      BY <1>4 DEF ExtendedBy
    <3> QED
      BY <2>1, <3>1 DEF s, t
  <2>2. CASE other # kind
    BY <1>0, <1>2, <2>2, LengthOfKind
  <2> QED
    BY <2>1, <2>2
<1>8. d \in Contexts
  BY <1>5, <1>6 DEF Contexts
<1> QED
  BY <1>2, <1>4, <1>7, <1>8

\* normalize_scalar puts out a token that stands for the value.
LEMMA ScalarNamed ==
    ASSUME NEW use \in AllUses, NEW c \in Contexts,
           NEW out, NEW d, out = NormalizeScalar(use, c).out, d = NormalizeScalar(use, c).ctx
    PROVE  d \in Contexts /\ Grows(c, d) /\ Names(out, use, d)
<1>1. CASE use.kind = "plain"
  <2>1. d = c /\ out = <<"plain", use.value>>
    BY <1>1 DEF NormalizeScalar
  <2> QED
    BY <1>1, <2>1, GrowsReflexive DEF Names
<1>2. CASE use.kind # "plain"
  <2> DEFINE kind == use.kind
             v == use.value
  <2>1. d = Seen(use, c) /\ out = Token(use, c)
    BY <1>2 DEF NormalizeScalar
  <2>2. /\ kind \in Numbered /\ v \in Int
        /\ c[kind] \in Seq(Int) /\ Distinct(c[kind])
    BY <1>2 DEF AllUses, Contexts
  <2>3. CASE Contains(c[kind], v)
    <3>1. PICK p \in 1 .. Len(c[kind]) : c[kind][p] = v
      BY <2>3 DEF Contains
    <3>2. out = <<kind, p - 1>> /\ d = c
      BY <2>1, <2>2, <3>1, TokenOfSeen
    <3> QED
      BY <1>2, <3>1, <3>2, GrowsReflexive DEF Names
  <2>4. CASE ~ Contains(c[kind], v)
    <3> DEFINE n == Len(c[kind]) + 1
    <3>1. /\ out = <<kind, Len(c[kind])>>
          /\ d = [c EXCEPT ![kind] = Append(@, v)]
      BY <2>1, <2>4, TokenOfNew
    <3>2. d \in Contexts /\ Grows(c, d) /\ ExtendedBy(d[kind], c[kind], v)
      <4>1. SeenAlso(d, c, kind, v)
        BY <2>2, <2>4, <3>1 DEF SeenAlso
      <4> HIDE DEF kind, v
      <4> QED
        BY <4>1, ContextAppend
    <3>3. n \in 1 .. Len(d[kind]) /\ d[kind][n] = v /\ n - 1 = Len(c[kind])
      <4> HIDE DEF kind, v
      <4> QED
        BY <3>2 DEF ExtendedBy
    <3>4. out = <<kind, n - 1>>
      BY <3>1, <3>3
    <3> HIDE DEF n
    <3> QED
      BY <1>2, <3>2, <3>3, <3>4 DEF Names
  <2> QED
    BY <2>3, <2>4
<1> QED
  BY <1>1, <1>2

\* The contexts along a list of values.
ScalarPasses(after, uses, ctx) ==
    /\ after \in [0 .. Len(uses) -> Contexts] /\ after[0] = ctx
    /\ \A k \in 1 .. Len(uses) :
          /\ after[k] = NormalizeScalar(uses[k], after[k - 1]).ctx
          /\ uses[k] \in AllUses /\ after[k - 1] \in Contexts

\* The recursive function of the model exists: every context is the one left by the value before.
LEMMA ScalarContextsAre ==
    ASSUME NEW uses \in Seq(AllUses), NEW ctx \in Contexts
    PROVE  ScalarPasses(ScalarContexts(uses, ctx), uses, ctx)
<1> DEFINE after == ScalarContexts(uses, ctx)
           n == Len(uses)
           IsAfter(f) == f = [k \in 0 .. n |->
                               IF k = 0 THEN ctx ELSE NormalizeScalar(uses[k], f[k - 1]).ctx]
           step == [x \in (1 .. n) \X Contexts |-> NormalizeScalar(uses[x[1]], x[2]).ctx]
<1>1. n \in Nat /\ \A k \in 1 .. n : uses[k] \in AllUses
  OBVIOUS
<1>2. \A k \in 1 .. n, c \in Contexts : NormalizeScalar(uses[k], c).ctx \in Contexts
  BY <1>1, ScalarNamed
<1>3. /\ step \in [(1 .. n) \X Contexts -> Contexts]
      /\ \A k \in 1 .. n, c \in Contexts : step[<<k, c>>] = NormalizeScalar(uses[k], c).ctx
  BY <1>2
<1>4. after = CHOOSE f : IsAfter(f)
  BY DEF ScalarContexts
<1> HIDE DEF after
<1>5. \E f : IsAfter(f)
  <2>1. Steps(n, Contexts, ctx, step)
    BY <1>1, <1>3 DEF Steps
  <2> HIDE DEF step, n, IsAfter
  <2>2. PICK f : IsPass(f, n, Contexts, ctx, step)
    BY <2>1, PassExists
  <2>3. /\ f \in [0 .. n -> Contexts]
        /\ f[0] = ctx /\ \A k \in 1 .. n : f[k] = step[<<k, f[k - 1]>>]
    BY <2>2 DEF IsPass
  <2>4. ASSUME NEW k \in 0 .. n
        PROVE  f[k] = IF k = 0 THEN ctx ELSE NormalizeScalar(uses[k], f[k - 1]).ctx
    <3>1. CASE k = 0
      BY <2>3, <3>1
    <3>2. CASE k # 0
      <4>1. k \in 1 .. n /\ k - 1 \in 0 .. n
        BY <1>1, <3>2
      <4> QED
        BY <1>3, <2>3, <3>2, <4>1
    <3> QED
      BY <3>1, <3>2
  <2>5. f = [k \in 0 .. n |-> f[k]]
    BY <2>3
  <2>6. IsAfter(f)
    BY <2>4, <2>5 DEF IsAfter
  <2> QED
    BY <2>6
<1>6. IsAfter(after)
  <2> HIDE DEF IsAfter
  <2> QED
    BY <1>4, <1>5
<1>7. after[0] = ctx /\ \A k \in 1 .. n : after[k] = NormalizeScalar(uses[k], after[k - 1]).ctx
  <2> HIDE DEF n
  <2>1. ASSUME NEW k \in 1 .. n PROVE k \in 0 .. n /\ k # 0
    BY <1>1
  <2>2. 0 \in 0 .. n
    BY <1>1
  <2> QED
    BY <1>6, <2>1, <2>2
<1>8. \A k \in 0 .. n : after[k] \in Contexts
  <2> DEFINE T == {k \in 0 .. n : after[k] \in Contexts}
  <2>1. 0 \in T
    BY <1>1, <1>7
  <2>2. ASSUME NEW k \in 1 .. n, k - 1 \in T PROVE k \in T
    BY <1>2, <1>7, <2>2
  <2> HIDE DEF n
  <2>3. \A k \in 0 .. n : k \in T
    <3> HIDE DEF T
    <3> QED
      BY <1>1, <2>1, <2>2, UpTo
  <2> QED
    BY <2>3
<1>9. after \in [0 .. n -> Contexts]
  BY <1>6, <1>8
<1>10. \A k \in 1 .. n : after[k - 1] \in Contexts
  <2> SUFFICES ASSUME NEW k \in 1 .. n PROVE after[k - 1] \in Contexts
    OBVIOUS
  <2>1. k - 1 \in 0 .. n
    BY <1>1
  <2> QED
    BY <1>8, <2>1
<1> QED
  BY <1>1, <1>7, <1>9, <1>10 DEF ScalarPasses, after

\* normalize_scalar over a list: every token stands for its value.
LEMMA ScalarsNamed ==
    ASSUME NEW uses \in Seq(AllUses), NEW c \in Contexts,
           NEW out, NEW d, out = NormalizeScalars(uses, c).out, d = NormalizeScalars(uses, c).ctx
    PROVE  /\ d \in Contexts /\ Grows(c, d)
           /\ out = [k \in 1 .. Len(uses) |-> out[k]]
           /\ \A k \in 1 .. Len(uses) : Names(out[k], uses[k], d)
<1> DEFINE after == ScalarContexts(uses, c)
           n == Len(uses)
<1>1. /\ after \in [0 .. n -> Contexts] /\ after[0] = c /\ n \in Nat
      /\ \A k \in 1 .. n : /\ after[k] = NormalizeScalar(uses[k], after[k - 1]).ctx
                           /\ uses[k] \in AllUses /\ after[k - 1] \in Contexts
  BY ScalarContextsAre DEF ScalarPasses
<1>2. /\ out = [k \in 1 .. n |-> NormalizeScalar(uses[k], after[k - 1]).out]
      /\ d = after[n]
  BY DEF NormalizeScalars
<1> HIDE DEF after
<1>3. \A k \in 1 .. n : /\ Grows(after[k - 1], after[k]) /\ after[k] \in Contexts
                        /\ Names(out[k], uses[k], after[k])
  BY <1>1, <1>2, ScalarNamed
<1> HIDE DEF n
<1>4. \A k \in 0 .. n : Grows(after[k], after[n])
  BY <1>1, <1>3, GrowsAlongPass
<1>5. \A k \in 1 .. n : Names(out[k], uses[k], d)
  <2> SUFFICES ASSUME NEW k \in 1 .. n PROVE Names(out[k], uses[k], d)
    OBVIOUS
  <2>1. k \in 0 .. n /\ n \in 0 .. n
    BY <1>1
  <2> QED
    BY <1>1, <1>2, <1>3, <1>4, <2>1, NamesGrow
<1>6. d \in Contexts /\ Grows(c, d)
  <2>1. n \in 0 .. n /\ 0 \in 0 .. n
    BY <1>1
  <2> QED
    BY <1>1, <1>2, <1>4, <2>1
<1>7. out = [k \in 1 .. n |-> out[k]]
  BY <1>2
<1> QED
  BY <1>5, <1>6, <1>7 DEF n

-----------------------------------------------------------------------------
\* The uses of an event and of an output.
LEMMA ArgUsesType ==
    ASSUME NEW e \in RawEvent
    PROVE  ArgUses(e) \in Seq(AllUses) /\ Len(ArgUses(e)) = Len(e.args)
<1> DEFINE s == ArgUses(e)
           n == Len(e.args)
<1>1. e.args \in Seq(Int)
  BY DEF RawEvent
<1>2. n \in Nat /\ DOMAIN e.args = 1 .. n /\ \A k \in 1 .. n : e.args[k] \in Int
  BY <1>1
<1>3. s = [k \in 1 .. n |-> Use(ArgKind(e.syscall_name, k - 1, e.args[k]), e.args[k])]
  BY <1>2 DEF ArgUses
<1>4. ASSUME NEW k \in 1 .. n PROVE s[k] \in AllUses
  <2>1. ArgKind(e.syscall_name, k - 1, e.args[k]) \in Numbered \cup {"plain"}
    BY DEF ArgKind, Plain, Numbered
  <2>2. Use(ArgKind(e.syscall_name, k - 1, e.args[k]), e.args[k]) \in AllUses
    BY <1>2, <2>1 DEF Use, AllUses
  <2> QED
    BY <1>3, <2>2
<1> HIDE DEF s, n
<1>5. s \in [1 .. n -> AllUses]
  BY <1>3, <1>4
<1>6. s \in Seq(AllUses) /\ Len(s) = n
  BY <1>2, <1>5
<1> QED
  BY <1>6 DEF s, n

\* The result of an event.
LEMMA ReturnUseType ==
    ASSUME NEW e \in RawEvent
    PROVE  ReturnUse(e) \in AllUses
<1>1. e.return_value \in Int
  BY DEF RawEvent
<1>2. ReturnKind(e.syscall_name, e.return_value) \in Numbered \cup {"plain"}
  BY DEF ReturnKind, Plain, Numbered
<1> QED
  BY <1>1, <1>2 DEF ReturnUse, Use, AllUses

\* The descriptors in an output.
LEMMA FdUsesType ==
    ASSUME NEW o \in RawOutput
    PROVE  FdUses(o) \in Seq(AllUses) /\ Len(FdUses(o)) = Len(o.fds)
<1> DEFINE s == FdUses(o)
           n == Len(o.fds)
<1>1. o.fds \in Seq(Int)
  BY DEF RawOutput
<1>2. n \in Nat /\ DOMAIN o.fds = 1 .. n /\ \A k \in 1 .. n : o.fds[k] \in Int
  BY <1>1
<1>3. s = [k \in 1 .. n |-> Use("fd", o.fds[k])]
  BY <1>2 DEF FdUses
<1>4. \A k \in 1 .. n : Use("fd", o.fds[k]) \in AllUses
  BY <1>2 DEF Use, AllUses, Numbered
<1> HIDE DEF s, n
<1>5. s \in [1 .. n -> AllUses]
  BY <1>3, <1>4
<1>6. s \in Seq(AllUses) /\ Len(s) = n
  BY <1>2, <1>5
<1> QED
  BY <1>6 DEF s, n

-----------------------------------------------------------------------------
\* What normalize_outputs makes of an output: all its tokens stand for the descriptors.
OutputNamed(p, o, ctx) ==
    /\ p = [label |-> o.label, preview |-> Preview(o), digest |-> o.digest, fds |-> p.fds]
    /\ p.fds = [k \in 1 .. Len(o.fds) |-> p.fds[k]]
    /\ \A k \in 1 .. Len(o.fds) : Names(p.fds[k], FdUses(o)[k], ctx)

\* The tokens of an output keep their meaning as the context grows.
LEMMA OutputNamedGrow ==
    ASSUME NEW o \in RawOutput, NEW p, NEW c \in Contexts, NEW d \in Contexts,
           Grows(c, d), OutputNamed(p, o, c)
    PROVE  OutputNamed(p, o, d)
<1>1. \A k \in 1 .. Len(o.fds) : FdUses(o)[k] \in AllUses
  BY FdUsesType
<1>2. \A k \in 1 .. Len(o.fds) : Names(p.fds[k], FdUses(o)[k], c)
  BY DEF OutputNamed
<1>3. \A k \in 1 .. Len(o.fds) : Names(p.fds[k], FdUses(o)[k], d)
  BY <1>1, <1>2, NamesGrow
<1> QED
  BY <1>3 DEF OutputNamed

\* normalize_outputs, for one output.
LEMMA OutputIsNamed ==
    ASSUME NEW o \in RawOutput, NEW c \in Contexts,
           NEW p, NEW d, p = NormalizeOutput(o, c).out, d = NormalizeOutput(o, c).ctx
    PROVE  d \in Contexts /\ Grows(c, d) /\ OutputNamed(p, o, d)
<1> DEFINE r == NormalizeScalars(FdUses(o), c)
           fds == r.out
<1>1. p = [o EXCEPT !.preview = Preview(o), !.fds = fds] /\ d = r.ctx
  BY DEF NormalizeOutput
<1>2. /\ d \in Contexts /\ Grows(c, d)
      /\ fds = [k \in 1 .. Len(FdUses(o)) |-> fds[k]]
      /\ \A k \in 1 .. Len(FdUses(o)) : Names(fds[k], FdUses(o)[k], d)
  BY <1>1, FdUsesType, ScalarsNamed
<1> HIDE DEF fds
<1>3. p = [label |-> o.label, preview |-> Preview(o), digest |-> o.digest, fds |-> fds]
  BY <1>1 DEF RawOutput
<1>4. p.fds = fds
  BY <1>3
<1>5. OutputNamed(p, o, d)
  BY <1>2, <1>3, <1>4, FdUsesType DEF OutputNamed
<1> QED
  BY <1>2, <1>5

\* The contexts along a list of outputs.
OutputPasses(after, outputs, ctx) ==
    /\ after \in [0 .. Len(outputs) -> Contexts] /\ after[0] = ctx
    /\ \A k \in 1 .. Len(outputs) :
          /\ after[k] = NormalizeOutput(outputs[k], after[k - 1]).ctx
          /\ outputs[k] \in RawOutput /\ after[k - 1] \in Contexts

\* Every context is the one left by the output before.
LEMMA OutputContextsAre ==
    ASSUME NEW outputs \in Seq(RawOutput), NEW ctx \in Contexts
    PROVE  OutputPasses(OutputContexts(outputs, ctx), outputs, ctx)
<1> DEFINE after == OutputContexts(outputs, ctx)
           n == Len(outputs)
           IsAfter(f) == f = [k \in 0 .. n |->
                               IF k = 0 THEN ctx ELSE NormalizeOutput(outputs[k], f[k - 1]).ctx]
           step == [x \in (1 .. n) \X Contexts |-> NormalizeOutput(outputs[x[1]], x[2]).ctx]
<1>1. n \in Nat /\ \A k \in 1 .. n : outputs[k] \in RawOutput
  OBVIOUS
<1>2. \A k \in 1 .. n, c \in Contexts : NormalizeOutput(outputs[k], c).ctx \in Contexts
  BY <1>1, OutputIsNamed
<1>3. /\ step \in [(1 .. n) \X Contexts -> Contexts]
      /\ \A k \in 1 .. n, c \in Contexts : step[<<k, c>>] = NormalizeOutput(outputs[k], c).ctx
  BY <1>2
<1>4. after = CHOOSE f : IsAfter(f)
  BY DEF OutputContexts
<1> HIDE DEF after
<1>5. \E f : IsAfter(f)
  <2>1. Steps(n, Contexts, ctx, step)
    BY <1>1, <1>3 DEF Steps
  <2> HIDE DEF step, n, IsAfter
  <2>2. PICK f : IsPass(f, n, Contexts, ctx, step)
    BY <2>1, PassExists
  <2>3. /\ f \in [0 .. n -> Contexts]
        /\ f[0] = ctx /\ \A k \in 1 .. n : f[k] = step[<<k, f[k - 1]>>]
    BY <2>2 DEF IsPass
  <2>4. ASSUME NEW k \in 0 .. n
        PROVE  f[k] = IF k = 0 THEN ctx ELSE NormalizeOutput(outputs[k], f[k - 1]).ctx
    <3>1. CASE k = 0
      BY <2>3, <3>1
    <3>2. CASE k # 0
      <4>1. k \in 1 .. n /\ k - 1 \in 0 .. n
        BY <1>1, <3>2
      <4> QED
        BY <1>3, <2>3, <3>2, <4>1
    <3> QED
      BY <3>1, <3>2
  <2>5. f = [k \in 0 .. n |-> f[k]]
    BY <2>3
  <2>6. IsAfter(f)
    BY <2>4, <2>5 DEF IsAfter
  <2> QED
    BY <2>6
<1>6. IsAfter(after)
  <2> HIDE DEF IsAfter
  <2> QED
    BY <1>4, <1>5
<1>7. after[0] = ctx /\ \A k \in 1 .. n : after[k] = NormalizeOutput(outputs[k], after[k - 1]).ctx
  <2> HIDE DEF n
  <2>1. ASSUME NEW k \in 1 .. n PROVE k \in 0 .. n /\ k # 0
    BY <1>1
  <2>2. 0 \in 0 .. n
    BY <1>1
  <2> QED
    BY <1>6, <2>1, <2>2
<1>8. \A k \in 0 .. n : after[k] \in Contexts
  <2> DEFINE T == {k \in 0 .. n : after[k] \in Contexts}
  <2>1. 0 \in T
    BY <1>1, <1>7
  <2>2. ASSUME NEW k \in 1 .. n, k - 1 \in T PROVE k \in T
    BY <1>2, <1>7, <2>2
  <2> HIDE DEF n
  <2>3. \A k \in 0 .. n : k \in T
    <3> HIDE DEF T
    <3> QED
      BY <1>1, <2>1, <2>2, UpTo
  <2> QED
    BY <2>3
<1>9. after \in [0 .. n -> Contexts]
  BY <1>6, <1>8
<1>10. \A k \in 1 .. n : after[k - 1] \in Contexts
  <2> SUFFICES ASSUME NEW k \in 1 .. n PROVE after[k - 1] \in Contexts
    OBVIOUS
  <2>1. k - 1 \in 0 .. n
    BY <1>1
  <2> QED
    BY <1>8, <2>1
<1> QED
  BY <1>1, <1>7, <1>9, <1>10 DEF OutputPasses, after

\* normalize_outputs: every token stands for its value.
LEMMA OutputsAreNamed ==
    ASSUME NEW outputs \in Seq(RawOutput), NEW c \in Contexts,
           NEW out, NEW d,
           out = NormalizeOutputs(outputs, c).out, d = NormalizeOutputs(outputs, c).ctx
    PROVE  /\ d \in Contexts /\ Grows(c, d)
           /\ out = [k \in 1 .. Len(outputs) |-> out[k]]
           /\ \A k \in 1 .. Len(outputs) : OutputNamed(out[k], outputs[k], d)
<1> DEFINE after == OutputContexts(outputs, c)
           n == Len(outputs)
<1>1. /\ after \in [0 .. n -> Contexts] /\ after[0] = c /\ n \in Nat
      /\ \A k \in 1 .. n : /\ after[k] = NormalizeOutput(outputs[k], after[k - 1]).ctx
                           /\ outputs[k] \in RawOutput /\ after[k - 1] \in Contexts
  BY OutputContextsAre DEF OutputPasses
<1>2. /\ out = [k \in 1 .. n |-> NormalizeOutput(outputs[k], after[k - 1]).out]
      /\ d = after[n]
  BY DEF NormalizeOutputs
<1> HIDE DEF after
<1>3. \A k \in 1 .. n : /\ Grows(after[k - 1], after[k]) /\ after[k] \in Contexts
                        /\ OutputNamed(out[k], outputs[k], after[k])
  BY <1>1, <1>2, OutputIsNamed
<1> HIDE DEF n
<1>4. \A k \in 0 .. n : Grows(after[k], after[n])
  BY <1>1, <1>3, GrowsAlongPass
<1>5. \A k \in 1 .. n : OutputNamed(out[k], outputs[k], d)
  <2> SUFFICES ASSUME NEW k \in 1 .. n PROVE OutputNamed(out[k], outputs[k], d)
    OBVIOUS
  <2>1. k \in 0 .. n /\ n \in 0 .. n
    BY <1>1
  <2> QED
    BY <1>1, <1>2, <1>3, <1>4, <2>1, OutputNamedGrow
<1>6. d \in Contexts /\ Grows(c, d)
  <2>1. n \in 0 .. n /\ 0 \in 0 .. n
    BY <1>1
  <2> QED
    BY <1>1, <1>2, <1>4, <2>1
<1>7. out = [k \in 1 .. n |-> out[k]]
  BY <1>2
<1> QED
  BY <1>5, <1>6, <1>7 DEF n

-----------------------------------------------------------------------------
\* What normalize_event makes of an event: all its tokens stand for the values.
EventNamed(f, e, ctx) ==
    /\ f = [syscall_name |-> e.syscall_name, args |-> f.args, return_value |-> f.return_value,
            errno |-> e.errno, outputs |-> f.outputs]
    /\ f.args = [k \in 1 .. Len(e.args) |-> f.args[k]]
    /\ \A k \in 1 .. Len(e.args) : Names(f.args[k], ArgUses(e)[k], ctx)
    /\ Names(f.return_value, ReturnUse(e), ctx)
    /\ f.outputs = [n \in 1 .. Len(e.outputs) |-> f.outputs[n]]
    /\ \A n \in 1 .. Len(e.outputs) : OutputNamed(f.outputs[n], e.outputs[n], ctx)

\* An event's outputs.
LEMMA OutputsType ==
    ASSUME NEW e \in RawEvent
    PROVE  e.outputs \in Seq(RawOutput) /\ \A n \in 1 .. Len(e.outputs) : e.outputs[n] \in RawOutput
  BY DEF RawEvent

\* The tokens of an event keep their meaning as the context grows.
LEMMA EventNamedGrow ==
    ASSUME NEW e \in RawEvent, NEW f, NEW c \in Contexts, NEW d \in Contexts,
           Grows(c, d), EventNamed(f, e, c)
    PROVE  EventNamed(f, e, d)
<1>1. \A k \in 1 .. Len(e.args) : Names(f.args[k], ArgUses(e)[k], d)
  <2>1. \A k \in 1 .. Len(e.args) : ArgUses(e)[k] \in AllUses
    BY ArgUsesType
  <2>2. \A k \in 1 .. Len(e.args) : Names(f.args[k], ArgUses(e)[k], c)
    BY DEF EventNamed
  <2> QED
    BY <2>1, <2>2, NamesGrow
<1>2. Names(f.return_value, ReturnUse(e), d)
  <2>1. Names(f.return_value, ReturnUse(e), c)
    BY DEF EventNamed
  <2> QED
    BY <2>1, ReturnUseType, NamesGrow
<1>3. \A n \in 1 .. Len(e.outputs) : OutputNamed(f.outputs[n], e.outputs[n], d)
  <2>1. \A n \in 1 .. Len(e.outputs) : OutputNamed(f.outputs[n], e.outputs[n], c)
    BY DEF EventNamed
  <2> QED
    BY <2>1, OutputsType, OutputNamedGrow
<1> QED
  BY <1>1, <1>2, <1>3 DEF EventNamed

\* normalize_event: arguments, result and outputs, in this order.
LEMMA EventIsNamed ==
    ASSUME NEW e \in RawEvent, NEW c \in Contexts,
           NEW f, NEW d, f = NormalizeEvent(e, c).out, d = NormalizeEvent(e, c).ctx
    PROVE  d \in Contexts /\ Grows(c, d) /\ EventNamed(f, e, d)
<1> DEFINE args == NormalizeScalars(ArgUses(e), c)
           return == NormalizeScalar(ReturnUse(e), args.ctx)
           outputs == NormalizeOutputs(e.outputs, return.ctx)
           c1 == args.ctx
           c2 == return.ctx
           a == args.out
           r == return.out
           o == outputs.out
<1>1. f = [e EXCEPT !.args = a, !.return_value = r, !.outputs = o] /\ d = outputs.ctx
  BY DEF NormalizeEvent, Carried
<1>2. /\ c1 \in Contexts /\ Grows(c, c1)
      /\ a = [k \in 1 .. Len(ArgUses(e)) |-> a[k]]
      /\ \A k \in 1 .. Len(ArgUses(e)) : Names(a[k], ArgUses(e)[k], c1)
  BY ArgUsesType, ScalarsNamed
<1>3. c2 \in Contexts /\ Grows(c1, c2) /\ Names(r, ReturnUse(e), c2)
  <2> HIDE DEF args
  <2> QED
    BY <1>2, ReturnUseType, ScalarNamed
<1>4. /\ d \in Contexts /\ Grows(c2, d)
      /\ o = [n \in 1 .. Len(e.outputs) |-> o[n]]
      /\ \A n \in 1 .. Len(e.outputs) : OutputNamed(o[n], e.outputs[n], d)
  <2> HIDE DEF return
  <2> QED
    BY <1>1, <1>3, OutputsType, OutputsAreNamed
<1> HIDE DEF c1, c2, a, r, o
<1>5. f = [syscall_name |-> e.syscall_name, args |-> a, return_value |-> r,
           errno |-> e.errno, outputs |-> o]
  BY <1>1 DEF RawEvent
<1>6. f.args = a /\ f.return_value = r /\ f.outputs = o
  BY <1>5
<1>7. Grows(c1, d) /\ Grows(c, d)
  BY <1>2, <1>3, <1>4, GrowsTransitive
<1>8. \A k \in 1 .. Len(e.args) : Names(a[k], ArgUses(e)[k], d)
  <2>1. \A k \in 1 .. Len(e.args) : ArgUses(e)[k] \in AllUses
    BY ArgUsesType
  <2> QED
    BY <1>2, <1>4, <1>7, <2>1, ArgUsesType, NamesGrow
<1>9. Names(r, ReturnUse(e), d)
  BY <1>3, <1>4, ReturnUseType, NamesGrow
<1>10. a = [k \in 1 .. Len(e.args) |-> a[k]]
  BY <1>2, ArgUsesType
<1>11. EventNamed(f, e, d)
  BY <1>4, <1>5, <1>6, <1>8, <1>9, <1>10 DEF EventNamed
<1> QED
  BY <1>4, <1>7, <1>11

\* The contexts along the events of a trace.
EventPasses(after, events) ==
    /\ after \in [0 .. Len(events) -> Contexts] /\ after[0] = NewContext
    /\ \A k \in 1 .. Len(events) :
          /\ after[k] = NormalizeEvent(events[k], after[k - 1]).ctx
          /\ events[k] \in RawEvent /\ after[k - 1] \in Contexts

\* Every context is the one left by the event before, and the first is new.
LEMMA EventContextsAre ==
    ASSUME NEW events \in Seq(RawEvent)
    PROVE  EventPasses(EventContexts(events), events)
<1> DEFINE after == EventContexts(events)
           ctx == NewContext
           n == Len(events)
           IsAfter(f) == f = [k \in 0 .. n |->
                               IF k = 0 THEN ctx ELSE NormalizeEvent(events[k], f[k - 1]).ctx]
           step == [x \in (1 .. n) \X Contexts |-> NormalizeEvent(events[x[1]], x[2]).ctx]
<1>0. ctx \in Contexts
  BY NewContextType
<1>1. n \in Nat /\ \A k \in 1 .. n : events[k] \in RawEvent
  OBVIOUS
<1>2. \A k \in 1 .. n, c \in Contexts : NormalizeEvent(events[k], c).ctx \in Contexts
  BY <1>1, EventIsNamed
<1>3. /\ step \in [(1 .. n) \X Contexts -> Contexts]
      /\ \A k \in 1 .. n, c \in Contexts : step[<<k, c>>] = NormalizeEvent(events[k], c).ctx
  BY <1>2
<1>4. after = CHOOSE f : IsAfter(f)
  BY DEF EventContexts
<1> HIDE DEF after
<1>5. \E f : IsAfter(f)
  <2>1. Steps(n, Contexts, ctx, step)
    BY <1>0, <1>1, <1>3 DEF Steps
  <2> HIDE DEF step, n, ctx, IsAfter
  <2>2. PICK f : IsPass(f, n, Contexts, ctx, step)
    BY <2>1, PassExists
  <2>3. /\ f \in [0 .. n -> Contexts]
        /\ f[0] = ctx /\ \A k \in 1 .. n : f[k] = step[<<k, f[k - 1]>>]
    BY <2>2 DEF IsPass
  <2>4. ASSUME NEW k \in 0 .. n
        PROVE  f[k] = IF k = 0 THEN ctx ELSE NormalizeEvent(events[k], f[k - 1]).ctx
    <3>1. CASE k = 0
      BY <2>3, <3>1
    <3>2. CASE k # 0
      <4>1. k \in 1 .. n /\ k - 1 \in 0 .. n
        BY <1>1, <3>2
      <4> QED
        BY <1>3, <2>3, <3>2, <4>1
    <3> QED
      BY <3>1, <3>2
  <2>5. f = [k \in 0 .. n |-> f[k]]
    BY <2>3
  <2>6. IsAfter(f)
    BY <2>4, <2>5 DEF IsAfter
  <2> QED
    BY <2>6
<1>6. IsAfter(after)
  <2> HIDE DEF IsAfter
  <2> QED
    BY <1>4, <1>5
<1>7. after[0] = ctx /\ \A k \in 1 .. n : after[k] = NormalizeEvent(events[k], after[k - 1]).ctx
  <2> HIDE DEF n
  <2>1. ASSUME NEW k \in 1 .. n PROVE k \in 0 .. n /\ k # 0
    BY <1>1
  <2>2. 0 \in 0 .. n
    BY <1>1
  <2> QED
    BY <1>6, <2>1, <2>2
<1>8. \A k \in 0 .. n : after[k] \in Contexts
  <2> DEFINE T == {k \in 0 .. n : after[k] \in Contexts}
  <2>1. 0 \in T
    BY <1>0, <1>1, <1>7
  <2>2. ASSUME NEW k \in 1 .. n, k - 1 \in T PROVE k \in T
    BY <1>2, <1>7, <2>2
  <2> HIDE DEF n
  <2>3. \A k \in 0 .. n : k \in T
    <3> HIDE DEF T
    <3> QED
      BY <1>1, <2>1, <2>2, UpTo
  <2> QED
    BY <2>3
<1>9. after \in [0 .. n -> Contexts]
  BY <1>6, <1>8
<1>10. \A k \in 1 .. n : after[k - 1] \in Contexts
  <2> SUFFICES ASSUME NEW k \in 1 .. n PROVE after[k - 1] \in Contexts
    OBVIOUS
  <2>1. k - 1 \in 0 .. n
    BY <1>1
  <2> QED
    BY <1>8, <2>1
<1> QED
  BY <1>1, <1>7, <1>9, <1>10 DEF EventPasses, after

\* A canonical trace: all its tokens stand for the values, in one and the same context.
TraceNamed(t, raw) ==
    /\ t.final_state = raw.final_state /\ t.process_exit = raw.process_exit
    /\ Len(t.events) = Len(raw.events)
    /\ \E d \in Contexts : \A k \in 1 .. Len(raw.events) : EventNamed(t.events[k], raw.events[k], d)

\* canonicalize gives one: the context at the end knows all the values.
LEMMA TraceIsNamed ==
    ASSUME NEW raw \in RawTrace
    PROVE  TraceNamed(Canonicalize(raw), raw)
<1> DEFINE events == raw.events
           after == EventContexts(events)
           n == Len(events)
           t == Canonicalize(raw)
           out == [k \in 1 .. n |-> NormalizeEvent(events[k], after[k - 1]).out]
<1>0. events \in Seq(RawEvent)
  BY DEF RawTrace
<1>1. /\ after \in [0 .. n -> Contexts] /\ n \in Nat
      /\ \A k \in 1 .. n : /\ after[k] = NormalizeEvent(events[k], after[k - 1]).ctx
                           /\ events[k] \in RawEvent /\ after[k - 1] \in Contexts
  <2> HIDE DEF events
  <2> QED
    BY <1>0, EventContextsAre DEF EventPasses
<1>2. t = [raw EXCEPT !.events = out]
  BY DEF Canonicalize
<1>3. /\ t.final_state = raw.final_state /\ t.process_exit = raw.process_exit
      /\ t.events = out
  <2> HIDE DEF out, t
  <2> QED
    BY <1>2 DEF RawTrace
<1> HIDE DEF after
<1>4. Len(t.events) = n
  <2> HIDE DEF t
  <2> QED
    BY <1>1, <1>3
<1>5. \A k \in 1 .. n : /\ Grows(after[k - 1], after[k]) /\ after[k] \in Contexts
                        /\ EventNamed(out[k], events[k], after[k])
  BY <1>1, EventIsNamed
<1> HIDE DEF n, out
<1>6. \A k \in 0 .. n : Grows(after[k], after[n])
  BY <1>1, <1>5, GrowsAlongPass
<1>7. n \in 0 .. n /\ after[n] \in Contexts
  BY <1>1
<1>8. \A k \in 1 .. n : EventNamed(out[k], events[k], after[n])
  <2> SUFFICES ASSUME NEW k \in 1 .. n PROVE EventNamed(out[k], events[k], after[n])
    OBVIOUS
  <2>1. k \in 0 .. n
    BY <1>1
  <2> QED
    BY <1>1, <1>5, <1>6, <1>7, <2>1, EventNamedGrow
<1> QED
  BY <1>3, <1>4, <1>7, <1>8 DEF TraceNamed, n

-----------------------------------------------------------------------------
(* Equal tokens: the values differ by a renaming. *)

\* One token stands for both.
NamedPair(x, c, d) ==
    /\ x[1] \in AllUses /\ x[2] \in AllUses
    /\ \E token : Names(token, x[1], c) /\ Names(token, x[2], d)

\* What a token for two uses tells of them: their kinds agree, and the values that do not
\* keep their meaning stand at the same place.
LEMMA NamedPairPlace ==
    ASSUME NEW c, NEW d, NEW x, NamedPair(x, c, d)
    PROVE  /\ x[1].kind = x[2].kind
           /\ x[1].kind = "plain" => x[1].value = x[2].value
           /\ x[1].kind # "plain" =>
                 \E p \in (1 .. Len(c[x[1].kind])) \cap (1 .. Len(d[x[1].kind])) :
                    c[x[1].kind][p] = x[1].value /\ d[x[1].kind][p] = x[2].value
<1>1. PICK token : Names(token, x[1], c) /\ Names(token, x[2], d)
  BY DEF NamedPair
<1>2. token[1] = x[1].kind /\ token[1] = x[2].kind
  BY <1>1 DEF Names
<1>3. CASE x[1].kind = "plain"
  <2>1. token = <<"plain", x[1].value>> /\ token = <<"plain", x[2].value>>
    BY <1>1, <1>2, <1>3 DEF Names
  <2>2. token[2] = x[1].value /\ token[2] = x[2].value
    BY <2>1
  <2> QED
    BY <1>2, <1>3, <2>2
<1>4. CASE x[1].kind # "plain"
  <2> DEFINE kind == x[1].kind
  <2>1. x[2].kind = kind
    BY <1>2
  <2>2. PICK p \in 1 .. Len(c[kind]) : token = <<kind, p - 1>> /\ c[kind][p] = x[1].value
    BY <1>1, <1>4 DEF Names
  <2>3. PICK q \in 1 .. Len(d[kind]) : token = <<kind, q - 1>> /\ d[kind][q] = x[2].value
    <3>1. \E q \in 1 .. Len(d[x[2].kind]) :
             token = <<x[2].kind, q - 1>> /\ d[x[2].kind][q] = x[2].value
      BY <1>1, <1>4, <2>1 DEF Names
    <3> HIDE DEF kind
    <3> QED
      BY <2>1, <3>1
  <2>4. token[2] = p - 1 /\ token[2] = q - 1
    BY <2>2, <2>3
  <2>5. p = q
    BY <2>4
  <2> QED
    BY <1>2, <1>4, <2>2, <2>3, <2>5
<1> QED
  BY <1>3, <1>4

\* Two places in a context hold one value only if they are the same place.
LEMMA OnePlace ==
    ASSUME NEW c \in Contexts, NEW kind \in Numbered,
           NEW p \in 1 .. Len(c[kind]), NEW q \in 1 .. Len(c[kind])
    PROVE  c[kind][p] = c[kind][q] <=> p = q
  BY DEF Contexts, Distinct

\* Pairs of uses that have one token each are those of a one-to-one renaming.
LEMMA NamedPairsRenamed ==
    ASSUME NEW c \in Contexts, NEW d \in Contexts, NEW pairs,
           \A x \in pairs : NamedPair(x, c, d)
    PROVE  Renamed(pairs)
<1>1. ASSUME NEW x \in pairs, NEW y \in pairs, x[1].kind # "plain", y[1].kind = x[1].kind
      PROVE  y[1].value = x[1].value <=> y[2].value = x[2].value
  <2> DEFINE kind == x[1].kind
  <2>1. kind \in Numbered
    BY <1>1 DEF NamedPair, AllUses
  <2>2. PICK p \in (1 .. Len(c[kind])) \cap (1 .. Len(d[kind])) :
           c[kind][p] = x[1].value /\ d[kind][p] = x[2].value
    BY <1>1, NamedPairPlace
  <2>3. PICK q \in (1 .. Len(c[kind])) \cap (1 .. Len(d[kind])) :
           c[kind][q] = y[1].value /\ d[kind][q] = y[2].value
    <3>1. \E q \in (1 .. Len(c[y[1].kind])) \cap (1 .. Len(d[y[1].kind])) :
             c[y[1].kind][q] = y[1].value /\ d[y[1].kind][q] = y[2].value
      BY <1>1, NamedPairPlace
    <3>2. y[1].kind = kind
      BY <1>1
    <3> HIDE DEF kind
    <3> QED
      BY <3>1, <3>2
  <2> HIDE DEF kind
  <2>4. c[kind][q] = c[kind][p] <=> q = p
    BY <2>1, OnePlace
  <2>5. d[kind][q] = d[kind][p] <=> q = p
    BY <2>1, OnePlace
  <2> QED
    BY <2>2, <2>3, <2>4, <2>5
<1>2. ASSUME NEW x \in pairs
      PROVE  /\ x[1].kind = x[2].kind
             /\ x[1].kind = "plain" => x[1].value = x[2].value
  BY NamedPairPlace
<1> QED
  BY <1>1, <1>2 DEF Renamed

\* Lists with the same places are of one length.
LEMMA SameLength ==
    ASSUME NEW m \in Nat, NEW n \in Nat, 1 .. m = 1 .. n
    PROVE  m = n
<1>1. CASE m < n
  <2>1. n \in 1 .. n /\ n \notin 1 .. m
    BY <1>1
  <2> QED
    BY <2>1
<1>2. CASE n < m
  <2>1. m \in 1 .. m /\ m \notin 1 .. n
    BY <1>2
  <2> QED
    BY <2>1
<1> QED
  BY <1>1, <1>2

\* Two events and their canonical forms, each in a context of its side.
NamedEvents(p, q, e, f, c, d) ==
    /\ c \in Contexts /\ d \in Contexts /\ e \in RawEvent /\ f \in RawEvent
    /\ EventNamed(p, e, c) /\ EventNamed(q, f, d)

\* One token stands for the uses at the same place, and what is left alone agrees.
LEMMA EventsAgree ==
    ASSUME NEW p, NEW q, NEW e, NEW f, NEW c, NEW d,
           NamedEvents(p, q, e, f, c, d), SameBehaviour(p, q)
    PROVE  SameEventShape(e, f) /\ \A x \in EventPairs(e, f, FALSE) : NamedPair(x, c, d)
<1> c \in Contexts /\ d \in Contexts /\ e \in RawEvent /\ f \in RawEvent
  BY DEF NamedEvents
<1> EventNamed(p, e, c) /\ EventNamed(q, f, d)
  BY DEF NamedEvents
<1>0. /\ Len(e.args) \in Nat /\ Len(f.args) \in Nat
      /\ Len(e.outputs) \in Nat /\ Len(f.outputs) \in Nat
      /\ DOMAIN e.args = 1 .. Len(e.args) /\ DOMAIN e.outputs = 1 .. Len(e.outputs)
  BY DEF RawEvent
<1>1. /\ p.syscall_name = e.syscall_name /\ p.errno = e.errno
      /\ q.syscall_name = f.syscall_name /\ q.errno = f.errno
  BY DEF EventNamed
<1>2. e.syscall_name = f.syscall_name /\ (e.syscall_name \in NoiseSyscalls \/ e.errno = f.errno)
  BY <1>1 DEF SameBehaviour
<1>3. p.args = q.args /\ p.outputs = q.outputs
  BY DEF SameBehaviour
<1>4. Len(e.args) = Len(f.args)
  <2>1. DOMAIN p.args = 1 .. Len(e.args) /\ DOMAIN q.args = 1 .. Len(f.args)
    BY DEF EventNamed
  <2> QED
    BY <1>0, <1>3, <2>1, SameLength
<1>5. Len(e.outputs) = Len(f.outputs)
  <2>1. DOMAIN p.outputs = 1 .. Len(e.outputs) /\ DOMAIN q.outputs = 1 .. Len(f.outputs)
    BY DEF EventNamed
  <2> QED
    BY <1>0, <1>3, <2>1, SameLength
<1>6. ASSUME NEW n \in 1 .. Len(e.outputs)
      PROVE  /\ e.outputs[n].label = f.outputs[n].label
             /\ e.outputs[n].digest = f.outputs[n].digest
             /\ Preview(e.outputs[n]) = Preview(f.outputs[n])
             /\ Len(e.outputs[n].fds) = Len(f.outputs[n].fds)
             /\ DOMAIN e.outputs[n].fds = 1 .. Len(e.outputs[n].fds)
             /\ \A k \in 1 .. Len(e.outputs[n].fds) :
                   NamedPair(<<FdUses(e.outputs[n])[k], FdUses(f.outputs[n])[k]>>, c, d)
  <2> DEFINE o == e.outputs[n]
             g == f.outputs[n]
             t == p.outputs[n]
  <2>1. o \in RawOutput /\ g \in RawOutput
    BY <1>5, OutputsType
  <2>2. OutputNamed(t, o, c) /\ OutputNamed(t, g, d)
    BY <1>3, <1>5 DEF EventNamed
  <2> HIDE DEF o, g, t
  <2>3. /\ t.label = o.label /\ t.label = g.label
        /\ t.digest = o.digest /\ t.digest = g.digest
        /\ t.preview = Preview(o) /\ t.preview = Preview(g)
    BY <2>2 DEF OutputNamed
  <2>4. /\ Len(o.fds) \in Nat /\ Len(g.fds) \in Nat
        /\ DOMAIN o.fds = 1 .. Len(o.fds)
    BY <2>1 DEF RawOutput
  <2>5. DOMAIN t.fds = 1 .. Len(o.fds) /\ DOMAIN t.fds = 1 .. Len(g.fds)
    BY <2>2 DEF OutputNamed
  <2>6. Len(o.fds) = Len(g.fds)
    BY <2>4, <2>5, SameLength
  <2>7. ASSUME NEW k \in 1 .. Len(o.fds)
        PROVE  NamedPair(<<FdUses(o)[k], FdUses(g)[k]>>, c, d)
    <3>1. FdUses(o)[k] \in AllUses /\ FdUses(g)[k] \in AllUses
      BY <2>1, <2>6, FdUsesType
    <3>2. Names(t.fds[k], FdUses(o)[k], c) /\ Names(t.fds[k], FdUses(g)[k], d)
      BY <2>2, <2>6 DEF OutputNamed
    <3> QED
      BY <3>1, <3>2 DEF NamedPair
  <2>8. /\ o.label = g.label /\ o.digest = g.digest /\ Preview(o) = Preview(g)
        /\ Len(o.fds) = Len(g.fds) /\ DOMAIN o.fds = 1 .. Len(o.fds)
        /\ \A k \in 1 .. Len(o.fds) : NamedPair(<<FdUses(o)[k], FdUses(g)[k]>>, c, d)
    BY <2>3, <2>4, <2>6, <2>7
  <2> QED
    BY <2>8 DEF o, g
<1>7. ASSUME NEW k \in 1 .. Len(e.args)
      PROVE  NamedPair(<<ArgUses(e)[k], ArgUses(f)[k]>>, c, d)
  <2>1. ArgUses(e)[k] \in AllUses /\ ArgUses(f)[k] \in AllUses
    BY <1>4, ArgUsesType
  <2>2. Names(p.args[k], ArgUses(e)[k], c) /\ Names(p.args[k], ArgUses(f)[k], d)
    BY <1>3, <1>4 DEF EventNamed
  <2> QED
    BY <2>1, <2>2 DEF NamedPair
<1>8. ASSUME e.syscall_name \notin NoiseSyscalls
      PROVE  NamedPair(<<ReturnUse(e), ReturnUse(f)>>, c, d)
  <2>1. p.return_value = q.return_value
    BY <1>1, <1>8 DEF SameBehaviour
  <2>2. Names(p.return_value, ReturnUse(e), c) /\ Names(p.return_value, ReturnUse(f), d)
    BY <2>1 DEF EventNamed
  <2> QED
    BY <2>2, ReturnUseType DEF NamedPair
<1>9. ASSUME NEW x \in EventPairs(e, f, FALSE)
      PROVE  NamedPair(x, c, d)
  <2>1. \/ \E k \in 1 .. Len(e.args) : x = <<ArgUses(e)[k], ArgUses(f)[k]>>
        \/ e.syscall_name \notin NoiseSyscalls /\ x = <<ReturnUse(e), ReturnUse(f)>>
        \/ \E n \in 1 .. Len(e.outputs) : \E k \in DOMAIN e.outputs[n].fds :
              x = <<FdUses(e.outputs[n])[k], FdUses(f.outputs[n])[k]>>
    BY <1>0, <1>9 DEF EventPairs
  <2> QED
    BY <1>6, <1>7, <1>8, <2>1
<1>10. SameEventShape(e, f)
  BY <1>0, <1>2, <1>4, <1>5, <1>6 DEF SameEventShape
<1> QED
  BY <1>9, <1>10

\* Equivalent traces differ by a renaming, but for the results of noise calls.
LEMMA EquivalentIsRenamed ==
    ASSUME NEW left \in RawTrace, NEW right \in RawTrace,
           EquivalentTraces(Canonicalize(left), Canonicalize(right))
    PROVE  SameShape(left, right) /\ Renamed(UsePairs(left, right, FALSE))
<1> DEFINE s == Canonicalize(left)
           t == Canonicalize(right)
           n == Len(left.events)
<1>1. TraceNamed(s, left) /\ TraceNamed(t, right)
  BY TraceIsNamed
<1>2. EquivalentTraces(s, t)
  OBVIOUS
<1> HIDE DEF s, t
<1>3. /\ left.final_state = right.final_state /\ left.process_exit = right.process_exit
      /\ n = Len(right.events) /\ Len(s.events) = n
  BY <1>1, <1>2 DEF TraceNamed, EquivalentTraces, Count
<1>4. PICK c \in Contexts : \A k \in 1 .. n : EventNamed(s.events[k], left.events[k], c)
  BY <1>1 DEF TraceNamed
<1>5. PICK d \in Contexts : \A k \in 1 .. n : EventNamed(t.events[k], right.events[k], d)
  BY <1>1, <1>3 DEF TraceNamed
<1>6. /\ DOMAIN left.events = 1 .. n
      /\ \A k \in 1 .. n : left.events[k] \in RawEvent /\ right.events[k] \in RawEvent
  BY <1>3 DEF RawTrace
<1>7. \A k \in 1 .. n : SameBehaviour(s.events[k], t.events[k])
  BY <1>2, <1>3 DEF EquivalentTraces, Count
<1> HIDE DEF n
<1>8. ASSUME NEW k \in 1 .. n
      PROVE  /\ SameEventShape(left.events[k], right.events[k])
             /\ \A x \in EventPairs(left.events[k], right.events[k], FALSE) : NamedPair(x, c, d)
  <2>1. NamedEvents(s.events[k], t.events[k], left.events[k], right.events[k], c, d)
    BY <1>4, <1>5, <1>6 DEF NamedEvents
  <2> QED
    BY <1>7, <2>1, EventsAgree
<1>9. SameShape(left, right)
  BY <1>3, <1>6, <1>8 DEF SameShape, n
<1>10. \A x \in UsePairs(left, right, FALSE) : NamedPair(x, c, d)
  BY <1>6, <1>8 DEF UsePairs
<1> QED
  BY <1>9, <1>10, NamedPairsRenamed

-----------------------------------------------------------------------------
(* Values that differ by a renaming: equal tokens. *)

\* Two contexts that are equal up to the renaming.
Matched(pairs, c, d) ==
    /\ Renamed(pairs) /\ c \in Contexts /\ d \in Contexts
    /\ \A kind \in Numbered :
          /\ Len(c[kind]) = Len(d[kind])
          /\ \A p \in 1 .. Len(c[kind]) :
                <<Use(kind, c[kind][p]), Use(kind, d[kind][p])>> \in pairs

\* A pair of uses of the renaming.
UsePair(pairs, u, v) == u \in AllUses /\ v \in AllUses /\ <<u, v>> \in pairs

\* Both values were seen, at one place, or neither was.
LEMMA SeenTogether ==
    ASSUME NEW pairs, NEW c, NEW d, NEW u, NEW v,
           Matched(pairs, c, d), UsePair(pairs, u, v), u.kind # "plain"
    PROVE  /\ u.kind = v.kind /\ u.kind \in Numbered
           /\ Len(c[u.kind]) = Len(d[u.kind])
           /\ \A p \in 1 .. Len(c[u.kind]) : c[u.kind][p] = u.value <=> d[u.kind][p] = v.value
<1> DEFINE x == <<u, v>>
           kind == u.kind
<1>1. x \in pairs /\ Renamed(pairs) /\ u \in AllUses
  BY DEF UsePair, Matched
<1>2. x[1] = u /\ x[2] = v
  OBVIOUS
<1>3. kind \in Numbered
  BY <1>1 DEF AllUses
<1> HIDE DEF x, kind
<1>4. ASSUME NEW y \in pairs, y[1].kind = kind
      PROVE  y[1].value = u.value <=> y[2].value = v.value
  BY <1>1, <1>2, <1>4 DEF Renamed, kind
<1>5. Len(c[kind]) = Len(d[kind])
  BY <1>3 DEF Matched
<1>6. ASSUME NEW p \in 1 .. Len(c[kind])
      PROVE  c[kind][p] = u.value <=> d[kind][p] = v.value
  <2> DEFINE y == <<Use(kind, c[kind][p]), Use(kind, d[kind][p])>>
  <2>1. y \in pairs
    BY <1>3 DEF Matched
  <2>2. y[1].kind = kind /\ y[1].value = c[kind][p] /\ y[2].value = d[kind][p]
    BY DEF Use
  <2> HIDE DEF y
  <2>3. y[1].value = u.value <=> y[2].value = v.value
    BY <1>4, <2>1, <2>2
  <2> QED
    BY <2>2, <2>3
<1>7. u.kind = v.kind
  BY <1>1, <1>2 DEF Renamed
<1> QED
  BY <1>3, <1>5, <1>6, <1>7 DEF kind

\* They get the same token, and the contexts stay equal up to the renaming.
LEMMA ScalarMatched ==
    ASSUME NEW pairs, NEW c, NEW d, NEW u, NEW v,
           Matched(pairs, c, d), UsePair(pairs, u, v)
    PROVE  /\ NormalizeScalar(u, c).out = NormalizeScalar(v, d).out
           /\ Matched(pairs, NormalizeScalar(u, c).ctx, NormalizeScalar(v, d).ctx)
<1>0. u \in AllUses /\ v \in AllUses /\ <<u, v>> \in pairs /\ c \in Contexts /\ d \in Contexts
  BY DEF UsePair, Matched
<1>1. CASE u.kind = "plain"
  <2> DEFINE x == <<u, v>>
  <2>1. x \in pairs /\ Renamed(pairs) /\ x[1] = u /\ x[2] = v
    BY <1>0 DEF Matched
  <2> HIDE DEF x
  <2>2. v.kind = "plain" /\ u.value = v.value
    BY <1>1, <2>1 DEF Renamed
  <2>3. /\ NormalizeScalar(u, c) = [out |-> <<"plain", u.value>>, ctx |-> c]
        /\ NormalizeScalar(v, d) = [out |-> <<"plain", v.value>>, ctx |-> d]
    BY <1>1, <2>2 DEF NormalizeScalar
  <2> QED
    BY <2>2, <2>3
<1>2. CASE u.kind # "plain"
  <2> DEFINE kind == u.kind
             a == NormalizeScalar(u, c).ctx
             b == NormalizeScalar(v, d).ctx
             x == u.value
             y == v.value
  <2>1. /\ v.kind = kind /\ kind \in Numbered
        /\ Len(c[kind]) = Len(d[kind])
        /\ \A p \in 1 .. Len(c[kind]) : c[kind][p] = x <=> d[kind][p] = y
    BY <1>2, SeenTogether
  <2>2. /\ c[kind] \in Seq(Int) /\ Distinct(c[kind]) /\ Len(c[kind]) \in Nat
        /\ d[kind] \in Seq(Int) /\ Distinct(d[kind])
        /\ x \in Int /\ y \in Int
    BY <1>0, <2>1 DEF Contexts, AllUses
  <2>3. /\ NormalizeScalar(u, c).out = Token(u, c) /\ a = Seen(u, c)
        /\ NormalizeScalar(v, d).out = Token(v, d) /\ b = Seen(v, d)
    BY <1>2, <2>1 DEF NormalizeScalar
  <2>4. CASE \E p \in 1 .. Len(c[kind]) : c[kind][p] = x
    <3>1. PICK p \in 1 .. Len(c[kind]) : c[kind][p] = x
      BY <2>4
    <3>2. p \in 1 .. Len(d[kind]) /\ d[kind][p] = y
      BY <2>1, <3>1
    <3>3. Token(u, c) = <<kind, p - 1>> /\ Seen(u, c) = c
      BY <2>2, <3>1, TokenOfSeen
    <3>4. Token(v, d) = <<kind, p - 1>> /\ Seen(v, d) = d
      <4>1. /\ d[v.kind] \in Seq(Int) /\ Distinct(d[v.kind])
            /\ p \in 1 .. Len(d[v.kind]) /\ d[v.kind][p] = v.value
        BY <2>1, <2>2, <3>2
      <4>2. Token(v, d) = <<v.kind, p - 1>> /\ Seen(v, d) = d
        BY <4>1, TokenOfSeen
      <4> QED
        BY <2>1, <4>2
    <3> QED
      BY <2>3, <3>3, <3>4
  <2>5. CASE ~ \E p \in 1 .. Len(c[kind]) : c[kind][p] = x
    <3> HIDE DEF a, b, x, y, kind
    <3>1. ~ Contains(c[kind], x) /\ ~ Contains(d[kind], y)
      BY <2>1, <2>5 DEF Contains
    <3>2. /\ Token(u, c) = <<kind, Len(c[kind])>>
          /\ Seen(u, c) = [c EXCEPT ![kind] = Append(@, x)]
      BY <3>1, TokenOfNew DEF kind, x
    <3>3. /\ Token(v, d) = <<kind, Len(d[kind])>>
          /\ Seen(v, d) = [d EXCEPT ![kind] = Append(@, y)]
      <4>1. ~ Contains(d[v.kind], v.value)
        BY <2>1, <3>1 DEF y
      <4>2. /\ Token(v, d) = <<v.kind, Len(d[v.kind])>>
            /\ Seen(v, d) = [d EXCEPT ![v.kind] = Append(@, v.value)]
        BY <4>1, TokenOfNew
      <4> QED
        BY <2>1, <4>2 DEF y
    <3>4. SeenAlso(a, c, kind, x) /\ SeenAlso(b, d, kind, y)
      BY <1>0, <2>1, <2>2, <2>3, <3>1, <3>2, <3>3 DEF SeenAlso
    <3>5. /\ a \in Contexts /\ ExtendedBy(a[kind], c[kind], x)
          /\ \A other \in Numbered : other # kind => a[other] = c[other]
      BY <3>4, ContextAppend
    <3>6. /\ b \in Contexts /\ ExtendedBy(b[kind], d[kind], y)
          /\ \A other \in Numbered : other # kind => b[other] = d[other]
      BY <3>4, ContextAppend
    <3>7. ASSUME NEW other \in Numbered
          PROVE  /\ Len(a[other]) = Len(b[other])
                 /\ \A p \in 1 .. Len(a[other]) :
                       <<Use(other, a[other][p]), Use(other, b[other][p])>> \in pairs
      <4>1. CASE other # kind
        BY <3>5, <3>6, <4>1 DEF Matched
      <4>2. CASE other = kind
        <5> DEFINE n == Len(c[kind])
        <5>1. /\ Len(a[kind]) = n + 1 /\ Len(b[kind]) = n + 1 /\ n \in Nat
              /\ a[kind][n + 1] = x /\ b[kind][n + 1] = y
              /\ \A p \in 1 .. n : a[kind][p] = c[kind][p] /\ b[kind][p] = d[kind][p]
          BY <2>1, <3>5, <3>6 DEF ExtendedBy
        <5>2. \A p \in 1 .. n : <<Use(kind, c[kind][p]), Use(kind, d[kind][p])>> \in pairs
          BY <2>1 DEF Matched
        <5>3. <<Use(kind, x), Use(kind, y)>> \in pairs
          <6>1. u = Use(kind, x) /\ v = Use(kind, y)
            BY <1>0, <2>1 DEF AllUses, Use, kind, x, y
          <6> QED
            BY <1>0, <6>1
        <5> HIDE DEF n
        <5>4. ASSUME NEW p \in 1 .. Len(a[kind])
              PROVE  <<Use(kind, a[kind][p]), Use(kind, b[kind][p])>> \in pairs
          <6>1. CASE p \in 1 .. n
            BY <5>1, <5>2, <6>1
          <6>2. CASE p = n + 1
            BY <5>1, <5>3, <6>2
          <6> QED
            BY <5>1, <6>1, <6>2
        <5> QED
          BY <4>2, <5>1, <5>4
      <4> QED
        BY <4>1, <4>2
    <3>8. Matched(pairs, a, b)
      <4>1. Renamed(pairs)
        BY DEF Matched
      <4> QED
        BY <3>5, <3>6, <3>7, <4>1 DEF Matched
    <3> QED
      BY <2>1, <2>3, <3>2, <3>3, <3>8 DEF a, b
  <2> QED
    BY <2>4, <2>5
<1> QED
  BY <1>1, <1>2

\* Lists of pairs of the renaming.
UsePairsOf(pairs, u, v) ==
    /\ u \in Seq(AllUses) /\ v \in Seq(AllUses) /\ Len(u) = Len(v)
    /\ \A k \in 1 .. Len(u) : UsePair(pairs, u[k], v[k])

\* They get the same tokens.
LEMMA ScalarsMatched ==
    ASSUME NEW pairs, NEW c, NEW d, NEW u, NEW v,
           Matched(pairs, c, d), UsePairsOf(pairs, u, v)
    PROVE  /\ NormalizeScalars(u, c).out = NormalizeScalars(v, d).out
           /\ Matched(pairs, NormalizeScalars(u, c).ctx, NormalizeScalars(v, d).ctx)
<1> DEFINE n == Len(u)
           a == ScalarContexts(u, c)
           b == ScalarContexts(v, d)
           T == {k \in 0 .. n : Matched(pairs, a[k], b[k])}
<1>0. /\ u \in Seq(AllUses) /\ v \in Seq(AllUses) /\ Len(v) = n /\ n \in Nat
      /\ c \in Contexts /\ d \in Contexts
      /\ \A k \in 1 .. n : UsePair(pairs, u[k], v[k])
  BY DEF UsePairsOf, Matched
<1>1. ScalarPasses(a, u, c) /\ ScalarPasses(b, v, d)
  BY <1>0, ScalarContextsAre
<1>2. /\ a[0] = c /\ \A k \in 1 .. n : a[k] = NormalizeScalar(u[k], a[k - 1]).ctx
      /\ b[0] = d /\ \A k \in 1 .. n : b[k] = NormalizeScalar(v[k], b[k - 1]).ctx
  <2> HIDE DEF a, b, n
  <2> QED
    BY <1>0, <1>1 DEF ScalarPasses, n
<1>3. /\ NormalizeScalars(u, c).out = [k \in 1 .. n |-> NormalizeScalar(u[k], a[k - 1]).out]
      /\ NormalizeScalars(u, c).ctx = a[n]
      /\ NormalizeScalars(v, d).out = [k \in 1 .. n |-> NormalizeScalar(v[k], b[k - 1]).out]
      /\ NormalizeScalars(v, d).ctx = b[n]
  BY <1>0 DEF NormalizeScalars
<1> HIDE DEF n, a, b
<1>4. 0 \in T
  BY <1>0, <1>2
<1>5. ASSUME NEW k \in 1 .. n, k - 1 \in T
      PROVE  k \in T /\ NormalizeScalar(u[k], a[k - 1]).out = NormalizeScalar(v[k], b[k - 1]).out
  <2>1. Matched(pairs, a[k - 1], b[k - 1]) /\ UsePair(pairs, u[k], v[k])
    BY <1>0, <1>5
  <2> QED
    BY <1>0, <1>2, <2>1, ScalarMatched
<1>6. \A k \in 0 .. n : k \in T
  <2> HIDE DEF T
  <2> QED
    BY <1>0, <1>4, <1>5, UpTo
<1>7. \A k \in 1 .. n :
         NormalizeScalar(u[k], a[k - 1]).out = NormalizeScalar(v[k], b[k - 1]).out
  <2> SUFFICES ASSUME NEW k \in 1 .. n
               PROVE  NormalizeScalar(u[k], a[k - 1]).out = NormalizeScalar(v[k], b[k - 1]).out
    OBVIOUS
  <2>1. k - 1 \in T
    <3>1. k - 1 \in 0 .. n
      BY <1>0
    <3> HIDE DEF T
    <3> QED
      BY <1>6, <3>1
  <2> HIDE DEF T
  <2> QED
    BY <1>5, <2>1
<1>8. Matched(pairs, a[n], b[n])
  BY <1>0, <1>6
<1> QED
  BY <1>3, <1>7, <1>8

\* Outputs that differ by the renaming.
OutputPair(pairs, o, p) ==
    /\ o \in RawOutput /\ p \in RawOutput
    /\ o.label = p.label /\ o.digest = p.digest /\ Preview(o) = Preview(p)
    /\ UsePairsOf(pairs, FdUses(o), FdUses(p))

\* They become the same output.
LEMMA OutputMatched ==
    ASSUME NEW pairs, NEW c, NEW d, NEW o, NEW p,
           Matched(pairs, c, d), OutputPair(pairs, o, p)
    PROVE  /\ NormalizeOutput(o, c).out = NormalizeOutput(p, d).out
           /\ Matched(pairs, NormalizeOutput(o, c).ctx, NormalizeOutput(p, d).ctx)
<1> DEFINE s == NormalizeScalars(FdUses(o), c)
           t == NormalizeScalars(FdUses(p), d)
           g == s.out
           h == t.out
           x == NormalizeOutput(o, c).out
           y == NormalizeOutput(p, d).out
<1>1. g = h /\ Matched(pairs, s.ctx, t.ctx)
  BY ScalarsMatched DEF OutputPair
<1>2. /\ x = [o EXCEPT !.preview = Preview(o), !.fds = g]
      /\ y = [p EXCEPT !.preview = Preview(p), !.fds = h]
      /\ NormalizeOutput(o, c).ctx = s.ctx /\ NormalizeOutput(p, d).ctx = t.ctx
  BY DEF NormalizeOutput
<1> HIDE DEF g, h, x, y
<1>3. o \in RawOutput /\ p \in RawOutput
  BY DEF OutputPair
<1>4. x = [label |-> o.label, preview |-> Preview(o), digest |-> o.digest, fds |-> g]
  BY <1>2, <1>3 DEF RawOutput
<1>5. y = [label |-> p.label, preview |-> Preview(p), digest |-> p.digest, fds |-> h]
  BY <1>2, <1>3 DEF RawOutput
<1>6. o.label = p.label /\ o.digest = p.digest /\ Preview(o) = Preview(p)
  BY DEF OutputPair
<1>7. x = y
  BY <1>1, <1>4, <1>5, <1>6
<1> QED
  BY <1>1, <1>2, <1>7 DEF x, y

\* Lists of outputs that differ by it.
OutputPairsOf(pairs, u, v) ==
    /\ u \in Seq(RawOutput) /\ v \in Seq(RawOutput) /\ Len(u) = Len(v)
    /\ \A k \in 1 .. Len(u) : OutputPair(pairs, u[k], v[k])

\* They become the same outputs.
LEMMA OutputsMatched ==
    ASSUME NEW pairs, NEW c, NEW d, NEW u, NEW v,
           Matched(pairs, c, d), OutputPairsOf(pairs, u, v)
    PROVE  /\ NormalizeOutputs(u, c).out = NormalizeOutputs(v, d).out
           /\ Matched(pairs, NormalizeOutputs(u, c).ctx, NormalizeOutputs(v, d).ctx)
<1> DEFINE n == Len(u)
           a == OutputContexts(u, c)
           b == OutputContexts(v, d)
           T == {k \in 0 .. n : Matched(pairs, a[k], b[k])}
<1>0. /\ u \in Seq(RawOutput) /\ v \in Seq(RawOutput) /\ Len(v) = n /\ n \in Nat
      /\ c \in Contexts /\ d \in Contexts
      /\ \A k \in 1 .. n : OutputPair(pairs, u[k], v[k])
  BY DEF OutputPairsOf, Matched
<1>1. OutputPasses(a, u, c) /\ OutputPasses(b, v, d)
  BY <1>0, OutputContextsAre
<1>2. /\ a[0] = c /\ \A k \in 1 .. n : a[k] = NormalizeOutput(u[k], a[k - 1]).ctx
      /\ b[0] = d /\ \A k \in 1 .. n : b[k] = NormalizeOutput(v[k], b[k - 1]).ctx
  <2> HIDE DEF a, b, n
  <2> QED
    BY <1>0, <1>1 DEF OutputPasses, n
<1>3. /\ NormalizeOutputs(u, c).out = [k \in 1 .. n |-> NormalizeOutput(u[k], a[k - 1]).out]
      /\ NormalizeOutputs(u, c).ctx = a[n]
      /\ NormalizeOutputs(v, d).out = [k \in 1 .. n |-> NormalizeOutput(v[k], b[k - 1]).out]
      /\ NormalizeOutputs(v, d).ctx = b[n]
  BY <1>0 DEF NormalizeOutputs
<1> HIDE DEF n, a, b
<1>4. 0 \in T
  BY <1>0, <1>2
<1>5. ASSUME NEW k \in 1 .. n, k - 1 \in T
      PROVE  k \in T /\ NormalizeOutput(u[k], a[k - 1]).out = NormalizeOutput(v[k], b[k - 1]).out
  <2>1. Matched(pairs, a[k - 1], b[k - 1]) /\ OutputPair(pairs, u[k], v[k])
    BY <1>0, <1>5
  <2> QED
    BY <1>0, <1>2, <2>1, OutputMatched
<1>6. \A k \in 0 .. n : k \in T
  <2> HIDE DEF T
  <2> QED
    BY <1>0, <1>4, <1>5, UpTo
<1>7. \A k \in 1 .. n :
         NormalizeOutput(u[k], a[k - 1]).out = NormalizeOutput(v[k], b[k - 1]).out
  <2> SUFFICES ASSUME NEW k \in 1 .. n
               PROVE  NormalizeOutput(u[k], a[k - 1]).out = NormalizeOutput(v[k], b[k - 1]).out
    OBVIOUS
  <2>1. k - 1 \in T
    <3>1. k - 1 \in 0 .. n
      BY <1>0
    <3> HIDE DEF T
    <3> QED
      BY <1>6, <3>1
  <2> HIDE DEF T
  <2> QED
    BY <1>5, <2>1
<1>8. Matched(pairs, a[n], b[n])
  BY <1>0, <1>6
<1> QED
  BY <1>3, <1>7, <1>8

\* Events that differ by the renaming.
EventPair(pairs, e, f) ==
    /\ e \in RawEvent /\ f \in RawEvent
    /\ e.syscall_name = f.syscall_name
    /\ e.syscall_name \in NoiseSyscalls \/ e.errno = f.errno
    /\ UsePairsOf(pairs, ArgUses(e), ArgUses(f))
    /\ UsePair(pairs, ReturnUse(e), ReturnUse(f))
    /\ OutputPairsOf(pairs, e.outputs, f.outputs)

\* They become events of the same behaviour.
LEMMA EventMatched ==
    ASSUME NEW pairs, NEW c, NEW d, NEW e, NEW f,
           Matched(pairs, c, d), EventPair(pairs, e, f)
    PROVE  /\ SameBehaviour(NormalizeEvent(e, c).out, NormalizeEvent(f, d).out)
           /\ Matched(pairs, NormalizeEvent(e, c).ctx, NormalizeEvent(f, d).ctx)
<1> DEFINE s == NormalizeScalars(ArgUses(e), c)
           t == NormalizeScalars(ArgUses(f), d)
           r == NormalizeScalar(ReturnUse(e), s.ctx)
           q == NormalizeScalar(ReturnUse(f), t.ctx)
           o == NormalizeOutputs(e.outputs, r.ctx)
           p == NormalizeOutputs(f.outputs, q.ctx)
           a == NormalizeEvent(e, c)
           b == NormalizeEvent(f, d)
<1>1. s.out = t.out /\ Matched(pairs, s.ctx, t.ctx)
  BY ScalarsMatched DEF EventPair
<1>2. r.out = q.out /\ Matched(pairs, r.ctx, q.ctx)
  <2> HIDE DEF s, t
  <2> QED
    BY <1>1, ScalarMatched DEF EventPair
<1>3. o.out = p.out /\ Matched(pairs, o.ctx, p.ctx)
  <2> HIDE DEF r, q
  <2> QED
    BY <1>2, OutputsMatched DEF EventPair
<1>4. /\ a.out = [e EXCEPT !.args = s.out, !.return_value = r.out, !.outputs = o.out]
      /\ b.out = [f EXCEPT !.args = t.out, !.return_value = q.out, !.outputs = p.out]
      /\ a.ctx = o.ctx /\ b.ctx = p.ctx
  BY DEF NormalizeEvent, Carried
<1> HIDE DEF s, t, r, q, o, p, a, b
<1>5. /\ a.out.syscall_name = e.syscall_name /\ a.out.errno = e.errno
      /\ a.out.args = s.out /\ a.out.return_value = r.out /\ a.out.outputs = o.out
  BY <1>4 DEF EventPair, RawEvent
<1>6. /\ b.out.syscall_name = f.syscall_name /\ b.out.errno = f.errno
      /\ b.out.args = t.out /\ b.out.return_value = q.out /\ b.out.outputs = p.out
  BY <1>4 DEF EventPair, RawEvent
<1>7. /\ e.syscall_name = f.syscall_name
      /\ e.syscall_name \in NoiseSyscalls \/ e.errno = f.errno
  BY DEF EventPair
<1>8. SameBehaviour(a.out, b.out)
  BY <1>1, <1>2, <1>3, <1>5, <1>6, <1>7 DEF SameBehaviour
<1>9. Matched(pairs, a.ctx, b.ctx)
  BY <1>3, <1>4
<1> QED
  BY <1>8, <1>9 DEF a, b

\* Nothing seen is nothing to rename.
LEMMA NewContextsMatch ==
    ASSUME NEW pairs, Renamed(pairs)
    PROVE  Matched(pairs, NewContext, NewContext)
<1>1. \A kind \in Numbered : Len(NewContext[kind]) = 0
  BY DEF NewContext, Numbered
<1> QED
  BY <1>1, NewContextType DEF Matched

\* Traces that differ by a renaming are equivalent.
LEMMA TracesMatched ==
    ASSUME NEW pairs, Renamed(pairs), NEW left \in RawTrace, NEW right \in RawTrace,
           left.final_state = right.final_state, left.process_exit = right.process_exit,
           Len(left.events) = Len(right.events),
           \A k \in 1 .. Len(left.events) : EventPair(pairs, left.events[k], right.events[k])
    PROVE  EquivalentTraces(Canonicalize(left), Canonicalize(right))
<1> DEFINE u == left.events
           v == right.events
           n == Len(u)
           a == EventContexts(u)
           b == EventContexts(v)
           x == Canonicalize(left)
           y == Canonicalize(right)
           T == {k \in 0 .. n : Matched(pairs, a[k], b[k])}
<1>0. /\ u \in Seq(RawEvent) /\ v \in Seq(RawEvent) /\ Len(v) = n /\ n \in Nat
      /\ \A k \in 1 .. n : EventPair(pairs, u[k], v[k])
  BY DEF RawTrace
<1>1. EventPasses(a, u) /\ EventPasses(b, v)
  <2> HIDE DEF u, v
  <2> QED
    BY <1>0, EventContextsAre
<1>2. /\ a[0] = NewContext /\ \A k \in 1 .. n : a[k] = NormalizeEvent(u[k], a[k - 1]).ctx
      /\ b[0] = NewContext /\ \A k \in 1 .. n : b[k] = NormalizeEvent(v[k], b[k - 1]).ctx
  <2> HIDE DEF a, b, n, u, v
  <2> QED
    BY <1>0, <1>1 DEF EventPasses, n
<1>3. /\ x = [left EXCEPT !.events = [k \in 1 .. n |-> NormalizeEvent(u[k], a[k - 1]).out]]
      /\ y = [right EXCEPT !.events = [k \in 1 .. n |-> NormalizeEvent(v[k], b[k - 1]).out]]
  BY <1>0 DEF Canonicalize
<1> HIDE DEF a, b, x, y
<1>4. /\ x.final_state = left.final_state /\ x.process_exit = left.process_exit
      /\ x.events = [k \in 1 .. n |-> NormalizeEvent(u[k], a[k - 1]).out]
      /\ y.final_state = right.final_state /\ y.process_exit = right.process_exit
      /\ y.events = [k \in 1 .. n |-> NormalizeEvent(v[k], b[k - 1]).out]
  <2> HIDE DEF n, u, v
  <2> QED
    BY <1>3 DEF RawTrace
<1> HIDE DEF n, u, v
<1>5. 0 \in T
  BY <1>0, <1>2, NewContextsMatch
<1>6. ASSUME NEW k \in 1 .. n, k - 1 \in T
      PROVE  /\ k \in T
             /\ SameBehaviour(NormalizeEvent(u[k], a[k - 1]).out,
                              NormalizeEvent(v[k], b[k - 1]).out)
  <2>1. Matched(pairs, a[k - 1], b[k - 1]) /\ EventPair(pairs, u[k], v[k])
    BY <1>0, <1>6
  <2> QED
    BY <1>0, <1>2, <2>1, EventMatched
<1>7. \A k \in 0 .. n : k \in T
  <2> HIDE DEF T
  <2> QED
    BY <1>0, <1>5, <1>6, UpTo
<1>8. ASSUME NEW k \in 1 .. n
      PROVE  SameBehaviour(x.events[k], y.events[k])
  <2>1. k - 1 \in T
    <3>1. k - 1 \in 0 .. n
      BY <1>0
    <3> HIDE DEF T
    <3> QED
      BY <1>7, <3>1
  <2> HIDE DEF T
  <2>2. SameBehaviour(NormalizeEvent(u[k], a[k - 1]).out, NormalizeEvent(v[k], b[k - 1]).out)
    BY <1>6, <2>1
  <2>3. /\ x.events[k] = NormalizeEvent(u[k], a[k - 1]).out
        /\ y.events[k] = NormalizeEvent(v[k], b[k - 1]).out
    BY <1>4
  <2> QED
    BY <2>2, <2>3
<1>9. Len(x.events) = n /\ Len(y.events) = n
  BY <1>0, <1>4
<1> HIDE DEF T
<1>10. EquivalentTraces(x, y)
  BY <1>4, <1>8, <1>9 DEF EquivalentTraces, Count
<1> QED
  BY <1>10 DEF x, y

\* The uses at the same place, and a shape in common, make pairs of events.
LEMMA EventPairOfShape ==
    ASSUME NEW pairs, NEW e, NEW f, e \in RawEvent, f \in RawEvent,
           SameEventShape(e, f), EventPairs(e, f, TRUE) \subseteq pairs
    PROVE  EventPair(pairs, e, f)
<1>1. /\ DOMAIN e.args = 1 .. Len(e.args) /\ DOMAIN e.outputs = 1 .. Len(e.outputs)
      /\ Len(e.args) = Len(f.args) /\ Len(e.outputs) = Len(f.outputs)
  BY DEF RawEvent, SameEventShape
<1>2. UsePairsOf(pairs, ArgUses(e), ArgUses(f))
  <2>1. /\ ArgUses(e) \in Seq(AllUses) /\ Len(ArgUses(e)) = Len(e.args)
        /\ ArgUses(f) \in Seq(AllUses) /\ Len(ArgUses(f)) = Len(e.args)
    BY <1>1, ArgUsesType
  <2>2. \A k \in 1 .. Len(e.args) : <<ArgUses(e)[k], ArgUses(f)[k]>> \in pairs
    BY <1>1 DEF EventPairs
  <2>3. \A k \in 1 .. Len(e.args) : ArgUses(e)[k] \in AllUses /\ ArgUses(f)[k] \in AllUses
    BY <2>1
  <2> QED
    BY <2>1, <2>2, <2>3 DEF UsePairsOf, UsePair
<1>3. UsePair(pairs, ReturnUse(e), ReturnUse(f))
  <2>1. <<ReturnUse(e), ReturnUse(f)>> \in pairs
    BY DEF EventPairs
  <2> QED
    BY <2>1, ReturnUseType DEF UsePair
<1>4. ASSUME NEW n \in 1 .. Len(e.outputs)
      PROVE  OutputPair(pairs, e.outputs[n], f.outputs[n])
  <2> DEFINE o == e.outputs[n]
             p == f.outputs[n]
  <2>1. o \in RawOutput /\ p \in RawOutput
    BY <1>1, OutputsType
  <2>2. /\ o.label = p.label /\ o.digest = p.digest /\ Preview(o) = Preview(p)
        /\ Len(o.fds) = Len(p.fds)
    BY <1>1 DEF SameEventShape
  <2>3. \A k \in DOMAIN o.fds : <<FdUses(o)[k], FdUses(p)[k]>> \in pairs
    BY <1>1 DEF EventPairs
  <2> HIDE DEF o, p
  <2>4. DOMAIN o.fds = 1 .. Len(o.fds)
    BY <2>1 DEF RawOutput
  <2>5. /\ FdUses(o) \in Seq(AllUses) /\ Len(FdUses(o)) = Len(o.fds)
        /\ FdUses(p) \in Seq(AllUses) /\ Len(FdUses(p)) = Len(o.fds)
    BY <2>1, <2>2, FdUsesType
  <2>6. \A k \in 1 .. Len(o.fds) : FdUses(o)[k] \in AllUses /\ FdUses(p)[k] \in AllUses
    BY <2>5
  <2>7. UsePairsOf(pairs, FdUses(o), FdUses(p))
    BY <2>3, <2>4, <2>5, <2>6 DEF UsePairsOf, UsePair
  <2>8. OutputPair(pairs, o, p)
    BY <2>1, <2>2, <2>7 DEF OutputPair
  <2> QED
    BY <2>8 DEF o, p
<1>5. OutputPairsOf(pairs, e.outputs, f.outputs)
  BY <1>1, <1>4, OutputsType DEF OutputPairsOf
<1> QED
  BY <1>2, <1>3, <1>5 DEF EventPair, SameEventShape

\* Traces of one shape whose uses at the same place are renamed are equivalent.
LEMMA RenamedIsEquivalent ==
    ASSUME NEW left \in RawTrace, NEW right \in RawTrace,
           SameShape(left, right), Renamed(UsePairs(left, right, TRUE))
    PROVE  EquivalentTraces(Canonicalize(left), Canonicalize(right))
<1> DEFINE pairs == UsePairs(left, right, TRUE)
           n == Len(left.events)
<1>1. /\ left.final_state = right.final_state /\ left.process_exit = right.process_exit
      /\ n = Len(right.events) /\ DOMAIN left.events = 1 .. n
      /\ \A k \in 1 .. n : SameEventShape(left.events[k], right.events[k])
  BY DEF SameShape, RawTrace
<1>2. \A k \in 1 .. n : left.events[k] \in RawEvent /\ right.events[k] \in RawEvent
  BY <1>1 DEF RawTrace
<1>3. \A k \in 1 .. n : EventPairs(left.events[k], right.events[k], TRUE) \subseteq pairs
  BY <1>1 DEF UsePairs
<1>4. Renamed(pairs)
  OBVIOUS
<1> HIDE DEF pairs
<1>5. \A k \in 1 .. n : EventPair(pairs, left.events[k], right.events[k])
  BY <1>1, <1>2, <1>3, EventPairOfShape
<1> QED
  BY <1>1, <1>4, <1>5, TracesMatched

-----------------------------------------------------------------------------
(* The verdict on raw traces. *)

\* A comparison of raw traces is one of their canonical forms.
RawInv ==
    /\ rawReference \in RawTraces /\ reference = Canonicalize(rawReference)
    /\ rawCandidate \in RawTraces /\ candidate = Canonicalize(rawCandidate)
    /\ IInv

\* It holds at first.
LEMMA RawInitEstablishes == RawInit => RawInv
<1> SUFFICES ASSUME RawInit PROVE RawInv
  OBVIOUS
<1>1. /\ rawReference \in RawTraces /\ reference = Canonicalize(rawReference)
      /\ rawCandidate \in RawTraces /\ candidate = Canonicalize(rawCandidate)
      /\ Begin
  BY DEF RawInit
<1>2. reference \in Traces /\ candidate \in Traces
  BY <1>1, TracesAssumption
<1>3. IInv
  BY <1>1, <1>2, InitEstablishes DEF Init
<1> QED
  BY <1>1, <1>3 DEF RawInv

\* No step of the comparison changes a trace.
LEMMA RawStepPreserves ==
    RawInv /\ [Next /\ UNCHANGED rawVars]_<<vars, rawVars>> => RawInv'
<1> SUFFICES ASSUME RawInv, [Next /\ UNCHANGED rawVars]_<<vars, rawVars>> PROVE RawInv'
  OBVIOUS
<1>1. [Next]_vars /\ UNCHANGED rawVars
  OBVIOUS
<1>2. IInv'
  BY <1>1, StepPreserves DEF RawInv
<1>3. UNCHANGED <<reference, candidate>>
  BY <1>1 DEF Next, CompareCounts, CompareEvent, EventsExhausted, CompareState, vars
<1> QED
  BY <1>1, <1>2, <1>3 DEF RawInv, rawVars

\* What canonicalize and compare_canonical say together of two raw traces, whatever the
\* traces are and however long: if a one-to-one renaming of descriptors, addresses and
\* process ids takes one to the other, they are equivalent; and if they are equivalent, one
\* does, but for the results of noise calls.
THEOREM VerdictIsUpToRenaming == RawSpec => []EquivalentUpToRenaming
<1>1. RawInv => EquivalentUpToRenaming
  <2> SUFFICES ASSUME RawInv, pc = "done"
               PROVE  /\ SameShape(rawReference, rawCandidate)
                            /\ Renamed(UsePairs(rawReference, rawCandidate, TRUE))
                         => comparison.equivalent
                      /\ comparison.equivalent =>
                            /\ SameShape(rawReference, rawCandidate)
                            /\ Renamed(UsePairs(rawReference, rawCandidate, FALSE))
    BY DEF EquivalentUpToRenaming
  <2>1. rawReference \in RawTrace /\ rawCandidate \in RawTrace
    BY RawAssumption DEF RawInv
  <2>2. comparison.equivalent
           <=> EquivalentTraces(Canonicalize(rawReference), Canonicalize(rawCandidate))
    BY DEF RawInv, IInv, Verdict, VerdictIsPointwise
  <2> QED
    BY <2>1, <2>2, RenamedIsEquivalent, EquivalentIsRenamed
<1> QED
  BY RawInitEstablishes, RawStepPreserves, <1>1, PTL DEF RawSpec

\* The comparison of raw traces decides pointwise equivalence of their canonical forms, and
\* its index is the first place where these part if they are of one length, and the length
\* of the shorter one if they are not.
THEOREM RawVerdict == RawSpec => [](VerdictIsPointwise /\ ReportedIndexIsJustified)
<1>1. RawInv => VerdictIsPointwise /\ ReportedIndexIsJustified
  BY DEF RawInv, IInv, Verdict
<1> QED
  BY RawInitEstablishes, RawStepPreserves, <1>1, PTL DEF RawSpec
=============================================================================
