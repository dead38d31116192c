--------------------------- MODULE CampaignResults ---------------------------
(***************************************************************************)
(* What a campaign promises its reader, whatever the number of threads and *)
(* the batching mode: every entry is judged exactly once, and the report   *)
(* holds one row per entry, in the order of the entries.                   *)
(***************************************************************************)
EXTENDS Integers, Sequences

CONSTANTS
    N,           \* number of entries
    Verdicts,    \* what a row may say of an entry
    NoVerdict    \* the entry has not been judged

Entries == 1 .. N

VARIABLES verdict, report

vars == <<verdict, report>>

Init ==
    /\ verdict = [e \in Entries |-> NoVerdict]
    /\ report = <<>>

\* A set of entries is judged in one step: an entry, or the cases of a batch.
Judge ==
    /\ verdict' \in [Entries -> Verdicts \cup {NoVerdict}]
    /\ \A e \in Entries : verdict[e] # NoVerdict => verdict'[e] = verdict[e]
    /\ UNCHANGED report

Publish ==
    /\ \A e \in Entries : verdict[e] # NoVerdict
    /\ report = <<>>
    /\ report' = [e \in Entries |-> [entry |-> e, verdict |-> verdict[e]]]
    /\ UNCHANGED verdict

Next == Judge \/ Publish

Spec == Init /\ [][Next]_vars /\ WF_vars(Publish)
=============================================================================
