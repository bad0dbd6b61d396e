------------------------------- MODULE Relabel -------------------------------
(***************************************************************************)
(* The body of /metrics: handleMetrics of internal/pkg/server/server.go,   *)
(* which merges the results of ScrapeAll, and InjectLabels of              *)
(* internal/pkg/proxy/relabel.go, which writes the labels of the target    *)
(* into every sample.                                                      *)
(*                                                                         *)
(* A line is a sample, of which its series within the exporter matters, or *)
(* one that is passed on as it is (a comment, a blank or a malformed one), *)
(* or one that is too long for the scanner.  Of the labels of a target     *)
(* only those the server adds matter, and vm_name, which it leaves alone   *)
(* if the target has it.                                                   *)
(***************************************************************************)
EXTENDS Naturals, Sequences, FiniteSets

CONSTANTS
  Series,      \* the series of an exporter
  VMNames, IDs, \* names and ids of targets; "" is no id
  MaxLines     \* bound: lines of one exporter's answer

RelabelAssumption == MaxLines \in Nat /\ {"pass", "long"} \cap Series = {}

Sample(s, vm, id) == [series |-> s, vm_name |-> vm, target_id |-> id]
Raw(s) == Sample(s, "", "")
Pass == Raw("pass")
Long == Raw("long")
Lines == {Raw(s) : s \in Series} \cup {Pass, Long}
IsSample(line) == line.series \in Series

\* An exporter does not repeat a series.
Bodies == {b \in UNION {[1 .. n -> Lines] : n \in 0 .. MaxLines} :
             \A i, j \in DOMAIN b : IsSample(b[i]) /\ b[i] = b[j] => i = j}

\* vm is the label vm_name of the target, "" if it has none.
Targets == [id : IDs, name : VMNames \ {""}, vm : VMNames]
Key(t)  == IF t.id = "" THEN t.name ELSE t.id     \* as Reconcile keys the map

VARIABLES
  results,   \* the results of ScrapeAll: target, body, and whether there was one
  next,      \* the result handleMetrics looks at
  out,       \* the body written so far
  up, errors \* targetsUp and scrapeErrors

Init(n) ==
  /\ results \in [1 .. n -> [target : Targets, ok : BOOLEAN, body : Bodies]]
  /\ \A i \in 1 .. n : ~results[i].ok => results[i].body = <<>>
  /\ \A i, j \in 1 .. n : Key(results[i].target) = Key(results[j].target) => i = j
  /\ next = 1
  /\ out = <<>>
  /\ up = 0
  /\ errors = 0

RelabelTypeOK == /\ next \in 1 .. Len(results) + 1
                 /\ up + errors = next - 1

\* Mutant: the samples carry the name of their VM alone.
LabelledMut(line, t) ==
  IF IsSample(line) THEN Sample(line.series, IF t.vm = "" THEN t.name ELSE t.vm, "") ELSE line

Labelled(line, t) ==
  IF IsSample(line) THEN Sample(line.series, IF t.vm = "" THEN t.name ELSE t.vm, t.id) ELSE line

\* Mutant: the error of the scanner is ignored.
TooLongMut(body) == FALSE

TooLong(body) == \E i \in DOMAIN body : body[i] = Long

InjectLabels(body, t) == [i \in DOMAIN body |-> Labelled(body[i], t)]

Fails(r) == ~r.ok \/ TooLong(r.body)

Skip == /\ next \in DOMAIN results
        /\ Fails(results[next])
        /\ errors' = errors + 1
        /\ next' = next + 1
        /\ UNCHANGED <<results, out, up>>

Merge == /\ next \in DOMAIN results
         /\ ~Fails(results[next])
         /\ up' = up + 1
         /\ out' = out \o InjectLabels(results[next].body, results[next].target)
         /\ next' = next + 1
         /\ UNCHANGED <<results, errors>>

Next == Skip \/ Merge

-----------------------------------------------------------------------------
(* Properties.                                                             *)

Samples == {i \in DOMAIN out : IsSample(out[i])}

\* The same series of two exporters stays two series in the merged body, also
\* when their VMs have one name (README 16), if each target has an id.
SeriesApart ==
  (\A i \in DOMAIN results : results[i].target.id # "") =>
    \A i, j \in Samples : out[i] = out[j] => i = j

\* A target is in the body with all of its samples or with none at all: a line
\* that is too long does not leave the part of the answer that came before it,
\* and costs no other target anything (relabel.go 131-133, server.go 130-154).
AllOrNothing ==
  \A i \in 1 .. next - 1 : LET r == results[i] IN
    r.target.id # "" =>
      Cardinality({j \in Samples : out[j].target_id = r.target.id}) =
        IF r.ok /\ \A k \in DOMAIN r.body : r.body[k] # Long
        THEN Cardinality({k \in DOMAIN r.body : IsSample(r.body[k])}) ELSE 0
=============================================================================
