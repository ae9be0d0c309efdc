--------------------------- MODULE MigrationEvidence ---------------------------
(***************************************************************************)
(* engines/migration/evidence.py: the stored analyses of one engine become *)
(* the evidence of a migration plan.  An analysis is of the source, the    *)
(* target or another revision; items are what it reports ("severe" stands  *)
(* for a blocking or high finding, an unsupported scaling or a violated    *)
(* requirement, "mild" for the others); level is the availability or the   *)
(* monthly cost it states; partial says that something was not modelled.   *)
(***************************************************************************)
EXTENDS Naturals, FiniteSets, Sequences, SequencesExt

CONSTANT None

Sides(a, candidate) ==
    {s \in {"source", "target"} : a.of = s /\ (s = "target" => ~ candidate)}

First(analyses, side, candidate) ==
    LET of == SelectSeq(analyses, LAMBDA a : side \in Sides(a, candidate))
    IN IF of = <<>> THEN None ELSE of[1]

Match_failedToo(analyses, candidate) ==
    [source |-> First(analyses, "source", candidate), target |-> First(analyses, "target", candidate),
     stale |-> {a \in ToSet(analyses) : Sides(a, candidate) = {}}]

\* The newest analysis of each side, and those of neither.
Match(analyses, candidate) ==
    LET usable == SelectSeq(analyses, LAMBDA a : a.status # "failed")
    IN [source |-> First(usable, "source", candidate), target |-> First(usable, "target", candidate),
        stale |-> {a \in ToSet(usable) : Sides(a, candidate) = {}}]

NewFindings(m) == IF m.source = None \/ m.target = None THEN {} ELSE m.target.items \ m.source.items

\* A pass that rests on a partial analysis is a warning.
Evaluated(status, used) ==
    [status |-> IF status = "pass" /\ \E a \in used : a # None /\ a.partial THEN "warning" ELSE status,
     evidence |-> {[of |-> a.of, state |-> "current"] : a \in used \ {None}}]

\* validation and capacity: by what the target's analysis reports.
ByReport(m) ==
    Evaluated(CASE "severe" \in m.target.items -> "fail" [] m.target.items # {} -> "warning" [] OTHER -> "pass",
              {m.target})

\* security and observability: by what the source did not report.
Regressions(m) ==
    IF m.source = None THEN Evaluated(IF m.target.items # {} THEN "warning" ELSE "pass", {m.target})
    ELSE Evaluated(IF NewFindings(m) # {} THEN "fail" ELSE "pass", {m.target, m.source})

\* reliability: a violated requirement, or a lower availability.
Reliability(m) ==
    CASE "severe" \in m.target.items                          -> Evaluated("fail", {m.target})
      [] m.source # None /\ m.target.level < m.source.level   -> Evaluated("warning", {m.target, m.source})
      [] OTHER                                                -> Evaluated("pass", {m.target, m.source})

Engines == {"validation", "capacity", "security", "observability", "reliability", "cost"}

\* The engine's checkpoint of the target; None where the engine has none.
CheckpointOf(engine, analyses, candidate) ==
    LET m == Match(analyses, candidate)
        Unevaluated(status, evidence) == [status |-> status, evidence |-> evidence]
    IN CASE engine = "cost" \/ (engine = "reliability" /\ m.target = None) -> None
         [] engine = "reliability"                                     -> Reliability(m)
         [] m.target # None /\ engine \in {"validation", "capacity"}   -> ByReport(m)
         [] m.target # None                                            -> Regressions(m)
         [] candidate                                                  -> Unevaluated("cannot_evaluate", {})
         [] m.stale # {} -> Unevaluated("cannot_evaluate", {[of |-> a.of, state |-> "stale"] : a \in m.stale})
         [] OTHER                                                      -> Unevaluated("not_run", {})

\* Two totals are compared only when priced and complete alike.
Incomparable(a, b) == a.snapshot # b.snapshot \/ ~ a.complete \/ ~ b.complete

EvidencedRisks(engine, analyses, candidate) ==
    LET m == Match(analyses, candidate)
    IN CASE engine = "capacity" /\ m.target # None -> {<<"capacity", i>> : i \in m.target.items}
         [] engine = "cost" /\ m.source # None /\ m.target # None ->
              {<<"cost", "target">> : x \in {y \in {1} : /\ ~ Incomparable(m.source, m.target)
                                                         /\ m.target.level > m.source.level}}
         [] engine \in {"security", "observability"}   -> {<<engine, i>> : i \in NewFindings(m)}
         [] OTHER                                      -> {}

Coverage(analyses, candidate) ==
    LET m == Match(analyses, candidate)
        Of(side, found) == CASE side = "target" /\ candidate -> "unsupported"
                             [] found # None                 -> "current"
                             [] m.stale # {}                 -> "stale"
                             [] OTHER                        -> "missing"
    IN [source |-> Of("source", m.source), target |-> Of("target", m.target)]

\* A finding that the target is not checked.
MissingEvidence(analyses, candidate, steps) ==
    ~ candidate /\ steps /\ Match(analyses, candidate).target = None

Integrate(engine, analyses, candidate) ==
    [checkpoint |-> CheckpointOf(engine, analyses, candidate), risks |-> EvidencedRisks(engine, analyses, candidate),
     coverage |-> Coverage(analyses, candidate), missing |-> MissingEvidence(analyses, candidate, TRUE)]

-----------------------------------------------------------------------------
(* Inputs: at most two analyses, newest first.                              *)

Stored(engine) ==
    [status : {"completed", "failed"}, of : {"source", "target", "other"},
     items : IF engine = "cost" THEN {{}} ELSE SUBSET {"severe", "mild"},
     partial : IF engine = "cost" THEN {FALSE} ELSE BOOLEAN,
     level : IF engine \in {"cost", "reliability"} THEN 0 .. 1 ELSE {0},
     snapshot : IF engine = "cost" THEN 0 .. 1 ELSE {0}, complete : IF engine = "cost" THEN BOOLEAN ELSE {TRUE}]

Inputs == UNION {[engine : {e}, analyses : {<<a, b>> : a, b \in Stored(e)}, candidate : BOOLEAN] : e \in Engines}

\* What a sound reading of the evidence is: a verdict needs a finished
\* analysis of the very target, a pass a complete one, and a cost increase
\* two totals of the same prices.
EvidenceSound(input, result) ==
    LET used == {a \in ToSet(input.analyses) : a.status = "completed"}
        of(side) == {a \in used : a.of = side}
        c == result.checkpoint
    IN /\ (c # None /\ c.status \in {"pass", "warning", "fail"}) =>
             ~ input.candidate /\ of("target") # {} /\ \A e \in c.evidence : e.state = "current"
       /\ (c # None /\ c.status = "pass") => \E a \in of("target") : ~ a.partial
       /\ result.risks # {} => ~ input.candidate /\ of("target") # {}
       /\ <<"cost", "target">> \in result.risks =>
             \E a \in of("source"), b \in of("target") : a.snapshot = b.snapshot /\ a.complete /\ b.complete /\ a.level < b.level
       /\ result.missing <=> ~ input.candidate /\ of("target") = {}
       /\ result.coverage.target = "stale" => of("other") # {}
=============================================================================
