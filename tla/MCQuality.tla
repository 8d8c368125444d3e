----------------------------- MODULE MCQuality -----------------------------
EXTENDS Quality

Of(t, source, route, percent) ==
  [tenant |-> t, source |-> source, route |-> route, percent |-> percent, bucket |-> 50]
JobTable == [j \in Jobs |->
  CASE j \in {"p1", "p2"} -> Of("a", "probe", "probe", 0)
    [] j = "j1" -> Of("a", "judge", "active", 100)
    [] j = "s1" -> Of("a", "judge", "shadow", 10)
    [] j = "j2" -> Of("b", "judge", "canary", 10)
    [] j = "q1" -> Of("b", "probe", "probe", 0)]
LoadSet == { {"p1", "p2", "j1"}, {"j1", "s1"}, {"p1", "q1", "j2"} }

Known == [contains |-> {"word"}, cites |-> {"doc"}, abstain |-> "no"]
Good == [contains |-> {"word"}, cites |-> {"doc"}, abstained |-> FALSE]
AnswerSet == {Good}

Said(kind, score) == [kind |-> kind, score |-> score]
CompletionSet == {Said("error", 0), Said("junk", 0), Said("verdict", 2), Said("verdict", 12)}

Case(label, score) == [label |-> label, score |-> score]
Agreeing == <<Case(TRUE, 7), Case(TRUE, 9), Case(FALSE, 6), Case(FALSE, 0)>>
Doubtful == Append(Agreeing, Case(TRUE, 0)) \o <<Case(FALSE, 9)>>
CalibrationSet == { <<Calibrate("old", Agreeing), Calibrate(Rubric, Agreeing)>>,
                    <<Calibrate("old", Agreeing), Calibrate(Rubric, Doubtful)>> }
=============================================================================
