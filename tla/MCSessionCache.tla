---------------------------- MODULE MCSessionCache ----------------------------
EXTENDS SessionCache

\* The guide keeps one of its chunks when it is edited, the notes are two
\* documents of one source, the memo is confidential.
Manifest == [s \in Sources |-> CASE s = "guide" -> <<"d">> [] s = "notes" -> <<"m", "n">>
                                 [] s = "memo" -> <<"c">>]
Of(class, chunks) == [class |-> class, chunks |-> chunks]
Texts == [d \in Docs |->
            CASE d = "d" -> << Of("internal", <<"a", "b">>), Of("internal", <<"a", "c">>) >>
              [] d = "m" -> << Of("internal", <<"x">>) >>
              [] d = "n" -> << Of("internal", <<"y">>) >>
              [] d = "c" -> << Of("confidential", <<"y">>), Of("confidential", <<"z">>) >>]
Ingests == [r \in Runs |-> CASE r \in {"g1", "g2"} -> "guide" [] r = "n1" -> "notes"
                              [] r \in {"c1", "c2"} -> "memo"]

Token(classes, exp) == [actor |-> "agent", classes |-> classes, exp |-> exp]
Wide == {"internal", "confidential"}
TokenSet == {Token(Wide, 1), Token(Wide, 2), Token({"internal"}, 2)}

\* Two runs overlap, alone or with a failure; two runs meet one call; two
\* calls meet one run.  Two replicas share the events of one run, alone or with
\* a call, and something fails.
Load(runs, calls, fs, ticks) ==
  [runs |-> runs, calls |-> calls, faults |-> fs, ticks |-> ticks, replicas |-> {"k1"}]
Two(load) == [load EXCEPT !.replicas = {"k1", "k2"}]
LoadSet == { Load({"g1", "g2"}, {}, 0, 0), Two(Load({"g1"}, {}, 1, 0)), Load({"n1"}, {}, 1, 0),
             Load({"c1", "c2"}, {}, 1, 0),
             Load({"c1", "c2"}, {"p1"}, 0, 0), Two(Load({"c1"}, {"p1"}, 1, 0)),
             Load({"c1"}, {"p1", "p2"}, 0, 1) }
=============================================================================
