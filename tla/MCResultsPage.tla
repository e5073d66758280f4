---------------------------- MODULE MCResultsPage ----------------------------
EXTENDS ResultsPage

Scenario(n, c, w) == [name |-> n, churn |-> c, workload |-> w]

\* The second table has its values in another order, and one churn less.
MCTables == {<<Scenario("s1", "Light", "High"), Scenario("s2", "Heavy", "High"),
               Scenario("s3", "Heavy", "Low")>>,
             <<Scenario("s4", "Heavy", "Low"), Scenario("s5", "Heavy", "High")>>}

MCMissing == {<<"s2", 1, "overall">>, <<"s3", 0, "after">>}

Link(m, c, w, d) == [metric |-> m, sel |-> [churn |-> c, workload |-> w], data_type |-> d]

\* Nothing, a value twice, a value there is none of, a metric there is none of, and a data type
\* nobody knows.
MCLinks == {encode(NoQuery, "overtime"), Link(0, <<1, 1>>, <<0>>, "overtime"), Link(1, <<2>>, <<0, 1>>, "overall"),
            Link(7, <<1, 1>>, <<1>>, "batraining"), Link(1, <<0>>, <<0>>, "pie")}
=============================================================================
