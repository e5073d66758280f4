----------------------------- MODULE ResultsPage -----------------------------
(***************************************************************************)
(* The page that shows the results of the evaluation (the scripts query,   *)
(* action, scope, main and util under src/site/resources/analysis).        *)
(*                                                                         *)
(* What is shown is a query: a metric, for every property of a scenario    *)
(* the indices of the values that are ticked, and a data type.  It is kept *)
(* four times: in the query object, in location.hash, in the boxes, and in *)
(* what the chart was drawn from; update brings the last three into line   *)
(* with the first.  The handlers run to their end: all requests are        *)
(* synchronous.  One of them may throw half-way.                           *)
(*                                                                         *)
(* A scenario is a record of its name and its properties; of the six that  *)
(* filter the matches of the first as many are taken as Filters has.       *)
(***************************************************************************)
EXTENDS Integers, Sequences, SequencesExt, FiniteSetsExt

CONSTANTS
  Filters,      \* properties of a scenario besides "churn"
  Tables,       \* what scenarios.csv may be: sequences of scenarios
  Metrics,      \* 0..n: the rows of metrics.csv
  Missing,      \* the <<name, metric, file>> of analyses that are not there
  Links         \* what may be typed after the #: encoded queries

Properties == {"churn"} \cup Filters

ASSUME PageAssumption ==
  /\ \A t \in Tables : t \in Seq(ToSet(t))
  /\ \A h \in Links : h.sel \in [Properties -> Seq(Nat)]
  /\ 0 \in Metrics

DataTypes == {"overtime", "overall", "btraining", "atraining", "batraining"}

VARIABLES
  results,      \* scenarios.csv on the server
  scenarios,    \* scope.scenarios: as it was when the page was loaded
  query,        \* [metric, sel: [Properties -> Seq(Nat)]]
  data_type,    \* scope.data_type
  hash,         \* location.hash
  title,        \* the metric named by the title and the sidebar, or -1
  ticked,       \* the checked boxes: <<property, index>>
  chart,        \* what the chart was drawn from: [metric, data_type, matches], or NoChart
  failed        \* history: the last handler threw

page == <<scenarios, query, data_type, title, ticked, chart, failed>>
vars == <<results, page, hash>>

-----------------------------------------------------------------------------
(* scope.scenarios.groupBy(p): its keys come in the order of their first scenario *)

Values(t, p) == {t[i][p] : i \in DOMAIN t}
FirstOf(t, p, v) == Min({i \in DOMAIN t : t[i][p] = v})
KeyIndex(t, p, v) == Cardinality({w \in Values(t, p) : FirstOf(t, p, w) < FirstOf(t, p, v)})

Boxes(t) == UNION {{p} \X (0..Cardinality(Values(t, p)) - 1) : p \in Properties}

\* The index of its value is among those selected.
Selects(q, t, p, s) == \E i \in DOMAIN q.sel[p] : q.sel[p][i] = KeyIndex(t, p, s[p])

\* query.matches: for every churn that is selected, in this order and as often, the rows of its group
\* that pass the filters.  The rows of a group are in the order of the table.
matches(q, t) ==
  [i \in DOMAIN q.sel["churn"] |->
     {k \in DOMAIN t : /\ KeyIndex(t, "churn", t[k]["churn"]) = q.sel["churn"][i]
                       /\ \A p \in Filters : Selects(q, t, p, t[k])}]

\* ... which throws if there is no such churn.
MatchesThrows(q, t) == \E i \in DOMAIN q.sel["churn"] : <<"churn", q.sel["churn"][i]>> \notin Boxes(t)

\* The file of a match that the renderer takes the first row of.
Files(d) == CASE d = "overall"    -> {"overall"}
              [] d = "btraining"  -> {"before"}
              [] d = "atraining"  -> {"after"}
              [] d = "batraining" -> {"before", "after"}
              [] OTHER            -> {}

\* scope.renderer: a file that is not there is read as '', and has no first row.
RendererThrows(q, t, d) ==
  \E k \in UNION ToSet(matches(q, t)), f \in Files(d) : <<t[k].name, q.metric, f>> \in Missing

\* ... and what it draws otherwise: no lines at all for a data type it does not know.
Drawn(q, t, d) ==
  [metric |-> q.metric, data_type |-> d, matches |-> IF d \in DataTypes THEN matches(q, t) ELSE <<>>]

-----------------------------------------------------------------------------
(* query.encode and query.decode *)

EncodeWithoutType(q, d) ==                      \* mutant: the data type is not in the link
  [metric |-> q.metric, sel |-> q.sel, data_type |-> "overtime"]

encode(q, d) == [metric |-> q.metric, sel |-> q.sel, data_type |-> d]

\* No text after the # is decoded to the query the page begins with, and so is its encoding.
NoQuery == [metric |-> 0, sel |-> [p \in Properties |-> <<>>]]
decode(h) == [metric |-> h.metric, sel |-> h.sel]

-----------------------------------------------------------------------------
(* query.update, with a query q, a data type d and the boxes as they are *)

Selected(q, t) == {b \in Boxes(t) : \E i \in DOMAIN q.sel[b[1]] : q.sel[b[1]][i] = b[2]}

\* The hash and the title come first, then the boxes, then the matches and the chart: an exception
\* leaves what comes after it as it was.
update(q, d, t, boxes, shown) ==
  /\ query' = q /\ data_type' = d /\ hash' = encode(q, d)
  /\ IF q.metric \notin Metrics
     THEN /\ failed' = TRUE
          /\ title' = shown.title /\ ticked' = boxes /\ chart' = shown.chart
     ELSE /\ title' = q.metric
          /\ ticked' = boxes \cup Selected(q, t)
          /\ failed' = (MatchesThrows(q, t) \/ RendererThrows(q, t, d))
          /\ chart' = IF failed' THEN shown.chart ELSE Drawn(q, t, d)

Shown == [title |-> title, chart |-> chart]
NoChart == [metric |-> -1, data_type |-> "none", matches |-> <<>>]
Nothing == [title |-> -1, chart |-> NoChart]

\* The page is loaded (main.js): both tables are read, the boxes made, and query.init called.
Load ==
  /\ scenarios' = results
  /\ update(decode(hash), hash.data_type, results, {}, Nothing)
  /\ UNCHANGED results

\* action.metricClicked
metricClicked(m) ==
  /\ update([query EXCEPT !.metric = m], data_type, scenarios, ticked, Shown)
  /\ UNCHANGED <<results, scenarios>>

\* The change handler of data_type_chooser.  After a load the radio of the type shown is not yet
\* checked (query.init): choosing it is a change as well.
dataTypeChanged(d) ==
  /\ update(query, d, scenarios, ticked, Shown)
  /\ UNCHANGED <<results, scenarios>>

\* mutant: selection.push(index)
Push(sel, i) == Append(sel, i)

addIfAbsent(sel, i) == IF Contains(sel, i) THEN sel ELSE Append(sel, i)

\* mutant: splice(element, 1)
RemoveAtElement(sel, i) == IF i + 1 \in DOMAIN sel THEN RemoveAt(sel, i + 1) ELSE sel

\* The first one only.
removeIfExists(sel, i) == RemoveFirst(sel, i)

\* The browser checks or unchecks the box and calls action.filterChecked.
filterChecked(b) ==
  /\ LET p == b[1]
         i == b[2]
     IN IF b \in ticked
        THEN update([query EXCEPT !.sel[p] = removeIfExists(@, i)], data_type, scenarios,
                    ticked \ {b}, Shown)
        ELSE update([query EXCEPT !.sel[p] = addIfAbsent(@, i)], data_type, scenarios,
                    ticked \cup {b}, Shown)
  /\ UNCHANGED <<results, scenarios>>

\* Back, forward, or an address typed in: nobody listens for the change of the hash.
Navigate(h) ==
  /\ hash' = h
  /\ UNCHANGED <<results, page>>

\* The experiments are analysed anew.
Regenerate(t) ==
  /\ results' = t
  /\ UNCHANGED <<page, hash>>

Init ==
  /\ results \in Tables /\ scenarios = results
  /\ query = NoQuery /\ data_type = "overtime" /\ hash = encode(NoQuery, "overtime")
  /\ title = 0 /\ ticked = {} /\ failed = FALSE
  /\ chart = [metric |-> 0, data_type |-> "overtime", matches |-> <<>>]

Next == \/ Load
        \/ \E m \in Metrics : metricClicked(m)
        \/ \E d \in DataTypes : dataTypeChanged(d)
        \/ \E b \in Boxes(scenarios) : filterChecked(b)
        \/ \E h \in Links : Navigate(h)
        \/ \E t \in Tables : Regenerate(t)

Spec == Init /\ [][Next]_vars

-----------------------------------------------------------------------------
\* How often a selection repeats values.
Repeats(sel) == Len(sel) - Cardinality(ToSet(sel))

\* The boxes are those there are, and ticking never selects a value twice (addIfAbsent): a selection
\* repeats no more values than one that was typed in.
TypeOK ==
  /\ results \in Tables /\ scenarios \in Tables
  /\ ticked \subseteq Boxes(scenarios) /\ failed \in BOOLEAN
  /\ query.sel \in [Properties -> Seq(Nat)]
  /\ \A p \in Properties :
       \E sel \in {<<>>} \cup {h.sel[p] : h \in Links} : Repeats(query.sel[p]) <= Repeats(sel)

\* What is drawn is what the page says is drawn, unless the last handler threw: the metric of the
\* title, the data type chosen, and the scenarios all of whose values are ticked and no others
\* (none for a data type there is none of), whatever was clicked, typed or loaded before
\* (query.update).
ChartIsWhatIsTicked ==
  failed \/ /\ chart.metric = title /\ chart.data_type = data_type
            /\ UNION ToSet(chart.matches) =
                 {k \in DOMAIN scenarios : data_type \in DataTypes /\
                    \A p \in Properties : <<p, KeyIndex(scenarios, p, scenarios[k][p])>> \in ticked}

\* A page that is loaded from the address another one shows is the same page, as long as the
\* results are: what is drawn, and the title and the boxes (query.encode and decode).
AddressRestoresPage ==
  [][Load /\ ~failed /\ hash = encode(query, data_type) /\ results = scenarios
       => <<title, ticked, chart>>' = <<title, ticked, chart>>]_vars
=============================================================================
