---------------------------- MODULE AnalyticsPages ----------------------------
(***************************************************************************)
(* The dashboard (src/apps/web/pages/index.vue) and the administrator's    *)
(* analytics (pages/admin/analytics.vue): pills choose a period and a      *)
(* metric, each choice asks the API for the figures or the series it       *)
(* changes, the dashboard asks again on every event, and answers are shown *)
(* as they come.  The administrator's pills show not what was chosen but   *)
(* what the page believes to have loaded.  Figures and series are told     *)
(* apart by the choice they were asked for.                                *)
(***************************************************************************)
EXTENDS Integers, SequencesExt

CONSTANTS Periods, Metrics,
          MaxFetches, \* bound: requests under way
          NoFigures

ASSUME AnalyticsAssumption ==
    NoFigures \notin Periods \cup Metrics /\ MaxFetches \in Nat \ {0}

VARIABLES admin,     \* which of the two pages
          chosen,    \* selectedPeriod, selectedMetric
          labelled,  \* loadedPeriod, loadedMetric
          overview,  \* period of the figures on screen
          series,    \* choice of the series on screen
          sent,      \* requests under way, in the order they were made
          busy, broken, \* loading, loadError
          stale,     \* history: a request was made with another under way
          refused    \* history: the kinds of request that failed; both are
                     \* forgotten when everything was loaded, with nothing else
                     \* under way, for the choice made now

anaVars == <<admin, chosen, labelled, overview, series, sent, busy, broken, stale, refused>>

Selections == [period : Periods, metric : Metrics]
Unset == [period |-> NoFigures, metric |-> NoFigures]
Kinds == {"load", "period", "metric", "refresh"}

(* The request for what a kind of change needs, for the choice made now.   *)
Fetched(kind, choice) == sent' = Append(sent, [kind |-> kind, for |-> choice])

AnaInit ==
    /\ admin \in BOOLEAN /\ chosen \in Selections
    /\ labelled = chosen /\ overview = NoFigures /\ series = Unset
    /\ sent = <<[kind |-> "load", for |-> chosen]>>
    /\ busy = TRUE /\ broken = FALSE /\ stale = FALSE /\ refused = {}

(* A pill is clicked.  The administrator's page loads everything again for *)
(* a period, the dashboard what depends on it.  The pills of the metric are *)
(* on screen with the chart: not while the page loads or says it failed.   *)
PickPeriod(p) ==
    /\ p # chosen.period /\ Len(sent) < MaxFetches
    /\ chosen' = [chosen EXCEPT !.period = p]
    /\ Fetched(IF admin THEN "load" ELSE "period", chosen')
    /\ busy' = (busy \/ admin) /\ broken' = (broken /\ ~admin)
    /\ stale' = (stale \/ sent # <<>>)
    /\ UNCHANGED <<admin, labelled, overview, series, refused>>
PickMetric(m) ==
    /\ m # chosen.metric /\ Len(sent) < MaxFetches /\ ~busy /\ ~broken
    /\ chosen' = [chosen EXCEPT !.metric = m]
    /\ Fetched("metric", chosen')
    /\ stale' = (stale \/ sent # <<>>)
    /\ UNCHANGED <<admin, labelled, overview, series, busy, broken, refused>>

(* Mail arrives or is read: the dashboard asks again.                      *)
RefreshAnalytics ==
    /\ ~admin /\ Len(sent) < MaxFetches /\ Fetched("refresh", chosen)
    /\ UNCHANGED <<admin, chosen, labelled, overview, series, busy, broken, stale, refused>>

(* Retry, offered where the first load failed.                             *)
LoadAgain ==
    /\ admin /\ broken /\ ~busy /\ Len(sent) < MaxFetches
    /\ Fetched("load", chosen) /\ busy' = TRUE /\ broken' = FALSE
    /\ stale' = (stale \/ sent # <<>>)
    /\ UNCHANGED <<admin, chosen, labelled, overview, series, refused>>

(* An answer is shown, and labelled with the choice made by now.           *)
ShowAnswer(i) ==
    /\ sent' = RemoveAt(sent, i)
    /\ series' = sent[i].for
    /\ overview' = IF sent[i].kind = "metric" THEN overview ELSE sent[i].for.period
    /\ labelled' = IF ~admin THEN labelled
                   ELSE IF sent[i].kind = "metric" THEN [labelled EXCEPT !.metric = chosen.metric]
                   ELSE chosen
    /\ busy' = (busy /\ sent[i].kind # "load")
    /\ IF sent[i].kind # "metric" /\ Len(sent) = 1 /\ sent[i].for = chosen
       THEN stale' = FALSE /\ refused' = {} ELSE UNCHANGED <<stale, refused>>
    /\ UNCHANGED <<admin, chosen, broken>>

(* A request fails: what is shown stays, ...                               *)
FetchFails(i) ==
    /\ sent' = RemoveAt(sent, i) /\ refused' = refused \cup {sent[i].kind}
    /\ busy' = (busy /\ sent[i].kind # "load")
    /\ broken' = (broken \/ (admin /\ sent[i].kind = "load" /\ overview = NoFigures))
    /\ UNCHANGED <<admin, chosen, overview, series, stale>>

(* Mutant: a failed load is labelled as loaded.                            *)
FailLabelled(i) ==
    /\ FetchFails(i)
    /\ labelled' = IF admin /\ sent[i].kind = "load" THEN chosen ELSE labelled

(* ... with its labels.                                                    *)
FailAnswer(i) == FetchFails(i) /\ UNCHANGED labelled

AnaNext ==
    \/ \E p \in Periods : PickPeriod(p)
    \/ \E m \in Metrics : PickMetric(m)
    \/ RefreshAnalytics \/ LoadAgain
    \/ \E i \in DOMAIN sent : ShowAnswer(i) \/ FailAnswer(i)
AnaSpec == AnaInit /\ [][AnaNext]_anaVars

-----------------------------------------------------------------------------
(* Type invariant.                                                         *)
AnaTypeOK ==
    /\ {admin, busy, broken, stale} \subseteq BOOLEAN /\ refused \subseteq Kinds
    /\ chosen \in Selections /\ labelled \in Selections
    /\ overview \in Periods \cup {NoFigures} /\ series \in Selections \cup {Unset}
    /\ sent \in Seq([kind : Kinds, for : Selections])

(* The pills of the administrator's page never claim a period or a metric  *)
(* that is not on screen, in the figures and in the chart, also after a    *)
(* failed request, and when nothing is under way both pages show what was  *)
(* chosen unless the request for it failed.  Except, until everything was  *)
(* loaded again, where a choice was made before the last was answered      *)
(* (answers are labelled with the choice made by then and shown in any     *)
(* order), and for the chart where a period failed to load: the next       *)
(* metric is plotted for that period, under the pill of the old one.       *)
LabelsAreTrue ==
    ~stale =>
        /\ admin /\ overview # NoFigures => labelled.period = overview
        /\ admin /\ series # Unset =>
              /\ labelled.metric = series.metric
              /\ "load" \notin refused => labelled.period = series.period
        /\ sent = <<>> =>
              /\ refused \subseteq {"metric", "refresh"} => overview = chosen.period
              /\ refused \subseteq {"refresh"} => series = chosen
=============================================================================
