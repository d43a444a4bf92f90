----------------------------- MODULE MCSampling -----------------------------
(***************************************************************************)
(* Small instances of Sampling: a process monitor in two versions over two   *)
(* entities, or two external monitors over two checks.                      *)
(***************************************************************************)
EXTENDS Sampling

Base == [source |-> "process", interval |-> 15, top_n |-> 1, promotion |-> Lit(Truth(FALSE)), derived |-> <<>>,
         exempt |-> {}, rules |-> <<>>, params |-> <<>>, attrs |-> {}, metrics |-> {}, check |-> "none",
         entity |-> "none", perfdata |-> <<>>, windows |-> <<>>]
Above(metric, n) == Cmp(<<Name(metric), Lit(Num(n))>>, <<">">>)
Over(fn, metric, w) == Call(fn, <<Name(metric), Lit(Text(w))>>)

Proc ==
  [Base EXCEPT !.metrics = {"cpu_pct", "rss_bytes"}, !.windows = [cpu_pct |-> 15], !.attrs = {"user"},
               !.promotion = Cmp(<<Over("min", "cpu_pct", "15s"), Lit(Num(10))>>, <<">=">>),
               !.exempt = {Cmp(<<Name("user"), Lit(Text("root"))>>, <<"==">>)},
               !.rules = <<[id |-> "busy", when |-> Above("cpu_pct", 5)]>>]
Leak ==
  [Proc EXCEPT !.interval = 30, !.windows = [cpu_pct |-> 30], !.derived = <<[name |-> "load", expr |-> Over("avg", "cpu_pct", "30s")]>>,
               !.rules = <<[id |-> "leak", when |-> Above("load", 5)]>>, !.exempt = {}]

Mapping == [label |-> "used", metric |-> "used", uom |-> "%", scale |-> 1]
\* Its first rule owns the collection's health; the second looks back.
Mail ==
  [Base EXCEPT !.source = "external", !.check = "mail", !.entity = "a", !.perfdata = <<Mapping>>,
               !.windows = [half |-> 15],
               !.derived = <<[name |-> "half", expr |-> Op("/", <<Name("used"), Lit(Num(20))>>)]>>,
               !.rules = <<[id |-> "down", when |-> Op("or", <<Above("plugin_state", 15), Above("used", 5)>>)],
                           [id |-> "thin", when |-> Cmp(<<Over("coverage", "half", "15s"), Lit(Num(5))>>, <<"<">>)]>>]
\* Its only rule needs a measurement besides the state.
Disk ==
  [Mail EXCEPT !.check = "disk", !.derived = <<>>, !.windows = <<>>,
               !.rules = <<[id |-> "full", when |-> Op("and", <<Above("plugin_state", 15), Above("used", 5)>>)]>>]

MCDef == [proc |-> <<Proc, Leak>>, mail |-> <<Mail>>, disk |-> <<Disk>>]
MCEntities == <<"a", "b">>
MCSpec_ == [mail |-> [timeout |-> 10, protocol |-> "nagios"], disk |-> [timeout |-> 10, protocol |-> "ftmon-json"]]

Process(cpu, user) == [attrs |-> [user |-> user], metrics |-> [cpu_pct |-> cpu, rss_bytes |-> 10]]
MCSnapshots ==
  {("a" :> Process(cpu, "joe")) @@ y :
     cpu \in {0, 10}, y \in {<<>>} \cup {"b" :> Process(10, user) : user \in {"joe", "root"}}}

Output(state, items) == [text |-> TRUE, perf |-> TRUE, tokens |-> TRUE, state |-> state, items |-> items]
Used == <<"used", [good |-> TRUE, finite |-> TRUE, n |-> 10, uom |-> "%"]>>
Went(took, exit, out) ==
  [trusted |-> TRUE, launch |-> TRUE, took |-> took, exit |-> exit, overflow |-> FALSE, out |-> out]
Fine  == Went(0, 0, Output(0, <<Used>>))
Bare  == Went(0, 0, Output(0, <<>>))
Hangs == Went(20, 0, Output(0, <<>>))
MCProcesses == {[mail |-> x, disk |-> Fine] : x \in {Fine, Bare, Hangs}} \cup {[mail |-> Fine, disk |-> Hangs]}

MCSeconds == ("15s" :> 15) @@ ("30s" :> 30)
MCRegexes == [x |-> {"x"}]
MCRank == [x |-> 1, root |-> 2, joe |-> 3]
MCDays == ("22:00-06:00" :> <<1320, 360>>)

----------------------------------------------------------------------------
(* Conditions to evaluate, besides: all those of two operators over what a   *)
(* check measures, looks back over and is told.                             *)

VARIABLE probe   \* a condition, or None

ProbeEnv  == [metrics |-> {"plugin_state", "used"}, attrs |-> {"user"}, params |-> {"warn"}]
Leaves    == {Name("plugin_state"), Name("used"), Name("user"), Name("warn"), Lit(Num(20)), Over("coverage", "used", "15s")}
Combined(xs, ys) ==
  {Op(op, <<x, y>>) : op \in {"and", "or", "-"}, x \in xs, y \in ys}
  \cup {Cmp(<<x, y>>, <<sym>>) : sym \in {"!=", "<"}, x \in xs, y \in ys}
  \cup {Cmp(<<x, Op("list", <<y, Lit(Num(20))>>)>>, <<"not in">>) : x \in xs, y \in ys}
  \cup {Op("if", <<x, y, Lit(Num(0))>>) : x \in xs, y \in ys}
  \cup {Op("not", <<x>>) : x \in xs}
Conditions == Combined(Combined(Leaves, Leaves), {Name("used")})
ProbeContexts ==
  {[rings |-> [plugin_state |-> <<<<0, s>>>>, used |-> <<<<-15, 0>>, <<0, u>>>>], attrs |-> a,
    params |-> [warn |-> 10], baselines |-> <<>>, now |-> 0, unavailable |-> un] :
   s \in {0, 30}, u \in {0, 20}, a \in {<<>>, [user |-> "joe"]}, un \in SUBSET {"plugin_state", "used"}}

\* A condition that is decided although something is missing is decided alike
\* when it is there: UNKNOWN is never taken for an answer (expr/eval.py and the
\* truth tables of EX-06).  Only coalesce and the comparison of whole lists
\* look at it.
UnknownIsNoEvidence ==
  probe # None => \A less, more \in ProbeContexts : Monotone(probe, ProbeEnv, less, more)

----------------------------------------------------------------------------
Kind(m) == MCDef[m][1].source
Nothing == [m \in Monitors |-> None]
MCInit == /\ probe = None
          /\ \/ InitWith([Nothing EXCEPT !["proc"] = 1], <<"proc">>, {})
             \/ InitWith([Nothing EXCEPT !["mail"] = 1, !["disk"] = 1], <<"mail", "disk">>, DOMAIN Spec)
Examine ==
  /\ probe = None /\ loaded["proc"] # None
  /\ late = 0 /\ reloads = 0 /\ due["proc"] = 0
  /\ probe' \in Conditions /\ UNCHANGED vars
Examined == probe # None /\ probe' = None /\ UNCHANGED vars
\* One kind of monitor at a time; a tick chooses only what it can find.
Externals == \E m \in Monitors : Kind(m) = "external" /\ loaded[m] # None
Due(delay) == DueAt(Waking(delay)) # <<>>
Running ==
  \/ \E delay \in Late :
       IF ~Due(delay) THEN Tick(delay, <<>>, CHOOSE p \in Processes : TRUE)
       ELSE IF Externals THEN \E processes \in Processes : Tick(delay, <<>>, processes)
       ELSE \E snap \in Snapshots : Tick(delay, snap, CHOOSE p \in Processes : TRUE)
  \/ \E m \in Monitors : \E v \in DOMAIN Def[m] \cup {None} :
       ((m = "proc") = (table \in {<<>>, <<"proc">>} /\ ~Externals)) /\ Reload(m, v)
  \/ Externals /\ \E aliases \in SUBSET DOMAIN Spec : set_registry(aliases)
MCNext == (probe = None /\ Running /\ UNCHANGED probe) \/ Examine \/ Examined
MCSpec == MCInit /\ [][MCNext]_<<vars, probe>>
=============================================================================
