--------------------------- MODULE ExternalChecks ---------------------------
(***************************************************************************)
(* External checks: what the runner makes of a process (checks/runner.py),   *)
(* what the adapters make of its output (nagios.py, jsoncheck.py), how a raw  *)
(* result is projected through a monitor's mappings (sampler.py), and which  *)
(* rule answers for a check that could not be made (health.py).              *)
(*                                                                         *)
(* A process is a record [trusted, launch, took, exit, overflow, out]: exit  *)
(* is the exit code, -1 for a signal.  Its output is what an adapter can tell *)
(* apart of the bytes: whether they are well formed, the state they claim,    *)
(* and <<label, value>> items with a value [good, finite, n, uom].  Times are  *)
(* in seconds.                                                              *)
(***************************************************************************)
EXTENDS Expressions, SequencesExt

Raw(state, failure, took, values) ==
  [state |-> state, failure |-> failure, took |-> took, values |-> values]
unknown(took, failure) == Raw(3, failure, took, <<>>)

\* nagios.parse: the exit code is the state; an item that is malformed or not
\* finite is skipped, a label that two items carry is dropped.
nagios_parse(out, exit, took) ==
  LET items   == IF out.perf THEN out.items ELSE <<>>
      good    == {i \in DOMAIN items : items[i][2].good /\ items[i][2].finite}
      unique  == {i \in good : \A j \in good : items[j][1] = items[i][1] => j = i}
      value(label) == items[CHOOSE i \in unique : items[i][1] = label][2]
  IN  IF exit \notin 0..3 THEN unknown(took, "exit_status")
      ELSE IF ~out.text \/ (out.perf /\ ~out.tokens) THEN unknown(took, "protocol")
      ELSE Raw(exit, "none", took,
               [label \in {items[i][1] : i \in unique} |-> [n |-> value(label).n, uom |-> value(label).uom]])

\* jsoncheck.parse: an object that is not wholly right is wholly rejected.
MaxJsonMetrics == 64
json_parse(out, took) ==
  LET items == out.items
      labels == {items[i][1] : i \in DOMAIN items}
      value(label) == items[CHOOSE i \in DOMAIN items : items[i][1] = label][2]
  IN  IF \/ ~out.text \/ ~out.tokens
         \/ out.state \notin 0..3 \/ Len(items) > MaxJsonMetrics
         \/ Cardinality(labels) # Len(items)          \* a key that is given twice
         \/ \E i \in DOMAIN items : ~(items[i][2].good /\ items[i][2].finite)
      THEN unknown(took, "protocol")
      ELSE Raw(out.state, "none", took,
               [label \in labels |-> [n |-> value(label).n, uom |-> value(label).uom]])

\* CheckRunner.run with "left" seconds of the cycle to go.
Run(spec, process, left) ==
  LET timeout == IF spec.timeout < left THEN spec.timeout ELSE left IN
  IF ~process.trusted THEN unknown(0, "executable")
  ELSE IF timeout <= 0 THEN unknown(0, "timeout")
  ELSE IF ~process.launch THEN unknown(0, "launch")
  ELSE IF process.took >= timeout THEN unknown(timeout, "timeout")
  ELSE IF process.overflow THEN unknown(process.took, "output_limit")
  ELSE IF process.exit < 0 THEN unknown(process.took, "signal")
  ELSE IF spec.protocol = "nagios" THEN nagios_parse(process.out, process.exit, process.took)
  ELSE IF process.exit # 0 THEN unknown(process.took, "exit_status")
  ELSE json_parse(process.out, process.took)

\* _project_options: the fixed metrics, and each mapping whose label is there
\* in the unit it expects.  A number is in units of 1/Scale.
project(def, raw) ==
  LET mapped == {k \in DOMAIN def.perfdata :
                   /\ def.perfdata[k].label \in DOMAIN raw.values
                   /\ raw.values[def.perfdata[k].label].uom = def.perfdata[k].uom
                   /\ Num(raw.values[def.perfdata[k].label].n * def.perfdata[k].scale) # Unknown}
      of(metric) == CHOOSE k \in mapped : def.perfdata[k].metric = metric
  IN  ("plugin_state" :> Scale * raw.state)
      @@ ("plugin_ok" :> IF raw.state = 0 THEN Scale ELSE 0)
      @@ ("duration_s" :> Scale * raw.took)
      @@ [metric \in {def.perfdata[k].metric : k \in mapped} |->
            raw.values[def.perfdata[of(metric)].label].n * def.perfdata[of(metric)].scale]

----------------------------------------------------------------------------
(* Definitions at run time.                                                 *)

SOURCE_METRICS(def) ==
  IF def.source = "external"
  THEN {"plugin_state", "plugin_ok", "duration_s"} \cup {def.perfdata[k].metric : k \in DOMAIN def.perfdata}
  ELSE def.metrics
declared_metric_names(def) == SOURCE_METRICS(def) \cup {def.derived[k].name : k \in DOMAIN def.derived}
EnvOf(def) == [metrics |-> declared_metric_names(def), attrs |-> def.attrs, params |-> DOMAIN def.params]

\* The names an expression mentions, and whether it calls anything.
RECURSIVE Mentions(_)
Mentions(node) ==
  IF node.op = "name" THEN {node.id}
  ELSE IF node.op = "lit" THEN {}
  ELSE UNION {Mentions(node.args[i]) : i \in DOMAIN node.args}
RECURSIVE Calls(_)
Calls(node) ==
  node.op \notin {"name", "lit"} /\ (node.op = "call" \/ \E i \in DOMAIN node.args : Calls(node.args[i]))

\* What a rule concludes of a check's state when nothing else is known.
STATUS_METRICS == {"plugin_state", "plugin_ok"}
StatusOnly(def, state) ==
  [rings |-> ("plugin_state" :> << <<0, Scale * state>> >>)
             @@ ("plugin_ok" :> << <<0, IF state = 0 THEN Scale ELSE 0>> >>),
   attrs |-> <<>>, params |-> def.params, baselines |-> <<>>, now |-> 0, unavailable |-> {}]

\* collection_health_rules: a declared rule that is TRUE of state 3 whatever
\* else is measured, and not TRUE of state 0, answers for the collection.
Owns(def, rule) ==
  /\ Mentions(rule.when) \cap STATUS_METRICS # {}
  /\ ~Calls(rule.when)
  /\ Mentions(rule.when) \subseteq declared_metric_names(def) \cup DOMAIN def.params \cup DOMAIN Constants
  /\ Ev(rule.when, EnvOf(def), StatusOnly(def, 3)) = Truth(TRUE)
  /\ Ev(rule.when, EnvOf(def), StatusOnly(def, 0)) # Truth(TRUE)
Fallback == [id |-> "@check-health", when |-> Cmp(<<Name("plugin_state"), Lit(Num(3 * Scale))>>, <<"==">>)]
collection_health_rules(def) ==
  IF def.source # "external" THEN {}
  ELSE LET owners == {k \in DOMAIN def.rules : Owns(def, def.rules[k])}
       IN  IF owners = {} THEN {Fallback} ELSE {def.rules[k] : k \in owners}
runtime_rules(def) ==
  IF collection_health_rules(def) = {Fallback} THEN Append(def.rules, Fallback) ELSE def.rules
=============================================================================
