-------------------------- MODULE DefinitionLoader --------------------------
(***************************************************************************)
(* definitions/loader.py with the key tables of definitions/schema.py: from *)
(* a parsed TOML document to a MonitorDef, or to the set of its errors.     *)
(*                                                                         *)
(* The code walks the document once, section by section; a section reports  *)
(* what is wrong and goes on with what is left, and a definition is made    *)
(* only if nothing was reported.  Here each section has an operator for its *)
(* errors and one for what it keeps.  A text is a member of a small set; a   *)
(* text of Long is over every length limit, "" is under all of them.  Codes   *)
(* that word one fault of one key differently are one code.                 *)
(***************************************************************************)
EXTENDS Expressions, SequencesExt

CONSTANTS
  SOURCE_DECLS,   \* source -> [metrics, attrs], the platform's declarations
  MonitorNames,   \* the texts that match NAME_RE
  Ids,            \* the texts that match ID_RE
  Identifiers,    \* the texts that are bare names and no keywords
  Long,           \* the texts longer than any limit
  Trees,          \* expression texts that parse: a function to their trees
  MaxPoints,      \* MAX_POINTS
  MaxItems,       \* MAX_GLANCE_THRESHOLDS, MAX_PERFDATA_MAPPINGS, MAX_EVENT_CHANNELS
  Fields          \* message templates that parse: a function to their field names

\* TOML values.
Toml(type, n, s, of) == [type |-> type, n |-> n, s |-> s, of |-> of]
Absent    == Toml("absent", 0, "", <<>>)
Str(s)    == Toml("str", 0, s, <<>>)
Integer(n) == Toml("int", n, "", <<>>)
Float(n)  == Toml("float", n, "", <<>>)
Bool(b)   == Toml("bool", IF b THEN 1 ELSE 0, "", <<>>)
Array(vs) == Toml("list", 0, "", vs)
Table(f)  == Toml("table", 0, "", f)

IsA(v, type) == v.type = type
Numeric(v)   == v.type \in {"int", "float"}
At(v, key)   == IF IsA(v, "table") /\ key \in DOMAIN v.of THEN v.of[key] ELSE Absent
Has(v, key)  == At(v, key) # Absent
Items(v)     == IF IsA(v, "list") THEN v.of ELSE <<>>
Given(v)     == v # Absent
\* A list or table, or any text or number but the empty and the zero one.
Filled(v)    == IF v.type \in {"list", "table"} THEN v.of # <<>> ELSE v.n # 0 \/ v.s # ""
TextOf(v)    == IsA(v, "str") /\ v.s # "" /\ v.s \notin Long
IntIn(v, lo, hi) == IsA(v, "int") /\ v.n \in lo..hi

valid_name(v)    == IsA(v, "str") /\ v.s \in MonitorNames
valid_id(v)      == IsA(v, "str") /\ v.s \in Ids
is_identifier(v) == IsA(v, "str") /\ v.s \in Identifiers

Err(at, i, key, code) == [at |-> at, item |-> i, key |-> key, code |-> code]
When(cond, error)     == IF cond THEN {error} ELSE {}

UnknownKeys(v, allowed, at, i) ==
  IF IsA(v, "table") THEN {Err(at, i, k, "unknown_key") : k \in DOMAIN v.of \ allowed} ELSE {}
MissingNothing(v, required, at, i) == {}
MissingKeys(v, required, at, i) ==
  {Err(at, i, k, "missing_key") : k \in {k \in required : ~Has(v, k)}}

\* What every item of an array of tables reports: it has to be a table.
EachItem(items, at, Errors(_)) ==
  UNION {IF IsA(items[i], "table") THEN Errors(i) ELSE {Err(at, i, "", "invalid_type")}
         : i \in DOMAIN items}

\* A text that stands at i and that some earlier item already took.
TakenBefore(items, i, key, Taken(_)) ==
  \E j \in 1..(i - 1) : Taken(j) /\ At(items[j], key).s = At(items[i], key).s

\* _compile, _duration.
ExprCode(v, env) ==
  IF ~IsA(v, "str") THEN "invalid_type"
  ELSE IF v.s \notin DOMAIN Trees THEN "expr_syntax"
  ELSE CASE Compiles(Trees[v.s], env) = "ok"   -> "ok"
         [] Compiles(Trees[v.s], env) = "name" -> "unknown_name"
         [] OTHER                              -> "expr_syntax"
ExprErrors(v, env, at, i, key) ==
  When(ExprCode(v, env) # "ok", Err(at, i, key, ExprCode(v, env)))
Duration(v) == IF IsA(v, "str") /\ v.s \in DOMAIN Seconds THEN Seconds[v.s] ELSE -1
DurationErrors(v, minimum, at, i, key) ==
  When(Duration(v) < minimum, Err(at, i, key, IF IsA(v, "str") THEN "invalid_value" ELSE "invalid_type"))

----------------------------------------------------------------------------
(* [monitor], [parameters].                                                 *)

TOP_LEVEL_KEYS == {"schema", "monitor", "source_options", "parameters", "promotion", "derived",
                   "exempt", "rule", "trend", "glance"}
MONITOR_REQUIRED == {"name", "description", "version", "source", "platforms"}
MONITOR_KEYS == MONITOR_REQUIRED \cup {"enabled", "interval"}
PLATFORMS == {"linux", "windows", "darwin"}
MIN_INTERVAL_S == 15

Monitor(d)  == IF IsA(At(d, "monitor"), "table") THEN At(d, "monitor") ELSE Table(<<>>)
Source(d)   == IF IsA(At(Monitor(d), "source"), "str") THEN At(Monitor(d), "source").s ELSE "none"
IsEvents(d) == Source(d) = "events"
Interval(d) == Duration(At(Monitor(d), "interval"))

MonitorErrors(d) ==
  LET m == Monitor(d)
      Wrong(key, good(_)) == When(Has(m, key) /\ ~good(At(m, key)), Err("monitor", 0, key, "invalid_value"))
      Platforms(v) == /\ IsA(v, "list") /\ v.of # <<>>
                      /\ \A i \in DOMAIN v.of : IsA(v.of[i], "str") /\ v.of[i].s \in PLATFORMS
      Description(v) == IsA(v, "str") /\ v.s \notin Long
      Version(v) == IsA(v, "int") /\ v.n >= 1
      Enabled(v) == IsA(v, "bool")
      IsStr(v)   == IsA(v, "str")
  IN  UnknownKeys(d, TOP_LEVEL_KEYS, "", 0)
      \* Python compares by value: true and 1.0 are 1 too.
      \cup When(~Has(d, "schema"), Err("schema", 0, "", "missing_key"))
      \cup When(Has(d, "schema") /\ ~(At(d, "schema").type \in {"int", "float", "bool"}
                                      /\ At(d, "schema").n = 1), Err("schema", 0, "", "invalid_value"))
      \cup When(~IsA(At(d, "monitor"), "table"), Err("monitor", 0, "", "missing_key"))
      \cup UnknownKeys(m, MONITOR_KEYS, "monitor", 0) \cup MissingKeys(m, MONITOR_REQUIRED, "monitor", 0)
      \cup Wrong("name", valid_name) \cup Wrong("description", Description)
      \cup Wrong("version", Version) \cup Wrong("enabled", Enabled) \cup Wrong("platforms", Platforms)
      \cup Wrong("source", IsStr)
      \cup When(Source(d) \notin DOMAIN SOURCE_DECLS \cup {"none"}, Err("monitor", 0, "source", "unknown_source"))
      \cup (IF IsEvents(d) THEN When(Has(m, "interval"), Err("monitor", 0, "interval", "unknown_key"))
            ELSE IF Has(m, "interval")
            THEN DurationErrors(At(m, "interval"), MIN_INTERVAL_S, "monitor", 0, "interval")
            ELSE {Err("monitor", 0, "interval", "missing_key")})

\* A parameter that lacks its doc is reported, and still names a parameter.
KeptParam(d, p) ==
  LET v == At(At(d, "parameters"), p) IN p \in Identifiers /\ Numeric(At(v, "value"))
ParamNames(d) ==
  IF IsA(At(d, "parameters"), "table") THEN {p \in DOMAIN At(d, "parameters").of : KeptParam(d, p)} ELSE {}

ParameterErrors(d) ==
  LET t == At(d, "parameters")
      One(p) ==
        LET v == t.of[p] IN
        CASE p \notin Identifiers -> {Err("parameters", 0, p, "invalid_value")}
          [] ~IsA(v, "table")     -> {Err("parameters", 0, p, "invalid_type")}
          [] OTHER ->
               UnknownKeys(v, {"value", "doc"}, "parameter", 0)
               \cup (IF ~Has(v, "value") THEN {Err("parameter", 0, "value", "missing_key")}
                     ELSE IF ~Numeric(At(v, "value")) THEN {Err("parameter", 0, "value", "invalid_type")}
                     ELSE When(~IsA(At(v, "doc"), "str"), Err("parameter", 0, "doc",
                               IF Has(v, "doc") THEN "invalid_type" ELSE "missing_key")))
  IN  IF IsA(t, "table") THEN UNION {One(p) : p \in DOMAIN t.of}
      ELSE When(Given(t), Err("parameters", 0, "", "invalid_type"))

----------------------------------------------------------------------------
(* [source_options].                                                        *)

WATCHLIST_SOURCES == {"unit", "net"}
WATCHLIST_TARGET_KEYS == {"unit", "process", "listen"}
PERFDATA_KEYS == {"label", "metric", "plugin_uom", "unit", "kind", "scale"}

Options(d) == IF IsA(At(d, "source_options"), "table") THEN At(d, "source_options") ELSE Table(<<>>)
AllowedOptions(source) ==
  CASE source \in WATCHLIST_SOURCES -> {"watchlist"}
    [] source = "process"           -> {"top_n"}
    [] source = "external"          -> {"check", "entity", "perfdata"}
    [] source = "events"            -> {"channels", "store_min_severity"}
    [] OTHER                        -> {}

WatchlistErrors(d) ==
  LET list == Items(At(Options(d), "watchlist"))
      Entry(i) ==
        UnknownKeys(list[i], WATCHLIST_TARGET_KEYS \cup {"during", "expected"}, "watchlist", i)
        \cup When(Cardinality({k \in WATCHLIST_TARGET_KEYS : Has(list[i], k)}) # 1,
                  Err("watchlist", i, "", "invalid_value"))
        \cup When(Has(list[i], "expected") /\ ~IsA(At(list[i], "expected"), "bool"),
                  Err("watchlist", i, "expected", "invalid_type"))
  IN  When(At(Options(d), "watchlist").type \notin {"absent", "list"}, Err("watchlist", 0, "", "invalid_type"))
      \cup EachItem(list, "watchlist", Entry)

Mappings(d) == Items(At(Options(d), "perfdata"))
\* A label or a metric is taken by the first item that names it properly,
\* whatever else is wrong with that item.
LabelOk(d, i) ==
  LET ms == Mappings(d)
      Good(j) == IsA(At(ms[j], "label"), "str") /\ At(ms[j], "label").s # ""
  IN  Good(i) /\ ~TakenBefore(ms, i, "label", Good)
FixedMetrics == {"plugin_state", "plugin_ok", "duration_s"}
MetricOk(d, i) ==
  LET ms == Mappings(d)
      Good(j) == is_identifier(At(ms[j], "metric")) /\ At(ms[j], "metric").s \notin FixedMetrics
  IN  Good(i) /\ ~TakenBefore(ms, i, "metric", Good)
MappingOk(d, i) ==
  LET item == Mappings(d)[i] IN
  /\ LabelOk(d, i) /\ MetricOk(d, i)
  /\ TextOf(At(item, "plugin_uom")) /\ TextOf(At(item, "unit"))
  /\ IsA(At(item, "kind"), "str") /\ At(item, "kind").s \in {"gauge", "counter"}
  /\ Has(item, "scale") => Numeric(At(item, "scale")) /\ At(item, "scale").n \in -Largest..Largest

ExternalErrors(d) ==
  LET ms == Mappings(d)
      One(i) ==
        UnknownKeys(ms[i], PERFDATA_KEYS, "perfdata", i)
        \cup MissingKeys(ms[i], PERFDATA_KEYS \ {"scale"}, "perfdata", i)
        \cup When(~MappingOk(d, i), Err("perfdata", i, "", "invalid_value"))
  IN  When(~valid_name(At(Options(d), "check")), Err("source_options", 0, "check", "invalid_value"))
      \cup When(~TextOf(At(Options(d), "entity")), Err("source_options", 0, "entity", "invalid_value"))
      \cup When(At(Options(d), "perfdata").type \notin {"absent", "list"},
                Err("source_options", 0, "perfdata", "invalid_type"))
      \cup When(Len(ms) > MaxItems, Err("source_options", 0, "perfdata", "too_many_items"))
      \cup EachItem(ms, "perfdata", One)

\* external_decl: the fixed metrics and those of the mappings that are right.
ExternalMetrics(d) ==
  FixedMetrics \cup {At(Mappings(d)[i], "metric").s :
                     i \in {i \in DOMAIN Mappings(d) : IsA(Mappings(d)[i], "table") /\ MappingOk(d, i)}}

Channels(d) == Items(At(Options(d), "channels"))
ChannelPathOk(d, i) ==
  LET Good(j) == TextOf(At(Channels(d)[j], "path"))
  IN  Good(i) /\ ~TakenBefore(Channels(d), i, "path", Good)

EventsErrors(d) ==
  LET cs == Channels(d)
      floor == At(Options(d), "store_min_severity")
      One(i) ==
        UnknownKeys(cs[i], {"path", "query"}, "channels", i)
        \cup When(~ChannelPathOk(d, i), Err("channels", i, "path", "invalid_value"))
        \cup When(ChannelPathOk(d, i) /\ Has(cs[i], "query")
                  /\ ~(IsA(At(cs[i], "query"), "str") /\ At(cs[i], "query").s \notin Long),
                  Err("channels", i, "query", "invalid_value"))
  IN  When(At(Options(d), "channels").type \notin {"absent", "list"}, Err("channels", 0, "", "invalid_type"))
      \cup When(Len(cs) > MaxItems, Err("channels", 0, "", "too_many_items"))
      \cup EachItem(cs, "channels", One)
      \cup When(Given(floor) /\ ~IntIn(floor, 0, 4)
                /\ ~(IsA(floor, "str") /\ floor.s \in {"info", "notice", "warning", "error", "critical"}),
                Err("source_options", 0, "store_min_severity", "invalid_value"))

OptionErrors(d) ==
  When(Given(At(d, "source_options")) /\ ~IsA(At(d, "source_options"), "table"),
       Err("source_options", 0, "", "invalid_type"))
  \cup UnknownKeys(Options(d), AllowedOptions(Source(d)), "source_options", 0)
  \cup CASE Source(d) \in WATCHLIST_SOURCES -> WatchlistErrors(d)
         [] Source(d) = "process"  -> When(Has(Options(d), "top_n") /\ ~IntIn(At(Options(d), "top_n"), 5, 50),
                                           Err("source_options", 0, "top_n", "invalid_value"))
         [] Source(d) = "external" -> ExternalErrors(d)
         [] Source(d) = "events"   -> EventsErrors(d)
         [] OTHER                  -> {}

----------------------------------------------------------------------------
(* Names, [promotion], [[derived]], exempt.                                  *)

SourceMetrics(d) == IF Source(d) = "external" THEN ExternalMetrics(d)
                    ELSE IF Source(d) \in DOMAIN SOURCE_DECLS THEN SOURCE_DECLS[Source(d)].metrics ELSE {}
SourceAttrs(d)   == IF Source(d) \in DOMAIN SOURCE_DECLS THEN SOURCE_DECLS[Source(d)].attrs ELSE {}
NameEnv(d, more) == [metrics |-> SourceMetrics(d) \cup more, attrs |-> SourceAttrs(d),
                     params |-> ParamNames(d)]

PromotionErrors(d) ==
  LET p == At(d, "promotion") IN
  IF ~Given(p) THEN {}
  ELSE When(Source(d) # "process", Err("promotion", 0, "", "unknown_key"))
       \cup When(~IsA(p, "table"), Err("promotion", 0, "", "invalid_type"))
       \cup UnknownKeys(p, {"expr"}, "promotion", 0)
       \cup (IF Source(d) # "process" THEN {}
             ELSE IF Has(p, "expr") THEN ExprErrors(At(p, "expr"), NameEnv(d, {}), "promotion", 0, "expr")
             ELSE {Err("promotion", 0, "expr", "missing_key")})

DerivedItems(d) == IF IsEvents(d) THEN <<>> ELSE Items(At(d, "derived"))
\* A name is taken by an item that is right in itself.
DerivedOk(d, i) ==
  LET ds == DerivedItems(d)
      Good(j) == /\ is_identifier(At(ds[j], "name")) /\ At(ds[j], "name").s \notin SourceMetrics(d)
                 /\ IsA(At(ds[j], "expr"), "str")
  IN  Good(i) /\ ~TakenBefore(ds, i, "name", Good)
\* derived_entries, in the order of the file: <<name, expression text>>.
Entries(d) ==
  LET Ok(i) == IsA(DerivedItems(d)[i], "table") /\ DerivedOk(d, i)
      kept  == SelectSeq([i \in DOMAIN DerivedItems(d) |-> i], Ok)
  IN  [k \in DOMAIN kept |-> <<At(DerivedItems(d)[kept[k]], "name").s, At(DerivedItems(d)[kept[k]], "expr")>>]

\* One pass over the names that remain.  An entry whose names are all known is
\* next in the order; one with an unknown name waits for the next pass; any
\* other error drops the entry for good.
TryEntry(d, st, entry) ==
  LET code == ExprCode(entry[2], NameEnv(d, {st.order[k][1] : k \in DOMAIN st.order})) IN
  CASE code = "ok"           -> [st EXCEPT !.order = Append(@, entry)]
    [] code = "unknown_name" -> [st EXCEPT !.left = Append(@, entry)]
    [] OTHER                 -> [st EXCEPT !.bad = @ \cup {entry[1]}]
Pass(d, st) ==
  FoldLeft(LAMBDA acc, entry : TryEntry(d, acc, entry), [st EXCEPT !.left = <<>>], st.left)
\* Passes go on while one makes progress; as many as entries always suffice.
Ordered(d) ==
  FoldLeft(LAMBDA st, k : Pass(d, st), [order |-> <<>>, left |-> Entries(d), bad |-> {}],
           [k \in 1..Len(Entries(d)) |-> k])
DerivedNames(d) == {Ordered(d).order[k][1] : k \in DOMAIN Ordered(d).order}

DerivedErrors(d) ==
  LET ds == DerivedItems(d)
      One(i) == UnknownKeys(ds[i], {"name", "expr"}, "derived", i)
                \cup When(~DerivedOk(d, i), Err("derived", i, "", "invalid_value"))
  IN  IF ~Given(At(d, "derived")) \/ ~Filled(At(d, "derived")) THEN {}
      ELSE IF IsEvents(d) THEN {Err("derived", 0, "", "unknown_key")}
      ELSE IF ~IsA(At(d, "derived"), "list") THEN {Err("derived", 0, "", "invalid_type")}
      ELSE EachItem(ds, "derived", One)
           \cup {Err("derived", 0, name, "expr_syntax") : name \in Ordered(d).bad}
           \cup When(Ordered(d).left # <<>>, Err("derived", 0, "", "derived_cycle"))

ExemptIsTexts(d) ==
  IsA(At(d, "exempt"), "list") /\ \A i \in DOMAIN Items(At(d, "exempt")) : IsA(Items(At(d, "exempt"))[i], "str")
ExemptTexts(d) == IF ExemptIsTexts(d) /\ ~IsEvents(d) THEN At(d, "exempt").of ELSE <<>>
ExemptErrors(d) ==
  CASE ~Has(d, "exempt")  -> {}
    [] IsEvents(d)        -> {Err("exempt", 0, "", "unknown_key")}
    [] ~ExemptIsTexts(d)  -> {Err("exempt", 0, "", "invalid_type")}
    [] OTHER -> UNION {ExprErrors(ExemptTexts(d)[i], NameEnv(d, {}), "exempt", i, "") : i \in DOMAIN ExemptTexts(d)}

----------------------------------------------------------------------------
(* [[rule]].                                                                *)

RULE_REQUIRED == {"id", "when", "severity", "message"}
RULE_KEYS_COMMON == RULE_REQUIRED \cup {"group", "action", "notify_recovery"}
RULE_KEYS_SAMPLER == {"confirm_cycles", "clear_cycles"}
RULE_KEYS_EVENT == {"cooldown", "clear_after", "confirm_count", "confirm_window"}
RULE_SEVERITIES == {"notice", "warning", "error", "critical"}

RuleItems(d) == Items(At(d, "rule"))
RuleEnv(d) == NameEnv(d, DerivedNames(d))
MessageFields(d) == RuleEnv(d).metrics \cup SourceAttrs(d) \cup ParamNames(d) \cup {"entity", "monitor", "severity"}

RuleIdOk(d, i) ==
  LET Good(j) == valid_id(At(RuleItems(d)[j], "id"))
  IN  Good(i) /\ ~TakenBefore(RuleItems(d), i, "id", Good)
RuleCompiles(d, i) == ExprCode(At(RuleItems(d)[i], "when"), RuleEnv(d)) = "ok"
SeverityOk(item) == IsA(At(item, "severity"), "str") /\ At(item, "severity").s \in RULE_SEVERITIES
\* The group a rule ends up in: its own id unless it names a valid one.
GroupOf(item) == IF valid_id(At(item, "group")) THEN At(item, "group").s ELSE At(item, "id").s

MessageErrors(d, i, v) ==
  CASE ~IsA(v, "str") \/ v.s = "" -> {Err("rule", i, "message", "invalid_type")}
    [] OTHER ->
         When(v.s \in Long, Err("rule", i, "message", "invalid_value"))
         \cup (IF v.s \notin DOMAIN Fields THEN {Err("rule", i, "message", "bad_template")}
               ELSE UNION {When(f \notin Identifiers, Err("rule", i, "message", "bad_template"))
                           \cup When(f \in Identifiers \ MessageFields(d),
                                     Err("rule", i, "message", "unknown_field")) : f \in Fields[v.s]})

CycleErrors(i, item, key) ==
  When(Has(item, key) /\ ~IntIn(At(item, key), 1, 60), Err("rule", i, key, "invalid_value"))
EventTimingErrors(i, item) ==
  UNION {IF Has(item, key) THEN DurationErrors(At(item, key), 0, "rule", i, key) ELSE {}
         : key \in {"cooldown", "clear_after", "confirm_window"}}
  \cup When(Has(item, "confirm_count") /\ ~(IsA(At(item, "confirm_count"), "int") /\ At(item, "confirm_count").n >= 1),
            Err("rule", i, "confirm_count", "invalid_value"))

\* An action is a file name: Identifiers stand for those without separators.
ActionErrors(i, v) ==
  When(Given(v) /\ ~(IsA(v, "str") /\ v.s \in Identifiers), Err("rule", i, "action", "invalid_value"))

RuleErrors(d) ==
  LET rs == RuleItems(d)
      One(i) ==
        LET item == rs[i] IN
        UnknownKeys(item, RULE_KEYS_COMMON \cup (IF IsEvents(d) THEN RULE_KEYS_EVENT ELSE RULE_KEYS_SAMPLER), "rule", i)
        \cup MissingKeys(item, RULE_REQUIRED, "rule", i)
        \cup When(~RuleIdOk(d, i), Err("rule", i, "id", "invalid_value"))
        \cup When(Has(item, "group") /\ ~valid_id(At(item, "group")), Err("rule", i, "group", "invalid_value"))
        \cup (IF Has(item, "when") THEN ExprErrors(At(item, "when"), RuleEnv(d), "rule", i, "when") ELSE {})
        \cup When(Has(item, "severity") /\ ~SeverityOk(item), Err("rule", i, "severity", "invalid_value"))
        \cup (IF IsEvents(d) THEN EventTimingErrors(i, item)
              ELSE CycleErrors(i, item, "confirm_cycles") \cup CycleErrors(i, item, "clear_cycles"))
        \cup (IF Has(item, "message") THEN MessageErrors(d, i, At(item, "message")) ELSE {})
        \cup ActionErrors(i, At(item, "action"))
        \cup When(Has(item, "notify_recovery") /\ ~IsA(At(item, "notify_recovery"), "bool"),
                  Err("rule", i, "notify_recovery", "invalid_type"))
  IN  When(Given(At(d, "rule")) /\ Filled(At(d, "rule")) /\ ~IsA(At(d, "rule"), "list"), Err("rule", 0, "", "invalid_type"))
      \cup EachItem(rs, "rule", One)

\* The rules that are kept are those with an id, a condition and a severity.
RuleKept(d, i) == /\ IsA(RuleItems(d)[i], "table")
                  /\ RuleIdOk(d, i) /\ RuleCompiles(d, i) /\ SeverityOk(RuleItems(d)[i])
Rules(d) ==
  LET kept == SelectSeq([i \in DOMAIN RuleItems(d) |-> i], LAMBDA i : RuleKept(d, i))
      cycles(item, key, default) == IF IntIn(At(item, key), 1, 60) THEN At(item, key).n ELSE default
  IN  [k \in DOMAIN kept |->
        LET item == RuleItems(d)[kept[k]]
            confirm == cycles(item, "confirm_cycles", 1)
        IN  [id |-> At(item, "id").s, group |-> GroupOf(item), when |-> At(item, "when").s,
             severity |-> At(item, "severity").s, confirm |-> confirm,
             clear |-> IF Has(item, "clear_cycles") THEN cycles(item, "clear_cycles", 1) ELSE confirm,
             action |-> IF Has(item, "action") THEN At(item, "action").s ELSE "none"]]

----------------------------------------------------------------------------
(* [glance], [[trend]]: display metadata over the names above.               *)

PersistedMetrics(d) == SourceMetrics(d) \cup DerivedNames(d)
NamesMetric(d, v) == IsA(v, "str") /\ v.s \in PersistedMetrics(d)
NamesParam(d, v)  == IsA(v, "str") /\ v.s \in ParamNames(d)

\* Only the first MaxItems thresholds are looked at.
Thresholds(d) ==
  LET all == Items(At(At(d, "glance"), "thresholds")) IN SubSeq(all, 1, IF Len(all) < MaxItems THEN Len(all) ELSE MaxItems)
ThresholdOk(d, i) ==
  LET ts == Thresholds(d)
      Label(j) == TextOf(At(ts[j], "label"))
      Param(j) == NamesParam(d, At(ts[j], "parameter"))
  IN  Label(i) /\ Param(i) /\ ~TakenBefore(ts, i, "label", Label) /\ ~TakenBefore(ts, i, "parameter", Param)
AggregateOk(v) == IsA(v, "str") /\ v.s \in {"max", "min"}

GlanceErrors(d) ==
  LET g == At(d, "glance")
      One(i) == UnknownKeys(Thresholds(d)[i], {"label", "parameter"}, "thresholds", i)
                \cup MissingKeys(Thresholds(d)[i], {"label", "parameter"}, "thresholds", i)
                \cup When(~ThresholdOk(d, i), Err("thresholds", i, "", "invalid_value"))
  IN  IF ~Given(g) THEN {}
      ELSE When(IsEvents(d), Err("glance", 0, "", "unknown_key"))
           \cup When(~IsA(g, "table"), Err("glance", 0, "", "invalid_type"))
           \cup UnknownKeys(g, {"metric", "unit", "aggregate", "thresholds"}, "glance", 0)
           \cup MissingKeys(g, {"metric", "unit", "aggregate"}, "glance", 0)
           \cup When(~NamesMetric(d, At(g, "metric")), Err("glance", 0, "metric", "unknown_name"))
           \cup When(~TextOf(At(g, "unit")), Err("glance", 0, "unit", "invalid_value"))
           \cup When(~AggregateOk(At(g, "aggregate")), Err("glance", 0, "aggregate", "invalid_value"))
           \cup When(At(g, "thresholds").type \notin {"absent", "list"}, Err("glance", 0, "thresholds", "invalid_type"))
           \cup When(Len(Items(At(g, "thresholds"))) > MaxItems, Err("glance", 0, "thresholds", "too_many_items"))
           \cup EachItem(Thresholds(d), "thresholds", One)

TREND_REQUIRED == {"id", "kind", "title", "value_metric", "value_unit", "rate_metric", "rate_unit"}
TREND_KEYS == TREND_REQUIRED \cup {"confidence_metric", "confidence_threshold_param", "remaining_metric",
                "value_threshold_params", "rate_threshold_params", "incident_group"}
TrendItems(d) == IF IsEvents(d) THEN <<>> ELSE Items(At(d, "trend"))
TrendIdOk(d, i) ==
  LET Good(j) == valid_id(At(TrendItems(d)[j], "id"))
  IN  Good(i) /\ ~TakenBefore(TrendItems(d), i, "id", Good)
TrendKind(item) == IF IsA(At(item, "kind"), "str") THEN At(item, "kind").s ELSE "none"
ParamListOk(d, v) ==
  Given(v) => IsA(v, "list") /\ \A i \in DOMAIN v.of : NamesParam(d, v.of[i])
TrendKept(d, i) ==
  LET item == TrendItems(d)[i] IN
  /\ IsA(item, "table") /\ TrendIdOk(d, i) /\ TrendKind(item) \in {"growth", "capacity"}
  /\ \A key \in {"title", "value_unit", "rate_unit"} : TextOf(At(item, key))
  /\ \A key \in {"value_metric", "rate_metric"} : NamesMetric(d, At(item, key))

TrendErrors(d) ==
  LET ts == TrendItems(d)
      groups == {Rules(d)[k].group : k \in DOMAIN Rules(d)}
      One(i) ==
        LET item == ts[i]
            confidence == NamesMetric(d, At(item, "confidence_metric"))
            threshold  == NamesParam(d, At(item, "confidence_threshold_param"))
            remaining  == NamesMetric(d, At(item, "remaining_metric"))
        IN  UnknownKeys(item, TREND_KEYS, "trend", i) \cup MissingKeys(item, TREND_REQUIRED, "trend", i)
            \cup When(~TrendIdOk(d, i), Err("trend", i, "id", "invalid_value"))
            \cup When(TrendKind(item) \notin {"growth", "capacity"}, Err("trend", i, "kind", "invalid_value"))
            \cup {Err("trend", i, key, "invalid_value") :
                   key \in {key \in {"title", "value_unit", "rate_unit"} : ~TextOf(At(item, key))}}
            \cup {Err("trend", i, key, "unknown_name") :
                   key \in {key \in {"value_metric", "rate_metric"} : ~NamesMetric(d, At(item, key))}}
            \cup {Err("trend", i, key, "unknown_name") :
                   key \in {key \in {"confidence_metric", "remaining_metric"} :
                            Has(item, key) /\ ~NamesMetric(d, At(item, key))}}
            \cup When(Has(item, "confidence_threshold_param") /\ ~threshold,
                      Err("trend", i, "confidence_threshold_param", "unknown_name"))
            \cup When(confidence # threshold, Err("trend", i, "confidence", "invalid_value"))
            \cup When(TrendKind(item) = "capacity" /\ ~remaining, Err("trend", i, "remaining_metric", "missing_key"))
            \cup When(TrendKind(item) = "growth" /\ remaining, Err("trend", i, "remaining_metric", "invalid_value"))
            \cup {Err("trend", i, key, "unknown_name") :
                   key \in {key \in {"value_threshold_params", "rate_threshold_params"} :
                            ~ParamListOk(d, At(item, key))}}
            \cup When(Has(item, "incident_group") /\ ~(IsA(At(item, "incident_group"), "str")
                                                       /\ At(item, "incident_group").s \in groups),
                      Err("trend", i, "incident_group", "unknown_name"))
      given == Given(At(d, "trend")) /\ Filled(At(d, "trend"))
  IN  When(given /\ IsEvents(d), Err("trend", 0, "", "unknown_key"))
      \cup When(given /\ ~IsEvents(d) /\ ~IsA(At(d, "trend"), "list"), Err("trend", 0, "", "invalid_type"))
      \cup EachItem(ts, "trend", One)

----------------------------------------------------------------------------
(* Windows, and the whole.                                                  *)

\* The union of what every kept expression looks back over.
AllWindows(d) ==
  LET Of(v, env) == IF ExprCode(v, env) = "ok" THEN Windows(Trees[v.s]) ELSE {}
      order      == Ordered(d).order
  IN  (IF Source(d) = "process" THEN Of(At(At(d, "promotion"), "expr"), NameEnv(d, {})) ELSE {})
      \cup UNION {Windows(Trees[order[k][2].s]) : k \in DOMAIN order}
      \cup UNION {Of(ExemptTexts(d)[i], NameEnv(d, {})) : i \in DOMAIN ExemptTexts(d)}
      \cup UNION {Windows(Trees[Rules(d)[k].when]) : k \in DOMAIN Rules(d)}

WindowErrors(d) ==
  IF IsEvents(d) \/ Interval(d) < MIN_INTERVAL_S THEN {}
  ELSE UNION {When(w[2] > MaxPoints * Interval(d), Err("windows", 0, w[1], "points_overflow")) : w \in AllWindows(d)}

Errors(d) ==
  MonitorErrors(d) \cup ParameterErrors(d) \cup OptionErrors(d) \cup PromotionErrors(d) \cup DerivedErrors(d)
  \cup ExemptErrors(d) \cup RuleErrors(d) \cup GlanceErrors(d) \cup TrendErrors(d) \cup WindowErrors(d)

\* What makes Python raise instead of report: three lookups ask whether a value
\* is in a set before its type is known, and a list or a table cannot be
\* hashed; a false number passes for an empty array of tables and is iterated.
Unhashable(v) == v.type \in {"list", "table"}
Raises(d) ==
  \/ \E key \in {"rule", "trend"} : At(d, key).type \in {"int", "float", "bool"} /\ At(d, key).n = 0
  \/ Source(d) = "external" /\ \E i \in DOMAIN Mappings(d) : Unhashable(At(Mappings(d)[i], "kind"))
  \/ Unhashable(At(At(d, "glance"), "aggregate"))
  \/ \E i \in DOMAIN TrendItems(d) : Unhashable(At(TrendItems(d)[i], "kind"))
                                     \/ Unhashable(At(TrendItems(d)[i], "incident_group"))

MonitorDef(d) ==
  [name |-> At(Monitor(d), "name").s, source |-> Source(d),
   enabled |-> ~Has(Monitor(d), "enabled") \/ At(Monitor(d), "enabled").n = 1,
   params |-> ParamNames(d), derived |-> Ordered(d).order, rules |-> Rules(d),
   thresholds |-> SelectSeq([i \in DOMAIN Thresholds(d) |-> i],
                            LAMBDA i : IsA(Thresholds(d)[i], "table") /\ ThresholdOk(d, i)),
   trends |-> SelectSeq([i \in DOMAIN TrendItems(d) |-> i], LAMBDA i : TrendKept(d, i)),
   windows |-> AllWindows(d)]

\* load_text: what a document that parses comes to.  Active loads also ask for
\* the scripts of the rules and the check alias.
ActionsMissing(def, actions) ==
  {k \in DOMAIN def.rules : def.rules[k].action \notin actions \cup {"none"}}
load_text(d, active, actions, aliases) ==
  CASE Raises(d)         -> "raises"
    [] Errors(d) # {}    -> "invalid"
    [] active /\ ActionsMissing(MonitorDef(d), actions) # {}                             -> "action_unavailable"
    [] active /\ Source(d) = "external" /\ At(Options(d), "check").s \notin aliases      -> "check_unavailable"
    [] OTHER             -> "ok"

----------------------------------------------------------------------------
(* What may be said of it.                                                  *)

\* An accepted definition is all of the file: the sections go on after an
\* error and leave out what they could not use, and no item is left out
\* without an error.  Its derived metrics stand in an order in which each only
\* reads what is there before it, and whatever a section names exists.
AcceptedIsWhole(d) ==
  ~Raises(d) /\ Errors(d) = {} =>
    LET def == MonitorDef(d)
        order == def.derived
        groups == {def.rules[k].group : k \in DOMAIN def.rules}
    IN  /\ valid_name(At(Monitor(d), "name"))
        /\ Len(def.rules) = Len(RuleItems(d)) /\ Len(order) = Len(DerivedItems(d))
        /\ Len(def.trends) = Len(TrendItems(d))
        /\ Len(def.thresholds) = Len(Items(At(At(d, "glance"), "thresholds")))
        /\ \A k \in DOMAIN order :
             ExprCode(order[k][2], NameEnv(d, {order[j][1] : j \in 1..(k - 1)})) = "ok"
        /\ \A j, k \in DOMAIN def.rules : j # k => def.rules[j].id # def.rules[k].id
        /\ \A k \in DOMAIN TrendItems(d) :
             LET item == TrendItems(d)[k] IN
             /\ Has(item, "incident_group") => At(item, "incident_group").s \in groups
             /\ TrendKind(item) = "capacity" <=> Has(item, "remaining_metric")
             /\ Has(item, "confidence_metric") <=> Has(item, "confidence_threshold_param")
        /\ IsEvents(d) \/ \A w \in def.windows : w[2] <= MaxPoints * Interval(d)
=============================================================================
