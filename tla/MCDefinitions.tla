--------------------------- MODULE MCDefinitions ---------------------------
(***************************************************************************)
(* Small instances of Definitions.  What the loader makes of a body is the  *)
(* verdict of DefinitionLoader on a document; besides the installation, the *)
(* texts that "ftmon check" is given are examined, one at a time.           *)
(***************************************************************************)
EXTENDS Definitions, DefinitionLoader

CONSTANTS Swap   \* whether a file may change the table its monitor is in

VARIABLE doc     \* the document ftmon check looks at, or Absent

----------------------------------------------------------------------------
(* The vocabulary of the documents.                                         *)

MCSeconds == ("60s" :> 60) @@ ("5m" :> 300) @@ ("10h" :> 36000)
MCMonitorNames == {"disk", "mail"}
MCIds == {"r1", "r2"}
MCIdentifiers == {"used", "free", "warn", "a", "b", "c", "entity", "run_me"}
MCLong == {"long"}
MCSources ==
  [process |-> [metrics |-> {"used", "free"}, attrs |-> {"user"}],
   unit    |-> [metrics |-> {"active"}, attrs |-> {"user"}],
   external |-> [metrics |-> {"plugin_ok"}, attrs |-> {"plugin_message"}],
   events  |-> [metrics |-> {}, attrs |-> {"message"}]]
MCFields == ("hi {entity}" :> {"entity"}) @@ ("at {used}" :> {"used"}) @@ ("{a.b}" :> {"a.b"})
MCTrees ==
  [used |-> Name("used"), a |-> Name("a"), b |-> Name("b"), c |-> Name("c")]
  @@ ("used > warn" :> Cmp(<<Name("used"), Name("warn")>>, <<">">>))
  @@ ("plugin_ok < 1" :> Cmp(<<Name("plugin_ok"), Lit(Num(10))>>, <<"<">>))
  @@ ("active < 1" :> Cmp(<<Name("active"), Lit(Num(10))>>, <<"<">>))
  @@ ("contains(message, user)" :> Call("contains", <<Name("message"), Lit(Text("x"))>>))
  @@ ("slope(used, 5m)" :> Call("slope", <<Name("used"), Lit(Text("5m"))>>))
  @@ ("slope(b, 5m)" :> Call("slope", <<Name("b"), Lit(Text("5m"))>>))
  @@ ("used.x" :> Foreign)

T(f) == Table(f)
Rule(id, when, more) ==
  T([id |-> Str(id), when |-> Str(when), severity |-> Str("warning"), message |-> Str("hi {entity}")] @@ more)
Head_(name, source, more) ==
  T([name |-> Str(name), description |-> Str("text"), version |-> Integer(1), source |-> Str(source),
     platforms |-> Array(<<Str("linux")>>)] @@ more)
Every == [interval |-> Str("60s")]
Derived(name, expr) == T([name |-> Str(name), expr |-> Str(expr)])

SamplerDoc ==
  T([schema |-> Integer(1), monitor |-> Head_("disk", "process", Every @@ [enabled |-> Bool(TRUE)]),
     parameters |-> T([warn |-> T([value |-> Float(9), doc |-> Str("text")])]),
     source_options |-> T([top_n |-> Integer(5)]),
     promotion |-> T([expr |-> Str("slope(used, 5m)")]),
     exempt |-> Array(<<Str("used > warn")>>),
     derived |-> Array(<<Derived("a", "b"), Derived("b", "slope(used, 5m)")>>),
     rule |-> Array(<<Rule("r1", "a", [confirm_cycles |-> Integer(3), action |-> Str("run_me")]),
                      Rule("r2", "used > warn", [group |-> Str("r1"), clear_cycles |-> Integer(2)])>>),
     glance |-> T([metric |-> Str("a"), unit |-> Str("x"), aggregate |-> Str("max"),
                   thresholds |-> Array(<<T([label |-> Str("x"), parameter |-> Str("warn")])>>)]),
     trend |-> Array(<<T([id |-> Str("r1"), kind |-> Str("capacity"), title |-> Str("x"),
                          value_metric |-> Str("used"), value_unit |-> Str("x"), rate_metric |-> Str("a"),
                          rate_unit |-> Str("x"), remaining_metric |-> Str("free"),
                          confidence_metric |-> Str("b"), confidence_threshold_param |-> Str("warn"),
                          value_threshold_params |-> Array(<<Str("warn")>>), incident_group |-> Str("r1")])>>)])
ExternalDoc ==
  T([schema |-> Integer(1), monitor |-> Head_("mail", "external", Every),
     source_options |-> T([check |-> Str("disk"), entity |-> Str("x"), perfdata |-> Array(<<
        T([label |-> Str("x"), metric |-> Str("used"), plugin_uom |-> Str("x"), unit |-> Str("x"),
           kind |-> Str("gauge"), scale |-> Float(2)])>>)]),
     rule |-> Array(<<Rule("r1", "plugin_ok < 1", [notify_recovery |-> Bool(FALSE)])>>)])
EventsDoc ==
  T([schema |-> Integer(1), monitor |-> Head_("mail", "events", <<>>),
     source_options |-> T([channels |-> Array(<<T([path |-> Str("x"), query |-> Str("y")]), T([path |-> Str("y")])>>),
                           store_min_severity |-> Str("warning")]),
     rule |-> Array(<<Rule("r1", "contains(message, user)",
                           [cooldown |-> Str("5m"), confirm_count |-> Integer(2), confirm_window |-> Str("60s")])>>)])
UnitDoc ==
  T([schema |-> Integer(1), monitor |-> Head_("disk", "unit", Every),
     source_options |-> T([watchlist |-> Array(<<T([unit |-> Str("x"), expected |-> Bool(TRUE)])>>)]),
     rule |-> Array(<<Rule("r1", "active < 1", <<>>)>>)])

\* All documents with one fault: a key that is missing, added or wrong, an
\* item that is missing or given twice.
Pool == {Str(""), Str("long"), Str("x"), Str("r1"), Str("10h"), Str("slope(b, 5m)"), Integer(0), Integer(1),
         Bool(FALSE), Array(<<>>), Array(<<Str("used.x")>>), Table(<<>>)}
RECURSIVE OneFault(_)
OneFault(v) ==
  Pool \cup
  CASE v.type = "table" -> {T(("extra" :> Integer(1)) @@ v.of)}
         \cup {T([k \in DOMAIN v.of \ {key} |-> v.of[k]]) : key \in DOMAIN v.of}
         \cup UNION {{T((key :> w) @@ v.of) : w \in OneFault(v.of[key])} : key \in DOMAIN v.of}
    [] v.type = "list" -> {Array(RemoveAt(v.of, i)) : i \in DOMAIN v.of} \cup {Array(v.of \o v.of)}
         \cup UNION {{Array([v.of EXCEPT ![i] = w]) : w \in OneFault(v.of[i])} : i \in DOMAIN v.of}
    [] OTHER -> {}

\* All ways in which three derived metrics may refer to each other.
DerivedTexts == {"used", "a", "b", "c", "slope(b, 5m)"}
DerivedDocs ==
  {T([SamplerDoc.of EXCEPT !["derived"] = Array(<<Derived("a", x), Derived("b", y), Derived("c", z)>>)])
   : x, y, z \in DerivedTexts}

Documents == DerivedDocs \cup {d \in UNION {OneFault(b) : b \in {SamplerDoc, ExternalDoc, EventsDoc, UnitDoc}} :
                               IsA(d, "table")}

----------------------------------------------------------------------------
(* The bodies: two versions of a sampler monitor, an external and an event  *)
(* monitor, a body the validator rejects, one that makes it raise.          *)

Edited(d, key, v) == T((key :> v) @@ d.of)
BodyDocs ==
  [v1 |-> SamplerDoc, v2 |-> Edited(SamplerDoc, "exempt", Array(<<>>)), ext |-> ExternalDoc, ev |-> EventsDoc,
   bad |-> Edited(SamplerDoc, "typo", Integer(1)), boom |-> Edited(SamplerDoc, "rule", Integer(0))]
AboutBody(b) ==
  LET d == BodyDocs[b]
      verdict == load_text(d, FALSE, {}, {})
  IN  [name |-> At(Monitor(d), "name").s,
       kind |-> CASE Source(d) = "external" -> "external" [] Source(d) = "events" -> "event" [] OTHER -> "sampler",
       verdict |-> IF verdict \in {"ok", "raises"} THEN verdict ELSE "invalid",
       alias |-> IF Source(d) = "external" THEN At(Options(d), "check").s ELSE "none"]
Sampler(verdict) == [name |-> "disk", kind |-> "sampler", verdict |-> verdict, alias |-> "none"]
MCAbout ==
  [v1 |-> Sampler("ok"), v2 |-> Sampler("ok"), bad |-> Sampler("invalid"), boom |-> Sampler("raises"),
   ext |-> [name |-> "mail", kind |-> "external", verdict |-> "ok", alias |-> "disk"],
   ev  |-> [name |-> "mail", kind |-> "event", verdict |-> "ok", alias |-> "none"]]
ASSUME VerdictsOfTheLoader == \A b \in Bodies : MCAbout[b] = AboutBody(b)
MCStems == <<"disk", "mail">>
MCRecipe == [stem |-> "mail", body |-> "ext", aliases |-> {"disk"}]
MCRegexes == [x |-> {"x"}]
MCRank == [x |-> 1]
MCDays == ("22:00-06:00" :> <<1320, 360>>)

----------------------------------------------------------------------------
(* A text is examined before anything happened: the verdict depends on       *)
(* nothing but the text.                                                    *)

CheckText == doc = Absent /\ edits = 0 /\ crashes = 0 /\ ~up /\ doc' \in Documents /\ UNCHANGED vars
Examined  == doc # Absent /\ doc' = Absent /\ UNCHANGED vars
MCInit == Init /\ doc = Absent
MCNext == (doc = Absent /\ Next /\ (Swap \/ KeepsTable) /\ UNCHANGED doc) \/ CheckText \/ Examined
\* The daemon rescans every 30 s, at the start of a tick, and each tick ends
\* with a commit; a lock on the database may fail it, which MaxLocked bounds.
MCSpec == MCInit /\ [][MCNext]_<<vars, doc>> /\ SF_vars(Rescan) /\ WF_vars(Commit)

\* A document that is taken up for a check is accepted whole or not at all.
WholeOrNot == [][\A d \in {doc'} : d = Absent \/ AcceptedIsWhole(d)]_doc
=============================================================================
