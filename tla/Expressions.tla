---------------------------- MODULE Expressions ----------------------------
(***************************************************************************)
(* The expression language of the monitor definitions (expr/): what        *)
(* compile_expr accepts, and the value CompiledExpr.eval gives in the       *)
(* context of one entity.  There is no state here: conditions, derived      *)
(* metrics, exemptions and promotion are all evaluated by these operators.  *)
(*                                                                         *)
(* A tree is the syntax Python's parser hands over.  A node of a kind that  *)
(* is not on the allowlist is Foreign.  Numbers are integers that count     *)
(* units of 1/Scale, so a quotient is rounded down to one unit, and one     *)
(* beyond Largest stands for a result a float cannot hold.  Times are in    *)
(* whole seconds.                                                          *)
(***************************************************************************)
EXTENDS Integers, Sequences, FiniteSets, Functions, FiniteSetsExt, TLC

CONSTANTS
  Seconds,       \* the durations that parse: a function from their texts
  MaxWindow,     \* the longest window an expression may look back
  Regexes,       \* the patterns that compile: a function to the texts they are found in
  Inside,        \* a function from texts to the texts that contain them
  Rank,          \* the place of each text in the alphabet
  DayWindows,    \* "HH:MM-HH:MM" texts: a function to <<start, end>> in minutes
  Largest        \* the largest number, in units

Scale == 10

----------------------------------------------------------------------------
(* Values: a float, a string, a bool, a tuple, or None for UNKNOWN.          *)

Value(type, n, s, of) == [type |-> type, n |-> n, s |-> s, of |-> of]
Unknown   == Value("none", 0, "", <<>>)
Text(s)   == Value("str", 0, s, <<>>)
Truth(b)  == Value("bool", IF b THEN Scale ELSE 0, "", <<>>)
Tuple(vs) == Value("tuple", 0, "", vs)
\* The one constructor of results: clean_number turns inf and nan to None.
Num(n)    == IF n \in -Largest..Largest THEN Value("num", n, "", <<>>) ELSE Unknown

IsNum(v) == v.type = "num"
IsText(v) == v.type = "str"
Truthy(v) == CASE v.type = "str"   -> v.s # ""
               [] v.type = "tuple" -> v.of # <<>>
               [] OTHER            -> v.n # 0

\* Python's ==: a bool is the number it counts as, tuples compare by element.
RECURSIVE Same(_, _)
Same(v, w) ==
  \/ v.type \in {"num", "bool"} /\ w.type \in {"num", "bool"} /\ v.n = w.n
  \/ v.type = "tuple" /\ w.type = "tuple" /\ Len(v.of) = Len(w.of)
     /\ \A i \in DOMAIN v.of : Same(v.of[i], w.of[i])
  \/ v.type \in {"str", "none"} /\ v = w

----------------------------------------------------------------------------
(* Trees.                                                                   *)

Lit(v)          == [op |-> "lit", val |-> v]
Name(id)        == [op |-> "name", id |-> id]
Op(op, args)    == [op |-> op, args |-> args]
Cmp(args, syms) == [op |-> "cmp", args |-> args, syms |-> syms]
Call(fn, args)  == [op |-> "call", fn |-> fn, args |-> args]
Foreign         == [op |-> "foreign", args |-> <<>>]

Arithmetic  == {"+", "-", "*", "/", "%"}
Operators   == Arithmetic \cup {"not", "neg", "and", "or", "list", "if"}
Comparisons == {"==", "!=", "<", "<=", ">", ">=", "in", "not in"}

\* What each argument has to be: a metric, a window, an expression, a
\* regular expression, a time window.
WindowFuncs == {"avg", "min", "max", "delta", "rate", "slope", "monot", "coverage"}
FUNCS ==
  [f \in WindowFuncs |-> <<"m", "w">>]
  @@ [f \in {"last", "age", "baseline"} |-> <<"m">>]
  @@ [f \in {"pct", "roundv", "coalesce", "contains"} |-> <<"e", "e">>]
  @@ [abs |-> <<"e">>, clamp |-> <<"e", "e", "e">>, matches |-> <<"e", "re">>,
      during |-> <<"tw">>, dow |-> <<>>]

\* Units count in units of 1/Scale like every number; a severity is its index.
Constants ==
  [info |-> 0, notice |-> Scale, warning |-> 2 * Scale, error |-> 3 * Scale,
   critical |-> 4 * Scale, KB |-> 1024 * Scale]

\* What a bare name stands for: the first of these that knows it.
RefKind(id, env) == CASE id \in env.metrics       -> "metric"
                      [] id \in env.attrs         -> "attr"
                      [] id \in env.params        -> "param"
                      [] id \in DOMAIN Constants -> "const"
                      [] OTHER                    -> "unknown"

\* The verdict on a sequence of parts built from left to right: the first
\* error ends the compilation.
FirstOf(verdicts) ==
  LET bad == {i \in DOMAIN verdicts : verdicts[i] # "ok"}
  IN  IF bad = {} THEN "ok" ELSE verdicts[Min(bad)]

LitText(arg) == arg.op = "lit" /\ IsText(arg.val)

\* compile_expr: "ok", "name" (ExprNameError) or "syntax" (ExprSyntaxError).
RECURSIVE Compiles(_, _)
ArgCompiles(kind, arg, env) ==
  CASE kind = "e"  -> Compiles(arg, env)
    [] kind = "m"  -> IF arg.op = "name" /\ arg.id \in env.metrics THEN "ok" ELSE "syntax"
    [] kind = "w"  -> IF LitText(arg) /\ arg.val.s \in DOMAIN Seconds
                         /\ Seconds[arg.val.s] <= MaxWindow THEN "ok" ELSE "syntax"
    [] kind = "re" -> IF LitText(arg) /\ arg.val.s \in DOMAIN Regexes THEN "ok" ELSE "syntax"
    [] kind = "tw" -> IF LitText(arg) /\ arg.val.s \in DOMAIN DayWindows THEN "ok" ELSE "syntax"

Compiles(node, env) ==
  CASE node.op = "lit"    -> "ok"
    [] node.op = "name"   -> IF RefKind(node.id, env) = "unknown" THEN "name" ELSE "ok"
    [] node.op = "call"   ->
         IF node.fn \notin DOMAIN FUNCS THEN "name"
         ELSE LET sig == FUNCS[node.fn] IN
              IF Len(node.args) # Len(sig) THEN "syntax"
              ELSE FirstOf([i \in DOMAIN sig |-> ArgCompiles(sig[i], node.args[i], env)])
    [] node.op = "cmp" /\ \E i \in DOMAIN node.syms : node.syms[i] \notin Comparisons -> "syntax"
    [] node.op \in Operators \cup {"cmp"} ->
         FirstOf([i \in DOMAIN node.args |-> Compiles(node.args[i], env)])
    [] OTHER              -> "syntax"

\* The (metric, window) pairs an expression looks back over.
RECURSIVE Windows(_)
Windows(node) ==
  IF node.op \in {"lit", "name", "foreign"} THEN {}
  ELSE IF node.op = "call" /\ node.fn \in WindowFuncs
  THEN {<<node.args[1].id, Seconds[node.args[2].val.s]>>}
  ELSE UNION {Windows(node.args[i]) : i \in DOMAIN node.args}

----------------------------------------------------------------------------
(* Series.  A point is <<time, value>>, oldest first.                        *)

FloorDiv(a, b) == IF b > 0 THEN a \div b ELSE (-a) \div (-b)
Sum(f(_), n) == FoldFunctionOnSet(+, 0, [i \in 1..n |-> f(i)], 1..n)
Clip(x, lo, hi) == LET m == IF x < lo THEN lo ELSE x IN IF m > hi THEN hi ELSE m

Slope(pts) ==
  LET n      == Len(pts)
      x(i)   == pts[i][1] - pts[1][1]
      y(i)   == pts[i][2]
      xx(i)  == x(i) * x(i)
      xy(i)  == x(i) * y(i)
      denom  == n * Sum(xx, n) - Sum(x, n) * Sum(x, n)
  IN  IF n < 3 \/ denom = 0 THEN Unknown
      ELSE Num(FloorDiv(n * Sum(xy, n) - Sum(x, n) * Sum(y, n), denom))

\* Too few points are UNKNOWN, except for coverage, which has then seen none.
OverWindow(fn, pts, window) ==
  LET n      == Len(pts)
      val(i) == pts[i][2]
      vals   == {pts[i][2] : i \in DOMAIN pts}
      dv     == pts[n][2] - pts[1][2]
      dt     == pts[n][1] - pts[1][1]
      ups    == Cardinality({i \in 1..(n - 1) : pts[i + 1][2] > pts[i][2]})
  IN  CASE fn = "avg"      -> IF n = 0 THEN Unknown ELSE Num(FloorDiv(Sum(val, n), n))
        [] fn = "min"      -> IF n = 0 THEN Unknown ELSE Num(Min(vals))
        [] fn = "max"      -> IF n = 0 THEN Unknown ELSE Num(Max(vals))
        [] fn = "delta"    -> IF n < 2 THEN Unknown ELSE Num(dv)
        [] fn = "rate"     -> IF n < 2 THEN Unknown
                              ELSE IF dt <= 0 THEN Unknown
                              ELSE IF dv < 0 THEN Num(0) ELSE Num(FloorDiv(dv, dt))
        [] fn = "slope"    -> Slope(pts)
        [] fn = "monot"    -> IF n < 2 THEN Unknown ELSE Num(FloorDiv(ups * Scale, n - 1))
        [] fn = "coverage" -> IF window <= 0 THEN Unknown
                              ELSE IF n = 0 THEN Num(0)
                              ELSE Num(Clip(FloorDiv(dt * Scale, window), 0, Scale))

\* round(x, digits) to the nearest, ties to even; a unit is the finest.
RoundTo(x, step) ==
  LET low == FloorDiv(x, step) IN
  IF 2 * (x - low * step) < step \/ (2 * (x - low * step) = step /\ low % 2 = 0)
  THEN low * step ELSE (low + 1) * step

----------------------------------------------------------------------------
(* EntityCtx: one entity's rings, attributes, parameters and baselines at    *)
(* the wall time of the tick.  A metric the current observation lacks is in  *)
(* "unavailable" and hides what the rings still hold of it.                  *)

Points(ctx, m) == IF m \in DOMAIN ctx.rings THEN ctx.rings[m] ELSE <<>>

metric_last(ctx, m) ==
  IF m \in ctx.unavailable \/ Points(ctx, m) = <<>> THEN Unknown
  ELSE Num(Points(ctx, m)[Len(Points(ctx, m))][2])

Age(ctx, m) ==
  IF m \in ctx.unavailable \/ Points(ctx, m) = <<>> THEN Unknown
  ELSE LET since == ctx.now - Points(ctx, m)[Len(Points(ctx, m))][1]
       IN  Num(Scale * (IF since < 0 THEN 0 ELSE since))

metric_window(ctx, m, window) ==
  LET Recent(p) == p[1] >= ctx.now - window IN SelectSeq(Points(ctx, m), Recent)

Baseline(ctx, m) ==
  IF m \in ctx.unavailable \/ m \notin DOMAIN ctx.baselines THEN Unknown
  ELSE Num(ctx.baselines[m])

Lookup(ctx, id, env) ==
  CASE RefKind(id, env) = "metric" -> metric_last(ctx, id)
    [] RefKind(id, env) = "attr"   -> IF id \in DOMAIN ctx.attrs THEN Text(ctx.attrs[id]) ELSE Unknown
    [] RefKind(id, env) = "param"  -> Num(ctx.params[id])
    [] OTHER                       -> Num(Constants[id])

----------------------------------------------------------------------------
(* Evaluation.                                                              *)

Arith(op, v, w) ==
  IF ~IsNum(v) \/ ~IsNum(w) \/ (op \in {"/", "%"} /\ w.n = 0) THEN Unknown
  ELSE Num(CASE op = "+" -> v.n + w.n
             [] op = "-" -> v.n - w.n
             [] op = "*" -> FloorDiv(v.n * w.n, Scale)
             [] op = "/" -> FloorDiv(v.n * Scale, w.n)
             [] op = "%" -> v.n - w.n * FloorDiv(v.n, w.n))

\* A tuple that holds an unknown contains nothing for certain.
Membership(v, w) ==
  IF w.type # "tuple" \/ \E i \in DOMAIN w.of : w.of[i] = Unknown THEN Unknown
  ELSE Truth(\E i \in DOMAIN w.of : Same(v, w.of[i]))

Negate(v) == IF v = Unknown THEN Unknown ELSE Truth(~Truthy(v))

\* One link of a chain.  Strings are ordered among themselves, numbers too;
\* the order of anything else is unknown.
Order(v) == IF IsText(v) THEN Rank[v.s] ELSE v.n

Compare(sym, v, w) ==
  CASE sym = "=="     -> Truth(Same(v, w))
    [] sym = "!="     -> Truth(~Same(v, w))
    [] sym = "in"     -> Membership(v, w)
    [] sym = "not in" -> Negate(Membership(v, w))
    [] v.type # w.type \/ v.type \notin {"num", "str"} -> Unknown
    [] sym = "<"      -> Truth(Order(v) < Order(w))
    [] sym = "<="     -> Truth(Order(v) <= Order(w))
    [] sym = ">"      -> Truth(Order(v) > Order(w))
    [] sym = ">="     -> Truth(Order(v) >= Order(w))

\* A chain is unknown when an operand is; otherwise its first link that is
\* not true decides.
CompareChain(vals, syms) ==
  IF \E i \in DOMAIN vals : vals[i] = Unknown THEN Unknown
  ELSE LET link(i) == Compare(syms[i], vals[i], vals[i + 1])
           bad     == {i \in DOMAIN syms : link(i) # Truth(TRUE)}
       IN  IF bad = {} THEN Truth(TRUE) ELSE link(Min(bad))

\* Python's own "and" and "or", for which None is false.
FalsyNone(vals) == Truth(\A i \in DOMAIN vals : Truthy(vals[i]))
AndOp(vals) ==
  IF \E i \in DOMAIN vals : vals[i] # Unknown /\ ~Truthy(vals[i]) THEN Truth(FALSE)
  ELSE IF \E i \in DOMAIN vals : vals[i] = Unknown THEN Unknown ELSE Truth(TRUE)

OrOp(vals) ==
  IF \E i \in DOMAIN vals : vals[i] # Unknown /\ Truthy(vals[i]) THEN Truth(TRUE)
  ELSE IF \E i \in DOMAIN vals : vals[i] = Unknown THEN Unknown ELSE Truth(FALSE)

\* A window that wraps midnight starts after it ends.
During(win, now) ==
  LET minute == (now \div 60) % 1440 IN
  Truth(IF win[1] <= win[2] THEN win[1] <= minute /\ minute < win[2]
        ELSE minute >= win[1] \/ minute < win[2])

\* The functions of values; the arguments are evaluated already.
Apply(fn, vs) ==
  LET nums == \A i \in DOMAIN vs : IsNum(vs[i]) IN
  CASE fn = "coalesce" -> IF vs[1] = Unknown THEN vs[2] ELSE vs[1]
    [] fn = "contains" -> IF ~IsText(vs[1]) \/ ~IsText(vs[2]) THEN Unknown
                          ELSE Truth(vs[1].s \in Inside[vs[2].s])
    [] ~nums           -> Unknown
    [] fn = "abs"      -> Num(IF vs[1].n < 0 THEN -vs[1].n ELSE vs[1].n)
    [] fn = "pct"      -> IF vs[2].n = 0 THEN Unknown
                          ELSE Num(FloorDiv(100 * Scale * vs[1].n, vs[2].n))
    [] fn = "clamp"    -> Num(Clip(vs[1].n, vs[2].n, vs[3].n))
    [] fn = "roundv"   -> IF vs[2].n >= Scale THEN vs[1]
                          ELSE Num(RoundTo(vs[1].n, Scale * 10 ^ ((-vs[2].n) \div Scale)))

RECURSIVE Ev(_, _, _)
EvCall(node, env, ctx) ==
  LET a == node.args
      fn == node.fn
  IN  CASE fn \in WindowFuncs ->
             IF a[1].id \in ctx.unavailable THEN Unknown
             ELSE OverWindow(fn, metric_window(ctx, a[1].id, Seconds[a[2].val.s]), Seconds[a[2].val.s])
        [] fn = "last"     -> metric_last(ctx, a[1].id)
        [] fn = "age"      -> Age(ctx, a[1].id)
        [] fn = "baseline" -> Baseline(ctx, a[1].id)
        [] fn = "matches"  -> LET s == Ev(a[1], env, ctx) IN
                              IF IsText(s) THEN Truth(s.s \in Regexes[a[2].val.s]) ELSE Unknown
        [] fn = "during"   -> During(DayWindows[a[1].val.s], ctx.now)
        [] fn = "dow"      -> Text(<<"mon", "tue", "wed", "thu", "fri", "sat", "sun">>
                                   [1 + (((ctx.now \div 86400) + 3) % 7)])
        [] OTHER           -> Apply(fn, [i \in DOMAIN a |-> Ev(a[i], env, ctx)])

Ev(node, env, ctx) ==
  CASE node.op = "lit"  -> node.val
    [] node.op = "name" -> Lookup(ctx, node.id, env)
    [] node.op = "call" -> EvCall(node, env, ctx)
    [] node.op = "if"   -> LET t == Ev(node.args[1], env, ctx) IN
                           IF t = Unknown THEN Unknown
                           ELSE Ev(node.args[IF Truthy(t) THEN 2 ELSE 3], env, ctx)
    [] OTHER ->
         LET vals == [i \in DOMAIN node.args |-> Ev(node.args[i], env, ctx)] IN
         CASE node.op = "and"  -> AndOp(vals)
           [] node.op = "or"   -> OrOp(vals)
           [] node.op = "cmp"  -> CompareChain(vals, node.syms)
           [] node.op = "list" -> Tuple(vals)
           [] node.op = "not"  -> Negate(vals[1])
           [] node.op = "neg"  -> IF IsNum(vals[1]) THEN Num(-vals[1].n) ELSE Unknown
           [] OTHER            -> Arith(node.op, vals[1], vals[2])

\* to_tribool: a rule fires on exactly True; None is not evidence either way.
Tribool(v) == IF v = Truth(TRUE) THEN "true" ELSE IF v = Unknown THEN "unknown" ELSE "false"

----------------------------------------------------------------------------
(* What may be said of it.                                                  *)

\* An expression that looks for an unknown (coalesce) or that compares a list
\* as a whole, which hides an unknown among its elements.
RECURSIVE SeesUnknown(_)
SeesUnknown(node) ==
  CASE node.op \in {"lit", "name"}               -> FALSE
    [] node.op = "call" /\ node.fn = "coalesce"  -> TRUE
    [] OTHER -> \/ \E i \in DOMAIN node.args : SeesUnknown(node.args[i])
                \/ /\ \E i \in DOMAIN node.args : node.args[i].op = "list"
                   /\ ~ (node.op = "cmp" /\ \A i \in DOMAIN node.syms : node.syms[i] \in {"in", "not in"}
                         /\ node.args[1].op # "list")

\* ctx knows all that "less" knows, and perhaps more: a measurement that was
\* missing, an attribute, a baseline.
KnowsMore(less, ctx) ==
  /\ ctx.rings = less.rings /\ ctx.params = less.params /\ ctx.now = less.now
  /\ ctx.unavailable \subseteq less.unavailable
  /\ IsRestriction(less.attrs, ctx.attrs) /\ IsRestriction(less.baselines, ctx.baselines)

\* What an expression concludes in spite of missing measurements, it concludes
\* when they are there: UNKNOWN is never mistaken for an answer (expr/eval.py
\* and the truth table of EX-06).
Monotone(node, env, less, ctx) ==
  (KnowsMore(less, ctx) /\ ~SeesUnknown(node) /\ Ev(node, env, less) # Unknown)
    => Ev(node, env, ctx) = Ev(node, env, less)
=============================================================================
