---------------------------- MODULE StructuredQuery ----------------------------
(***************************************************************************)
(* What the SQL leg of an answer reads: the three ways from a question to  *)
(* blocks of evidence, and the board of estimates that stands in when none *)
(* were found.  Operators only; AnswerPipeline takes the steps.            *)
(*                                                                         *)
(* A value that may be NULL is a set of at most one element, so that a     *)
(* comparison with NULL is an empty \E.  Amounts are small numbers, texts  *)
(* are names, the display of a block is left out.                          *)
(***************************************************************************)
EXTENDS Integers, Sequences, FiniteSets

CONSTANTS
    Facts,         \* rows of facts with their subject and document
    Offers,        \* rows v_unit_offers_as_of may return
    Estimates,     \* rows of v_unit_estimates
    Today,         \* the day the view of estimates is pinned to
    Collation,     \* name -> its place in the order of the database
    MaxLimit,      \* most rows of a spec
    DefaultLimit,  \* rows of a spec without a limit
    BudgetFloor,   \* least budget that is one
    TopFloor,      \* highest sale floor
    BoardLimit     \* most unit types of the board

ASSUME LimitsAreNumbers == {MaxLimit, DefaultLimit, BudgetFloor, TopFloor, BoardLimit} \subseteq Nat \ {0}
ASSUME EstimatesArePriced ==
    \A e \in Estimates :
        {"project", "priced", "min", "max", "deposit", "floor"} \subseteq DOMAIN e /\ (e.priced => e.min \in Nat)

NoProject == "none"
NoSpec == [source |-> "none", filters |-> <<>>, limit |-> 0]
BudgetSpec == [source |-> "v_unit_estimates", filters |-> <<>>, limit |-> 20]

Semantic == {"price_vnd", "area_m2", "deposit_pct", "term_months", "interest_rate_pct"}
Named == {"subject_key", "policy_key"}
FieldsOf(source) ==
    CASE source = "facts" -> Semantic \cup Named \cup {"value_num", "value_text"}
      [] source = "v_unit_offers" -> {"price_vnd", "deposit_pct", "policy_key", "required_down_payment_vnd"}
      [] OTHER -> {}
Ordering == {"<", "<=", ">", ">="}
Ops == Ordering \cup {"=", "!=", "between", "in"}

Least(a, b) == IF a < b THEN a ELSE b

\* Rows go by their least price, those without one last, then by their place in the table.
Ahead(s, r) ==
    \/ s.priced /\ (~r.priced \/ s.min < r.min)
    \/ s.priced = r.priced /\ (s.priced => s.min = r.min) /\ s.id < r.id

\* The first n of the rows.
Cheapest(n, rows) == {r \in rows : Cardinality({s \in rows : Ahead(s, r)}) < n}

Holds(v, op, w) ==
    CASE op = "=" -> v = w
      [] op = "!=" -> v # w
      [] op = "<" -> v < w
      [] op = "<=" -> v <= w
      [] op = ">" -> v > w
      [] op = ">=" -> v >= w

Within(v, bounds) == bounds[1] <= v /\ v <= bounds[2]

InForce(row, day) == row.from <= day /\ \A end \in row.to : day < end

OfScope(row, scope) == scope = NoProject \/ row.project = scope

-------------------------------------------------------------------------------
(***************************************************************************)
(* Specs: what the router asks of the tables.                              *)
(***************************************************************************)

\* An exhaustive question takes the most there can be.
EffectiveLimit(spec, exhaustive) ==
    IF exhaustive THEN MaxLimit
    ELSE Least(IF spec.limit = 0 THEN DefaultLimit ELSE spec.limit, MaxLimit)

\* A filter the builder has SQL for: on offers all; on facts a range of names is an
\* error of the database, which expects numbers there.
Buildable(source, f) ==
    \/ source = "v_unit_offers"
    \/ f.op \in {"between", "in"} /\ (f.op = "between" => f.field \in Semantic \cup {"value_num"})
    \/ f.field \in Semantic \cup {"subject_key", "value_num"}
    \/ f.field \in {"policy_key", "value_text"} /\ f.op \in {"=", "!="}

Valid(spec, limit) ==
    /\ FieldsOf(spec.source) # {}
    /\ \A i \in DOMAIN spec.filters :
          /\ spec.filters[i].field \in FieldsOf(spec.source)
          /\ spec.filters[i].op \in Ops
          /\ spec.filters[i].op = "between" => Len(spec.filters[i].value) = 2
          /\ Len(spec.filters[i].value) >= 1
    /\ limit \in 1..MaxLimit

\* The condition of a filter on facts, as the database evaluates it.  A range
\* asks for no fact_key, a list for no number, a subject for no operator.
FactSelected(row, f) ==
    LET v == f.value[1] IN
    CASE f.op = "between" ->
            \/ \E n \in row.num : Within(n, f.value)
            \/ \E a \in row.lo, b \in row.hi : a <= f.value[2] /\ b >= v
      [] f.op = "in" -> row.text \cap {f.value[i] : i \in DOMAIN f.value} # {}
      [] f.field \in Semantic /\ f.op \in {"=", "!="} ->
            row.key = f.field /\ row.quality = "exact" /\ \E n \in row.num : Holds(n, f.op, v)
      [] f.field \in Semantic /\ f.op \in {"<", "<="} ->
            row.key = f.field /\ \E n \in row.num \cup row.lo : Holds(n, f.op, v)
      [] f.field \in Semantic /\ f.op \in {">", ">="} ->
            row.key = f.field /\ \E n \in row.num \cup row.hi : Holds(n, f.op, v)
      [] f.field = "subject_key" -> row.subject = v
      [] f.field = "value_num" -> \E n \in row.num : Holds(n, f.op, v)
      [] f.field = "policy_key" -> \E p \in row.policy : Holds(p, f.op, v)
      [] OTHER -> \E t \in row.text : Holds(t, f.op, v)

\* What match_semantics compares of a fact: its column, or else its number or text.
RowValue(row, field) ==
    CASE field = "subject_key" -> {row.subject}
      [] field = "policy_key" -> row.policy
      [] field = "value_num" -> row.num
      [] field = "value_text" -> row.text
      [] OTHER -> IF row.num # {} THEN row.num ELSE row.text

\* The exact filter after the database; a row that is a range never equals.
Matches(row, f) ==
    IF row.quality # "exact"
    THEN CASE f.op = "between" -> /\ \A a \in row.lo : a <= f.value[2]
                                  /\ \A b \in row.hi : b >= f.value[1]
           [] f.op \in {"<", "<="} -> \E a \in row.lo : Holds(a, f.op, f.value[1])
           [] f.op \in {">", ">="} -> \E b \in row.hi : Holds(b, f.op, f.value[1])
           [] OTHER -> FALSE
    ELSE \E v \in RowValue(row, f.field) :
           CASE f.op = "between" -> Within(v, f.value)
             [] f.op = "in" -> \E i \in DOMAIN f.value : v = f.value[i]
             [] f.op \in Ordering /\ f.field \in Named -> v = f.value[1] /\ f.op \in {"<=", ">="}
             [] OTHER -> Holds(v, f.op, f.value[1])

DownPayment(price, pct) == (price * pct + 99) \div 100

\* Names have the order of the database.
OfferMatches(row, f) ==
    LET place(x) == IF f.field = "policy_key" THEN Collation[x] ELSE x
        v == CASE f.field = "price_vnd" -> row.price
               [] f.field = "deposit_pct" -> row.deposit
               [] f.field = "policy_key" -> row.policy
               [] OTHER -> DownPayment(row.price, row.deposit) IN
    CASE f.op = "between" -> Within(place(v), <<place(f.value[1]), place(f.value[2])>>)
      [] f.op = "in" -> \E i \in DOMAIN f.value : v = f.value[i]
      [] OTHER -> Holds(place(v), f.op, place(f.value[1]))

\* A fact counts while it and its published document are in force.
Visible(scope, day) ==
    {r \in Facts : /\ InForce(r, day) /\ OfScope(r, scope)
                   /\ r.doc.status = "published" /\ InForce(r.doc, day)}

\* What the database returns before the limit.
Superset(spec, scope, day) ==
    IF spec.source = "facts"
    THEN {r \in Visible(scope, day) : \A i \in DOMAIN spec.filters : FactSelected(r, spec.filters[i])}
    ELSE {r \in Offers : /\ InForce(r, day) /\ OfScope(r, scope)
                         /\ \A i \in DOMAIN spec.filters : OfferMatches(r, spec.filters[i])}

\* The limit cuts before the exact filter; which rows it leaves is up to the database.
Cuts(rows, limit) ==
    IF Cardinality(rows) <= limit THEN {rows}
    ELSE {s \in SUBSET rows : Cardinality(s) = limit}

Exact(spec, rows) ==
    IF spec.source # "facts" THEN rows
    ELSE {r \in rows : \A i \in DOMAIN spec.filters : Matches(r, spec.filters[i])}

Block(leg, row) == [leg |-> leg, row |-> row,
                    approx |-> IF leg = "facts" THEN row.quality # "exact" \/ row.trust = "estimate"
                               ELSE leg \in {"cash", "loan", "board"}]

Failure == [blocks |-> {}, degraded |-> TRUE]
Found(leg, rows) == [blocks |-> {Block(leg, r) : r \in rows}, degraded |-> FALSE]

\* The bound of a range and a name cannot be ordered: the leg fails.
Comparable(spec, rows) ==
    \A i \in DOMAIN spec.filters : \A r \in rows :
        spec.source = "facts" /\ spec.filters[i].field \in Named /\ spec.filters[i].op \in Ordering
            => r.quality = "exact" \/ r.lo \cup r.hi = {}

RunSpec(spec, limit, scope, day) ==
    IF ~Valid(spec, limit) \/ \E i \in DOMAIN spec.filters : ~Buildable(spec.source, spec.filters[i])
    THEN {Failure}
    ELSE {IF Comparable(spec, rows) THEN Found(spec.source, Exact(spec, rows)) ELSE Failure :
              rows \in Cuts(Superset(spec, scope, day), limit)}

-------------------------------------------------------------------------------
(***************************************************************************)
(* Affordability: what a budget buys, in cash or with a deposit.           *)
(***************************************************************************)

\* 0.3 % and 25/21 a floor, rounded.
FloorPrice(base, floor) == base + (75 * base * (floor - 1) + 10500) \div 21000

\* A deposit that is no percentage is none.
Deposit(e) == e.deposit \cap 0..100

Priced(scope) == {e \in Estimates : OfScope(e, scope) /\ e.priced}

\* Too dear for cash, but not for its deposit; an offer without one is for cash only.
LoanLeg(rows, budget) ==
    {e \in rows : e.min > budget /\ \E pct \in Deposit(e) : DownPayment(e.min, pct) <= budget}

CashLeg(rows, budget) == {e \in rows : e.min <= budget}

\* The highest floor the budget reaches.
Reach(e, budget) ==
    CHOOSE i \in 1..TopFloor :
        /\ i = 1 \/ FloorPrice(e.min, i) <= budget
        /\ i = TopFloor \/ FloorPrice(e.min, i + 1) > budget

RunAffordability(budget, limit, scope) ==
    LET rows == Priced(scope)
        cash == Cheapest(limit, CashLeg(rows, budget))
        loan == Cheapest(limit - Cardinality(cash), LoanLeg(rows, budget)) IN
    IF budget < BudgetFloor \/ {e \in Estimates : OfScope(e, scope)} = {} THEN {Failure}
    ELSE {[blocks |-> {Block("cash", [e EXCEPT !.floor = Reach(e, budget)]) : e \in cash}
                      \cup {Block("loan", e) : e \in loan},
           degraded |-> FALSE]}

\* The board: one block of every unit type that has a least or a highest price, over
\* all its policies.
BoardOf(scope) ==
    LET rows == {e \in Estimates : OfScope(e, scope) /\ (e.priced \/ e.max # {})}
        types == {e \in rows : \A o \in rows : o.subject = e.subject => ~Ahead(o, e)} IN
    {Block("board", e) : e \in Cheapest(BoardLimit, types)}

-------------------------------------------------------------------------------
(***************************************************************************)
(* SQL written by a model.                                                 *)
(***************************************************************************)

AllowedTables == {"v_unit_offers", "campaigns"}

\* statement: single: one statement without a comment; select: it is a SELECT that
\* changes nothing; tables: the tables in their order; calls: it calls only what is allowed.
Accepted(statement) ==
    /\ statement.single /\ statement.select /\ statement.calls
    /\ statement.tables # <<>>
    /\ \A i \in DOMAIN statement.tables : statement.tables[i] \in AllowedTables

\* Only the first use of a table is bound to the day.
DaysOf(statement, day) ==
    IF Cardinality({i \in DOMAIN statement.tables : statement.tables[i] = "v_unit_offers"}) > 1
    THEN {day, Today} ELSE {day}

\* The rows may be of any project: no one gives the statement a scope.
RunNl2Sql(statement, day) ==
    IF ~Accepted(statement) THEN {Failure}
    ELSE {Found("nl2sql", rows) :
             rows \in SUBSET {o \in Offers : \E d \in DaysOf(statement, day) : InForce(o, d)}}
===============================================================================
