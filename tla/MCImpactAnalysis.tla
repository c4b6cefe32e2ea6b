-------------------------- MODULE MCImpactAnalysis --------------------------
(* A small instance of ImpactAnalysis for TLC: a diamond of callers with a *)
(* cycle, tests of every kind, two services and what they own.             *)
EXTENDS ImpactAnalysis

Fn(name, class, file, unresolved) ==
    [name |-> name, class |-> class, file |-> file, key |-> file \o "::" \o name,
     unresolved |-> unresolved]

CodeInfo ==
    [pay |-> Fn("pay", "Payment", "payment", {}),
     refund |-> Fn("refund", "Payment", "payment", {}),
     order |-> Fn("order", "none", "shop", {}),
     checkout |-> Fn("checkout", "none", "shop", {}),
     retry |-> Fn("retry", "none", "shop", {}),
     lazy |-> Fn("lazy", "none", "orders", {"pay", "order"}),
     twin |-> Fn("refund", "none", "orders", {}),
     testPay |-> Fn("test_pay", "PaymentTest", "test_payment", {}),
     testOrder |-> Fn("test_order", "none", "test_payment", {})]
CodeNodes == DOMAIN CodeInfo

Labels ==
    [payment |-> "File", shop |-> "File", orders |-> "File", Payment |-> "Class", billing |-> "Service",
     store |-> "Service", ledger |-> "Service", mail |-> "Service", api |-> "API", paid |-> "Event",
     db |-> "Database", accounts |-> "Table", t |-> "Test"]
Tests == [t |-> [name |-> "t", file |-> "test_payment"]]
Testing == {"test_payment"}
Parts == {<<"test_pay", "pay">>, <<"test_order", "order">>}

Edge(from, type, to) == [start |-> from, type |-> type, end |-> to]
Calls ==
    {Edge("refund", "CALLS", "pay"), Edge("order", "CALLS", "pay"), Edge("checkout", "CALLS", "refund"),
     Edge("checkout", "CALLS", "order"), Edge("pay", "CALLS", "checkout"), Edge("retry", "CALLS", "checkout"),
     Edge("testPay", "CALLS", "pay"), Edge("testOrder", "CALLS", "order"), Edge("order", "CALLS", "order")}
Owners ==
    {Edge("billing", "CONTAINS", "payment"), Edge("payment", "CONTAINS", "Payment"),
     Edge("Payment", "CONTAINS", "pay"), Edge("Payment", "CONTAINS", "refund"),
     Edge("store", "CONTAINS", "shop"), Edge("shop", "CONTAINS", "checkout"),
     Edge("checkout", "EXPOSES", "api"), Edge("store", "PUBLISHES", "paid"),
     Edge("pay", "ACCESSES", "db"), Edge("refund", "ACCESSES", "accounts"),
     Edge("store", "DEPENDS_ON", "ledger"), Edge("billing", "CALLS", "ledger"),
     Edge("ledger", "CALLS", "mail"), Edge("mail", "CALLS", "billing"), Edge("t", "VALIDATES", "Payment")}
Graph == Calls \cup Owners
Growth ==
    {Edge("retry", "CALLS", "pay"), Edge("twin", "CALLS", "retry"), Edge("lazy", "CALLS", "order"),
     Edge("db", "CONTAINS", "accounts")}

Names(method, class) == [kind |-> "names", method |-> method, class |-> class, file |-> "any"]
Location(node, label) == [kind |-> "location", node |-> node, label |-> label, resolved |-> TRUE]
Ask(change, depth, downstream, paths) ==
    [change |-> change, maxDepth |-> depth, maxDownstream |-> downstream, maxPaths |-> paths]

Asked ==
    {Ask(Names("pay", "any"), d, 2, p) : d \in {0, 1, 3}, p \in {1, 2, 10}}
    \cup {Ask(Names("refund", "any"), 3, 1, 10), Ask(Names("refund", "Payment"), 2, 0, 10),
          Ask(Location("checkout", "Function"), 4, 3, 10), Ask(Location("gone", "Method"), 2, 1, 10),
          Ask(Location("retry", "Function"), 4, 3, 10), Ask(Location("Payment", "Class"), 2, 1, 10)}
=============================================================================
