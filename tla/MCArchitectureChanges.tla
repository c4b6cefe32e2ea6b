------------------------ MODULE MCArchitectureChanges ------------------------
(* Revisions that differ in a compose file, code, manifests and the         *)
(* declaration, some of them unreadable or only partly understood.          *)
EXTENDS ArchitectureChanges, TLC

File(path, kind, items) == [path |-> path, kind |-> kind, readable |-> TRUE, items |-> items]
Garbled(file) == [file EXCEPT !.readable = FALSE]

Entry(name, engine, depends) ==
    [is |-> "service", name |-> name, engine |-> engine, depends |-> depends]
Route(method, path, handler) ==
    [is |-> "route", method |-> method, path |-> path, handler |-> handler]
Calls(host) == [is |-> "call", host |-> host]
Table(name) == [is |-> "table", name |-> name]
Library(name, version) == [is |-> "library", name |-> name, version |-> version]
Declares(rel, type, name) == [is |-> "declares", rel |-> rel, type |-> type, name |-> name]
DeclaredApi(method, path) == [is |-> "api", method |-> method, path |-> path]
Malformed == [is |-> "malformed"]

Web(engine) == File("compose.yml", "compose",
    <<Entry("billing", "none", {}), Entry("shop", "none", {"billing", "db"}), Entry("db", engine, {})>>)
WebDangling == File("compose.yml", "compose",
    <<Entry("billing", "none", {}), Entry("shop", "none", {"db"})>>)
Orders(routes) == File("orders.py", "code", routes \o <<Calls("billing"), Table("orders")>>)
Other(routes) == File("zzz.py", "code", routes)
Versions(path, version) == File(path, "manifest", <<Library("fastapi", version)>>)
Declaration == File("rootfix-architecture.json", "declared",
    <<Declares("PUBLISHES", "EVENT", "paid"), Declares("ACCESSES", "DATABASE", "db"),
      DeclaredApi("GET", "/orders"), Malformed>>)

List == Route("GET", "/orders", "list")
ListMoved == Route("GET", "/all", "list")
ListPosted == Route("POST", "/orders", "list")
Shown == Route("GET", "/orders", "show")

TheTrees == {
    <<Web("postgres"), Orders(<<List>>)>>,
    <<Web("mysql"), Orders(<<ListMoved>>)>>,
    <<Garbled(Web("postgres")), Orders(<<ListPosted>>)>>,
    <<WebDangling, Orders(<<List, ListMoved>>), Declaration>>,
    <<Garbled(Orders(<<List>>)), Versions("a.txt", ">=1"), Declaration>>,
    <<Orders(<<List, Malformed>>), Versions("a.txt", ">=2")>>,
    <<Other(<<List>>), Versions("a.txt", ">=1"), Versions("b.toml", ">=2")>>,
    <<Orders(<<Shown>>), Other(<<List>>), Versions("a.txt", ">=1"), Garbled(Versions("b.toml", ">=2"))>>,
    <<Orders(<<ListPosted, ListMoved>>), Garbled(Declaration)>>,
    <<Orders(<<>>), Other(<<ListPosted>>)>>,
    <<>>,
    <<Web("mysql"), Garbled(Orders(<<Shown, Malformed>>)), Declaration>>,
    <<WebDangling, Other(<<Shown, ListMoved>>)>>,
    <<Garbled(WebDangling), Other(<<ListMoved, Malformed>>), Versions("a.txt", ">=2"), Versions("b.toml", ">=2")>>,
    <<Versions("a.txt", ">=2"), Versions("b.toml", ">=1"), Declaration>>,
    <<Orders(<<Shown>>), Garbled(Other(<<List>>)), Versions("b.toml", ">=2")>> }

(* The declaration of the services is unreadable at one revision.          *)
CallTrees == {
    <<Web("postgres"), Orders(<<List>>)>>,
    <<Garbled(Web("postgres")), Orders(<<List>>)>> }

Context(service, known) == [service |-> service, known |-> known]
Plain == {Context("shop", {})}
Varied == Plain \cup {Context("shop", {"billing"}), Context("store", {})}
Interchangeable == Permutations(Revisions)
=============================================================================
