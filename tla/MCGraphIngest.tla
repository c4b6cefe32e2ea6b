---------------------------- MODULE MCGraphIngest ----------------------------
(* Small instances of GraphIngest for TLC: three states of a working tree. *)
EXTENDS GraphIngest, TLC

Def(name, line) == [name |-> name, line |-> line]
Class(name, line, methods) == [name |-> name, line |-> line, methods |-> methods]
FromImport(level, module, name, local) ==
    [from |-> TRUE, level |-> level, module |-> module, name |-> name, local |-> local]
PlainImport(module, local) ==
    [from |-> FALSE, level |-> 0, module |-> module, name |-> "none", local |-> local]
ByName(caller, name) == [caller |-> caller, expr |-> [kind |-> "name", name |-> name]]
ByAttribute(caller, base, attr) ==
    [caller |-> caller, expr |-> [kind |-> "attribute", base |-> base, attr |-> attr]]
Other(caller) == [caller |-> caller, expr |-> [kind |-> "other"]]

File(path, functions, classes, imports, calls) ==
    [path |-> path, state |-> "ok", functions |-> functions, classes |-> classes,
     imports |-> imports, calls |-> calls]
Unread(path, state) == [File(path, <<>>, <<>>, <<>>, <<>>) EXCEPT !.state = state]
Commit(hash, changed) == [hash |-> hash, changed |-> changed]

(* A package with a function defined twice, a module of the same name next *)
(* to the package, and callers of each kind.                               *)
Utils(first, calls) ==
    File(<<"pkg", "utils">>, <<Def("helper", first), Def("helper", first + 4), Def("check", 9)>>, <<>>,
         <<>>, <<ByName(<<"check">>, "helper"), ByName(<<"helper">>, "check")>> \o calls)
TopUtils == File(<<"utils">>, <<Def("helper", 1), Def("tidy", 5)>>, <<>>, <<>>, <<>>)
PackageFile ==
    File(<<"pkg", "__init__">>, <<Def("main", 3)>>, <<>>, <<FromImport(1, <<"utils">>, "helper", "helper")>>,
         <<ByName(<<"main">>, "helper")>>)
Service(methods) ==
    File(<<"pkg", "service">>, <<>>, <<Class("Service", 4, methods)>>,
         <<FromImport(1, <<"utils">>, "helper", "assist"), FromImport(3, <<>>, "outside", "outside"),
           PlainImport(<<"utils">>, "utils"), PlainImport(<<"os">>, "os")>>,
         <<ByAttribute(<<"Service", "run">>, "self", "step"), ByName(<<"Service", "run">>, "assist"),
           ByAttribute(<<"Service", "run">>, "utils", "tidy"), ByName(<<"Service", "run">>, "outside"),
           ByAttribute(<<"Service", "run">>, "os", "getcwd"), Other(<<"Service", "run">>)>>)

Earlier ==
    [files |-> <<PackageFile, Service(<<Def("run", 5), Def("step", 8)>>), Utils(1, <<>>), TopUtils>>,
     commits |-> <<>>]

(* A file is gone, functions have moved, a file does not parse, and there  *)
(* are commits, one of them of a file that is gone.                        *)
Later ==
    [files |-> <<Utils(2, <<Other(<<"check">>)>>), Unread(<<"utils">>, "bad syntax")>>,
     commits |-> <<Commit("c2", {<<"pkg", "utils">>}), Commit("c1", {<<"pkg", "removed">>})>>]

Undecodable == [files |-> <<Unread(<<"utils">>, "undecodable")>>, commits |-> <<>>]

Trees ==
    [v \in {"before", "after", "undecodable"} |->
        IF v = "before" THEN Earlier ELSE IF v = "after" THEN Later ELSE Undecodable]
TreeVersions == DOMAIN Trees

(* A class that bears the name of a module, of which it imports a function *)
(* named as a method of the class.                                         *)
Shadow ==
    [files |-> <<File(<<"plan">>, <<Def("run", 1)>>, <<>>, <<>>, <<>>),
                 File(<<"worker">>, <<Def("main", 9)>>, <<Class("plan", 4, <<Def("run", 5)>>)>>,
                      <<FromImport(0, <<"plan">>, "run", "run")>>, <<ByName(<<"main">>, "run")>>)>>,
     commits |-> <<>>]
ShadowTrees == [v \in {"shadow"} |-> Shadow]
ShadowVersions == DOMAIN ShadowTrees

Interchangeable == Permutations(Clients)
=============================================================================
