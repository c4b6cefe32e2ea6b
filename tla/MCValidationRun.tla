--------------------------- MODULE MCValidationRun ---------------------------
(* Small instances of ValidationRun for TLC: the requests of each run.     *)
EXTENDS ValidationRun, TLC

CONSTANTS db, cache

Request(backend, deps, dockerfile, hasBuild, start, n) ==
    [backend |-> backend, deps |-> deps, placeholder |-> FALSE, dockerfile |-> dockerfile,
     build |-> hasBuild, start |-> start, tests |-> n,
     faults |-> {}]

(* Everything at once, and the requests that leave parts of it out. *)
DockerRequests ==
    {Request("DOCKER", <<db>>, TRUE, TRUE, "HTTP", 2),
     Request("DOCKER", <<db, cache>>, FALSE, FALSE, "none", 1),
     Request("DOCKER", <<>>, FALSE, TRUE, "PROCESS", 2),
     Request("DOCKER", <<>>, TRUE, FALSE, "LOG", 1),
     [Request("DOCKER", <<db>>, FALSE, TRUE, "none", 1) EXCEPT !.placeholder = TRUE]}

LocalRequests ==
    {Request("LOCAL", <<>>, FALSE, TRUE, "TCP", 2),
     Request("LOCAL", <<>>, FALSE, FALSE, "PROCESS", 1),
     Request("LOCAL", <<db>>, FALSE, TRUE, "none", 1),
     Request("LOCAL", <<>>, TRUE, TRUE, "none", 1)}

(* Every request, with a world that does what it is told and with one that *)
(* fails in every way.                                                     *)
AllRequests ==
    {[r EXCEPT !.faults = f] :
        r \in DockerRequests \cup LocalRequests, f \in {{}, FaultKinds}}
=============================================================================
