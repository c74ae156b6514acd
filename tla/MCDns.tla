-------------------------------- MODULE MCDns --------------------------------
(* Bounds for Dns: the arguments the resolver takes on, and one of each kind *)
(* it leaves to the system.                                                  *)
EXTENDS Dns

Request(node, service, family, numericHost) ==
    [node |-> node, service |-> service, family |-> family, numericHost |-> numericHost]

MCRequests == {Request("name", "number", "any", FALSE), Request("literal", "none", "inet", FALSE)}

Said(kind, life) == [kind |-> kind, life |-> life]

MCUpstream == {Said("addresses", 2), Said("nxdomain", 0), Said("other", 0)}

CONSTANTS t1, t2, w1, w2, p1, p2

Bounds(threads, number, attempts, workers, ports, ids, time, memory) ==
    [lookers |-> threads, lookups |-> number, attempts |-> attempts, workers |-> workers,
     ports |-> ports, ids |-> ids, time |-> time, memory |-> memory]

\* Two workers that resolve one question while a third query of it is on its way, or
\* one of them past the life of an answer; a thread that looks up twice from one port,
\* while another frees; two that have the port one after the other, or one each.
MCSizes == {Bounds({t1}, 1, 3, {w1, w2}, {p1}, {1}, 1, FALSE),
            Bounds({t1}, 1, 2, {w1, w2}, {p1}, {1}, 2, FALSE),
            Bounds({t1}, 2, 2, {w1}, {p1}, {1, 2}, 0, TRUE),
            Bounds({t1, t2}, 1, 1, {w1}, {p1}, {1, 2}, 0, TRUE),
            Bounds({t1, t2}, 1, 1, {w1}, {p1, p2}, {1}, 0, TRUE)}
==============================================================================
