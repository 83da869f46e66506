------------------------------- MODULE MCConfig -------------------------------
(* Two services; one selects two pods that name different numbers "http",  *)
(* the other a pod without a port of that name.  Labels that are names of  *)
(* the template's own, target ports by number, by the service port's name  *)
(* and by another name.                                                    *)
EXTENDS Config

IntPort(n) == [kind |-> "int", int |-> n, str |-> ""]
NamedPort(s) == [kind |-> "string", int |-> 0, str |-> s]

MCPort == {[name |-> "", target |-> IntPort(80)],
           [name |-> "http", target |-> NamedPort("http")],
           [name |-> "web", target |-> NamedPort("http")],
           [name |-> "admin", target |-> IntPort(8080)]}
MCPods == [n \in {"s1", "s2"} |-> IF n = "s1" THEN {"ip1", "ip2"} ELSE {"ip3"}]
MCContainerPort == [ip \in {"ip1", "ip2", "ip3"} |->
  IF ip = "ip1" THEN [http |-> 80] ELSE IF ip = "ip2" THEN [http |-> 8080] ELSE [other |-> 80]]
=============================================================================
