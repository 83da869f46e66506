-------------------------------- MODULE Config --------------------------------
(***************************************************************************)
(* What a sync writes: getServices and getEndpoints, the template          *)
(* haproxy.tmpl, and how haproxy (external) routes a request by it.        *)
(*                                                                         *)
(* A behaviour starts with some contents of the two stores; every step     *)
(* adds one service, and the configuration is what there is after the last *)
(* one.  The store is a Go map, so services come in any order.             *)
(* Hosts are named without the domain, which the template adds to each.    *)
(* The servers of a backend are a set: the order and the repetitions of    *)
(* its server lines are left out.                                          *)
(***************************************************************************)
EXTENDS Naturals, Sequences, SequencesExt

CONSTANTS
  Name,          \* names of services, and of the endpoints that go with them
  Label,         \* values of the label "name"; "" is a missing label
  Port,          \* service ports, [name, target]
  MaxPorts,      \* bound: ports of a service
  Pods,          \* the addresses of the pods that each service selects
  containerPort, \* the pods' named ports: address -> name -> number
  Absent         \* no such object

(* The API server's validation: a target port is a number other than 0 or  *)
(* a name, and so are the numbers of the pods' ports.                      *)
ASSUME PortAssumption ==
  /\ \A sp \in Port : /\ sp.target.kind \in {"int", "string"}
                      /\ sp.target.kind = "int" => sp.target.int # 0
  /\ \A ip \in DOMAIN containerPort : \A name \in DOMAIN containerPort[ip] :
       containerPort[ip][name] # 0

ASSUME MaxPortsAssumption == MaxPorts \in Nat

ASSUME PodsAssumption == \A n \in Name : Pods[n] \subseteq DOMAIN containerPort

VARIABLES
  services,   \* the services' store: name -> service, or Absent
  published,  \* the names that have an Endpoints object in the other store
  todo,       \* the names that getServices has yet to visit
  httpSvc     \* what it has put together

vars == <<services, published, todo, httpSvc>>

\* The ports of one service have unique names.
PortLists == {ports \in UNION {[1 .. n -> Port] : n \in 1 .. MaxPorts} :
                \A i, j \in DOMAIN ports : ports[i].name = ports[j].name => i = j}

Service == [label : Label, json : BOOLEAN, ports : PortLists]

Init ==
  /\ services \in [Name -> Service \cup {Absent}]
  /\ published \in SUBSET {n \in Name : services[n] # Absent}
  /\ todo = {n \in Name : services[n] # Absent}
  /\ httpSvc = <<>>

-----------------------------------------------------------------------------
(* The cluster: the port of a pod that a service port means, and the       *)
(* Endpoints object that the cluster keeps for a service.                  *)

\* ServicePort.TargetPort: a number, or the name of one of the pod's ports.
Resolve(sp, ip) ==
  IF sp.target.kind = "int" THEN {sp.target.int}
  ELSE {containerPort[ip][name] : name \in {sp.target.str} \cap DOMAIN containerPort[ip]}

\* Ports are named after the service port.  One subset per pod: their grouping
\* does not change the product of addresses and ports.
Subsets(n) ==
  {[addresses |-> {ip},
    ports |-> UNION {{[name |-> sp.name, port |-> p] : p \in Resolve(sp, ip)}
                       : sp \in Range(services[n].ports)}] : ip \in Pods[n]}

-----------------------------------------------------------------------------
(* getEndpoints and getServices.                                           *)

\* Mutant of Matches: names are not looked at.
MatchesNumber(epPort, target) == epPort.port = target.int

Matches(epPort, target) ==
  IF target.kind = "int" THEN epPort.port = target.int ELSE epPort.name = target.str

\* Mutant of getEndpoints: every port of the endpoints is taken.
getAllEndpoints(n, sp) ==
  UNION {ss.addresses \X {p.port : p \in ss.ports} : ss \in IF n \in published THEN Subsets(n) ELSE {}}

\* Nothing when GetServiceEndpoints finds no Endpoints of that name.
getEndpoints(n, sp) ==
  UNION {ss.addresses \X {p.port : p \in {q \in ss.ports : Matches(q, sp.target) /\ q.port # 0}}
           : ss \in IF n \in published THEN Subsets(n) ELSE {}}

\* One entry per port of a labelled service.
Entries(n) ==
  IF services[n].label = "" THEN <<>>
  ELSE [i \in DOMAIN services[n].ports |->
         [RealName |-> services[n].label, ReturnsJson |-> services[n].json,
          Ep |-> getEndpoints(n, services[n].ports[i])]]

\* The body of the loop over the services.
getServices(n) ==
  /\ n \in todo
  /\ todo' = todo \ {n}
  /\ httpSvc' = httpSvc \o Entries(n)
  /\ UNCHANGED <<services, published>>

\* The loop has ended: what follows is of the list it returns.
rendered == todo = {}

-----------------------------------------------------------------------------
(* haproxy.tmpl.                                                           *)

\* Mutant of Acls: the controller's acl matches any host.
AclsForAll ==
  {<<s.RealName, s.RealName>> : s \in Range(httpSvc)} \cup ({"deis-controller"} \X Label)

\* The acl lines: the acl's name and the host it matches.
Acls == {<<s.RealName, s.RealName>> : s \in Range(httpSvc)} \cup {<<"deis-controller", "deis">>}

\* The use_backend lines: the backend and the acl.
Rules ==
  [i \in DOMAIN httpSvc |-> <<httpSvc[i].RealName, httpSvc[i].RealName>>]
    \o <<<<"deis.domain", "deis-controller">>>>

\* The sections of the template's own that can serve requests: two listen
\* sections, the controller's backend and the default one.  Their servers (the
\* cluster's nodes, the router itself) are left out.
Own(name) == [name |-> name, servers |-> {}, json |-> name = "deis.domain"]
OwnNames == {"stats", "deis-builder", "deis.domain", "default-backend"}
OwnSections == <<Own("stats"), Own("deis-builder"), Own("deis.domain"), Own("default-backend")>>

\* A backend section for each entry, so that one name may have several.  Their
\* order is left out.
Backends ==
  OwnSections \o [i \in DOMAIN httpSvc |->
    [name |-> httpSvc[i].RealName, servers |-> httpSvc[i].Ep, json |-> httpSvc[i].ReturnsJson]]

-----------------------------------------------------------------------------
(* haproxy.                                                                *)

\* The use_backend lines whose acl matches.
Hits(host) == {i \in DOMAIN Rules : <<Rules[i][2], host>> \in Acls}

\* It takes the first one.
Route(host) == IF Hits(host) = {} THEN "default-backend" ELSE Rules[Min(Hits(host))][1]

\* Where there are several sections of that name it refuses the whole file or
\* uses one of them, depending on its version: any of these.
Serving(host) == {i \in DOMAIN Backends : Backends[i].name = Route(host)}

-----------------------------------------------------------------------------

Next == \E n \in Name : getServices(n)

Spec == Init /\ [][Next]_vars

-----------------------------------------------------------------------------
(* Properties.                                                             *)

Labelled(host) == {n \in Name : services[n] # Absent /\ services[n].label = host}

\* One section only can serve host, once haproxy has loaded the file: this one.
LeadsTo(host, section) == \E i \in DOMAIN Backends : Serving(host) = {i} /\ Backends[i] = section

\* No section of the template has that name, and for the controller's host
\* no service has taken the name of the controller's acl.
Free(host) ==
  /\ host \notin OwnNames \cup {""}
  /\ host = "deis" => Labelled("deis-controller") = {}

\* What the backend of service n and its port sp is meant to be.
Intended(n, sp) ==
  [name |-> services[n].label, json |-> services[n].json,
   servers |-> IF n \in published THEN UNION {{ip} \X Resolve(sp, ip) : ip \in Pods[n]} ELSE {}]

\* The target port is a number, or a name equal to that of the service port.
PlainTarget(sp) == sp.target.kind = "string" => sp.target.str = sp.name

\* Service n has a label for itself, and one port.
Sole(n) ==
  /\ services[n] # Absent /\ Free(services[n].label)
  /\ Labelled(services[n].label) = {n} /\ Len(services[n].ports) = 1

RoutedAsIntended(n) ==
  Sole(n) => LeadsTo(services[n].label, Intended(n, services[n].ports[1]))

(* "use the name of the application (hostname) to route traffic": the host *)
(* of a service with one port and a label for itself leads to exactly its  *)
(* pods, with json errors where asked for, whatever other services there   *)
(* are and in whatever order they come.  (If those have several ports or a *)
(* label in common, haproxy may refuse the file: then nothing is loaded.)  *)
HostReachesItsPods ==
  rendered => \A n \in Name :
    (services[n] # Absent => PlainTarget(services[n].ports[1])) => RoutedAsIntended(n)

(* A service with several ports, and services that share a label, render   *)
(* to several sections of one name.  If haproxy accepts them, the one it   *)
(* uses is that of one of the ports of the services labelled so, with the  *)
(* pods' numbers of that port: never a section of anybody else's, nor a    *)
(* mixture.                                                                *)
NoForeignBackend ==
  rendered => \A host \in Label :
    /\ Free(host) /\ Labelled(host) # {}
    /\ \A n \in Labelled(host) : \A sp \in Range(services[n].ports) : PlainTarget(sp)
    => /\ Route(host) = host
       /\ {Backends[i] : i \in Serving(host)} =
            UNION {{Intended(n, sp) : sp \in Range(services[n].ports)} : n \in Labelled(host)}

(* A host that no service is labelled with gets the default page, unless a *)
(* service is labelled with the name of the default backend.  The          *)
(* controller's host leads to the controller, unless a service is labelled *)
(* with that host, or with the name of the controller's acl or backend.    *)
UnknownHostGetsDefault ==
  rendered =>
    /\ Labelled("default-backend") = {} =>
         \A host \in Label \ {"", "deis"} :
           Labelled(host) = {} => LeadsTo(host, Own("default-backend"))
    /\ Labelled("deis") \cup Labelled("deis-controller") \cup Labelled("deis.domain") = {} =>
         LeadsTo("deis", Own("deis.domain"))

-----------------------------------------------------------------------------
(* What the sources say and the code does not do.                          *)

(* ServicePort.TargetPort: "If this is a string, it will be looked up as a *)
(* named port in the target Pod's container ports."  getEndpoints looks it *)
(* up among the endpoints' port names, which are those of service ports.   *)
NamedTargetPortIsResolved == rendered => \A n \in Name : RoutedAsIntended(n)
=============================================================================
