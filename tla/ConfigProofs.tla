----------------------------- MODULE ConfigProofs -----------------------------
(***************************************************************************)
(* Proofs about Config, for any services, labels, ports and pods.  The     *)
(* invariant of getServices' loop says which entries the list holds; it    *)
(* makes the backends those of the stores, one for each port, and the      *)
(* first rule that matches a host name the host's own backend.             *)
(***************************************************************************)
EXTENDS Config, WellFoundedInduction, TLAPS

Present == {n \in Name : services[n] # Absent}

AllEntries == UNION {Range(Entries(n)) : n \in Present}

\* One service with one port has this label.
Single(host) == \E n \in Name : Labelled(host) = {n} /\ Len(services[n].ports) = 1

\* Two entries of one name are of a service with several ports, or of several
\* services.
OneEach(list) ==
  \A i, j \in DOMAIN list : i # j /\ list[i].RealName = list[j].RealName =>
    ~Single(list[i].RealName)

\* The list holds the entries of the services that were visited.
LoopInv ==
  /\ services \in [Name -> Service \cup {Absent}]
  /\ todo \subseteq Present
  /\ httpSvc \in Seq(AllEntries)
  /\ Range(httpSvc) = UNION {Range(Entries(n)) : n \in Present \ todo}
  /\ OneEach(httpSvc)

\* The backend section that the template writes for an entry.
Section(s) == [name |-> s.RealName, servers |-> s.Ep, json |-> s.ReturnsJson]

\* Is there an entry of that name?
Named(host) == \E s \in Range(httpSvc) : s.RealName = host

-----------------------------------------------------------------------------
(* Sequences and numbers.                                                  *)

LEMMA RangeConcat ==
  ASSUME NEW T, NEW s \in Seq(T), NEW t \in Seq(T)
  PROVE  s \o t \in Seq(T) /\ Range(s \o t) = Range(s) \cup Range(t)
<1> DEFINE st == s \o t
           m == Len(s)
           n == Len(t)
<1>1. m \in Nat /\ n \in Nat /\ DOMAIN s = 1 .. m /\ DOMAIN t = 1 .. n
  OBVIOUS
<1>2. st \in Seq(T) /\ DOMAIN st = 1 .. m + n
  OBVIOUS
<1>3. \A i \in DOMAIN s : i \in DOMAIN st /\ st[i] = s[i]
  OBVIOUS
<1>4. ASSUME NEW i \in m + 1 .. m + n PROVE i - m \in DOMAIN t /\ st[i] = t[i - m]
  OBVIOUS
<1>5. ASSUME NEW i \in DOMAIN t PROVE i + m \in DOMAIN st /\ st[i + m] = t[i]
  OBVIOUS
<1>6. \A i \in DOMAIN st : i \in DOMAIN s \/ i \in m + 1 .. m + n
  BY <1>1, <1>2
<1> HIDE DEF st, m, n
<1>7. Range(st) = Range(s) \cup Range(t)
  BY <1>3, <1>4, <1>5, <1>6 DEF Range
<1> QED
  BY <1>2, <1>7 DEF st

LEMMA ConcatShape ==
  ASSUME NEW T, NEW s \in Seq(T), NEW t \in Seq(T)
  PROVE  /\ Len(s) \in Nat /\ Len(t) \in Nat
         /\ DOMAIN (s \o t) = 1 .. Len(s) + Len(t)
         /\ \A i \in 1 .. Len(s) : (s \o t)[i] = s[i]
         /\ \A i \in 1 .. Len(t) :
              Len(s) + i \in 1 .. Len(s) + Len(t) /\ (s \o t)[Len(s) + i] = t[i]
OBVIOUS

(* A set of numbers that is not empty has a least one.                     *)
LEMMA LeastIsMember ==
  ASSUME NEW T \in SUBSET Nat, T # {}
  PROVE  Min(T) \in T /\ \A j \in T : Min(T) <= j
<1> DEFINE R == OpToRel(<, Nat)
<1>1. IsWellFoundedOn(R, Nat)
  BY NatLessThanWellFounded
<1>2. \A x, y \in Nat : <<y, x>> \in R <=> y < x
  BY DEF OpToRel
<1> HIDE DEF R
<1>3. PICK i \in T : \A j \in T : ~(<<j, i>> \in R)
  BY <1>1, WFMin
<1>4. ASSUME NEW j \in T PROVE i <= j
  <2>1. ~(j < i)
    BY <1>2, <1>3
  <2> QED
    BY <2>1
<1>5. \E x \in T : \A y \in T : x <= y
  BY <1>4
<1> QED
  BY <1>5 DEF Min

LEMMA NotAfter == \A i, j, k \in Nat : i <= j /\ j <= k => i # k + 1
OBVIOUS

-----------------------------------------------------------------------------
(* One service.                                                            *)

(* What the API server lets a service be.                                  *)
LEMMA ServiceShape ==
  ASSUME NEW service \in Service
  PROVE  /\ service.ports \in PortLists
         /\ service.ports \in Seq(Port) /\ Range(service.ports) # {}
         /\ Range(service.ports) \subseteq Port
         /\ \A sp, sq \in Range(service.ports) : sp.name = sq.name => sp = sq
<1>1. service.ports \in PortLists
  BY DEF Service
<1>2. PICK k \in 1 .. MaxPorts : service.ports \in [1 .. k -> Port]
  BY <1>1 DEF PortLists
<1>3. k \in Nat /\ k >= 1 /\ service.ports \in Seq(Port) /\ DOMAIN service.ports = 1 .. k
  BY <1>2, MaxPortsAssumption
<1>4. \A i, j \in 1 .. k : service.ports[i].name = service.ports[j].name => i = j
  BY <1>1, <1>3 DEF PortLists
<1> QED
  BY <1>1, <1>2, <1>3, <1>4 DEF Range

(* The loop adds an entry for each port of a service that has a label.     *)
LEMMA EntriesOfService ==
  ASSUME LoopInv, NEW n \in Present
  PROVE  /\ services[n] \in Service
         /\ Entries(n) \in Seq(AllEntries)
         /\ Range(Entries(n)) =
              IF services[n].label = "" THEN {}
              ELSE {[RealName |-> services[n].label, ReturnsJson |-> services[n].json,
                     Ep |-> getEndpoints(n, sp)] : sp \in Range(services[n].ports)}
<1>1. services[n] \in Service
  BY DEF LoopInv, Present
<1>2. services[n].ports \in Seq(Port)
  BY <1>1, ServiceShape
<1>3. CASE services[n].label = ""
  <2>1. Entries(n) = <<>>
    BY <1>3 DEF Entries
  <2>2. Entries(n) \in Seq(AllEntries) /\ Range(Entries(n)) = {}
    BY <2>1 DEF Range
  <2> QED
    BY <1>1, <1>3, <2>2
<1>4. CASE services[n].label # ""
  <2> DEFINE k == Len(services[n].ports)
             e(i) == [RealName |-> services[n].label, ReturnsJson |-> services[n].json,
                      Ep |-> getEndpoints(n, services[n].ports[i])]
  <2>1. k \in Nat /\ DOMAIN services[n].ports = 1 .. k
    BY <1>2
  <2>2. Entries(n) = [i \in 1 .. k |-> e(i)]
    BY <1>4, <2>1 DEF Entries
  <2> HIDE DEF k, e
  <2>3. DOMAIN Entries(n) = 1 .. k /\ \A i \in 1 .. k : Entries(n)[i] = e(i)
    BY <2>2
  <2>4. \A i \in 1 .. k : e(i) \in AllEntries
    <3>1. Range(Entries(n)) \subseteq AllEntries
      BY DEF AllEntries
    <3>2. \A i \in 1 .. k : e(i) \in Range(Entries(n))
      BY <2>3 DEF Range
    <3> QED
      BY <3>1, <3>2
  <2>5. Entries(n) \in Seq(AllEntries)
    BY <2>1, <2>2, <2>4
  <2>6. Range(Entries(n)) =
          {[RealName |-> services[n].label, ReturnsJson |-> services[n].json,
            Ep |-> getEndpoints(n, sp)] : sp \in Range(services[n].ports)}
    BY <2>1, <2>3 DEF Range, e
  <2> QED
    BY <1>1, <1>4, <2>5, <2>6
<1> QED
  BY <1>3, <1>4

(* They have the service's label, and are not more than its ports.         *)
LEMMA EntryNames ==
  ASSUME LoopInv, NEW n \in Present
  PROVE  /\ Entries(n) \in Seq(AllEntries)
         /\ \A i \in DOMAIN Entries(n) :
              /\ i \in 1 .. Len(services[n].ports)
              /\ Entries(n)[i].RealName = services[n].label
<1>1. services[n] \in Service /\ Entries(n) \in Seq(AllEntries)
  BY EntriesOfService
<1>2. DOMAIN services[n].ports = 1 .. Len(services[n].ports)
  BY <1>1, ServiceShape
<1> DEFINE e(i) == [RealName |-> services[n].label, ReturnsJson |-> services[n].json,
                    Ep |-> getEndpoints(n, services[n].ports[i])]
<1>3. CASE services[n].label = ""
  <2>1. Entries(n) = <<>>
    BY <1>3 DEF Entries
  <2>2. DOMAIN Entries(n) = {}
    BY <2>1
  <2> QED
    BY <1>1, <2>2
<1>4. CASE services[n].label # ""
  <2>1. Entries(n) = [i \in DOMAIN services[n].ports |-> e(i)]
    BY <1>4 DEF Entries
  <2>2. \A i : e(i).RealName = services[n].label
    OBVIOUS
  <2> HIDE DEF e
  <2> QED
    BY <1>1, <1>2, <2>1, <2>2
<1> QED
  BY <1>3, <1>4

(* getEndpoints finds the pods' ports that a service port means, when its  *)
(* target is a number or has the name of the service port: the endpoints'  *)
(* ports have the names of the service ports, and those are unique.        *)
LEMMA EndpointsAsIntended ==
  ASSUME NEW n \in Name, services[n] \in Service, NEW sp \in Range(services[n].ports),
         sp.target.kind = "string" => sp.target.str = sp.name
  PROVE  getEndpoints(n, sp) =
           IF n \in published THEN UNION {{ip} \X Resolve(sp, ip) : ip \in Pods[n]} ELSE {}
<1> DEFINE Ports(ip) == UNION {{[name |-> sq.name, port |-> p] : p \in Resolve(sq, ip)}
                                 : sq \in Range(services[n].ports)}
           Found(ip) == {p.port : p \in {q \in Ports(ip) : Matches(q, sp.target) /\ q.port # 0}}
<1>1. /\ Range(services[n].ports) \subseteq Port
      /\ \A sq \in Range(services[n].ports) : sq.name = sp.name => sq = sp
  BY ServiceShape
<1>2. ASSUME NEW ip \in Pods[n] PROVE Found(ip) = Resolve(sp, ip)
  <2>1. \A p \in Resolve(sp, ip) : p # 0
    BY <1>1, PortAssumption, PodsAssumption DEF Resolve
  <2>2. ASSUME NEW p \in Resolve(sp, ip) PROVE p \in Found(ip)
    <3>1. [name |-> sp.name, port |-> p] \in Ports(ip)
      OBVIOUS
    <3>2. Matches([name |-> sp.name, port |-> p], sp.target)
      BY <1>1, PortAssumption DEF Matches, Resolve
    <3> HIDE DEF Ports
    <3> QED
      BY <3>1, <3>2, <2>1
  <2>3. ASSUME NEW q \in Ports(ip), Matches(q, sp.target) PROVE q.port \in Resolve(sp, ip)
    <3>1. PICK sq \in Range(services[n].ports) :
            \E p \in Resolve(sq, ip) : q = [name |-> sq.name, port |-> p]
      OBVIOUS
    <3>2. q.name = sq.name /\ q.port \in Resolve(sq, ip)
      BY <3>1
    <3>3. CASE sp.target.kind = "int"
      BY <3>3, <2>3 DEF Matches, Resolve
    <3>4. CASE sp.target.kind # "int"
      <4>1. sq = sp
        BY <3>2, <3>4, <2>3, <1>1, PortAssumption DEF Matches
      <4> QED
        BY <4>1, <3>2
    <3> QED
      BY <3>3, <3>4
  <2> HIDE DEF Ports
  <2> QED
    BY <2>2, <2>3
<1>3. CASE n \in published
  <2> DEFINE ss(ip) == [addresses |-> {ip}, ports |-> Ports(ip)]
             Servers(x) ==
               x.addresses \X {p.port : p \in {q \in x.ports : Matches(q, sp.target) /\ q.port # 0}}
  <2>1. getEndpoints(n, sp) = UNION {Servers(x) : x \in {ss(ip) : ip \in Pods[n]}}
    BY <1>3 DEF getEndpoints, Subsets
  <2> HIDE DEF Ports
  <2>2. \A ip \in Pods[n] : Servers(ss(ip)) = {ip} \X Found(ip)
    <3> SUFFICES ASSUME NEW ip \in Pods[n] PROVE Servers(ss(ip)) = {ip} \X Found(ip)
      OBVIOUS
    <3>1. ss(ip).addresses = {ip} /\ ss(ip).ports = Ports(ip)
      OBVIOUS
    <3> HIDE DEF ss
    <3> QED
      BY <3>1
  <2> HIDE DEF ss, Servers
  <2>3. getEndpoints(n, sp) = UNION {{ip} \X Found(ip) : ip \in Pods[n]}
    <3>1. UNION {Servers(x) : x \in {ss(ip) : ip \in Pods[n]}} = UNION {Servers(ss(ip)) : ip \in Pods[n]}
      OBVIOUS
    <3> QED
      BY <2>1, <2>2, <3>1
  <2> HIDE DEF Found
  <2> QED
    BY <2>3, <1>2, <1>3
<1>4. CASE n \notin published
  BY <1>4 DEF getEndpoints
<1> QED
  BY <1>3, <1>4

-----------------------------------------------------------------------------
(* The loop.                                                               *)

(* The entries of a service depend on the stores only.                     *)
LEMMA EntriesStay ==
  ASSUME UNCHANGED <<services, published>>
  PROVE  /\ \A n \in Name : Entries(n)' = Entries(n)
         /\ Present' = Present /\ AllEntries' = AllEntries
<1>1. \A n \in Name : Entries(n)' = Entries(n)
  BY DEF Entries, getEndpoints, Subsets
<1>2. Present' = Present /\ Present \subseteq Name
  BY DEF Present
<1>3. AllEntries' = AllEntries
  BY <1>1, <1>2 DEF AllEntries
<1> QED
  BY <1>1, <1>2, <1>3

(* A service that was not visited yet brings no second entry for a label   *)
(* that belongs to one service with one port.                              *)
LEMMA OneEachStays ==
  ASSUME LoopInv, NEW n \in todo
  PROVE  OneEach(httpSvc \o Entries(n))
<1> DEFINE new == Entries(n)
           list == httpSvc \o new
           m == Len(httpSvc)
<1>1. n \in Present /\ n \in Name /\ httpSvc \in Seq(AllEntries)
  BY DEF LoopInv, Present
<1>2. /\ new \in Seq(AllEntries)
      /\ \A i \in DOMAIN new : /\ i \in 1 .. Len(services[n].ports)
                               /\ new[i].RealName = services[n].label
  BY <1>1, EntryNames
<1> HIDE DEF new
<1>3. m \in Nat /\ DOMAIN httpSvc = 1 .. m
  BY <1>1
<1>4. \A i \in DOMAIN list :
        \/ i \in 1 .. m /\ list[i] = httpSvc[i]
        \/ i \in Nat /\ i - m \in DOMAIN new /\ list[i] = new[i - m]
  <2> DEFINE k == Len(new)
  <2>1. k \in Nat /\ DOMAIN new = 1 .. k /\ DOMAIN list = 1 .. m + k
    BY <1>1, <1>2
  <2>2. \A i \in 1 .. m : list[i] = httpSvc[i]
    BY <1>1, <1>2
  <2>3. \A i \in m + 1 .. m + k : list[i] = new[i - m]
    BY <1>1, <1>2
  <2> HIDE DEF list, m, k
  <2>4. ASSUME NEW i \in 1 .. m + k, i \notin 1 .. m
        PROVE  i \in Nat /\ i \in m + 1 .. m + k /\ i - m \in 1 .. k
    BY <1>3, <2>1, <2>4
  <2> QED
    BY <2>1, <2>2, <2>3, <2>4
<1> HIDE DEF list, m
<1>5. ASSUME NEW i \in 1 .. m, httpSvc[i].RealName = services[n].label
      PROVE  ~Single(services[n].label)
  <2>1. httpSvc[i] \in Range(httpSvc)
    BY <1>3 DEF Range
  <2>2. PICK v \in Present \ todo : httpSvc[i] \in Range(Entries(v))
    BY <2>1 DEF LoopInv
  <2>3. httpSvc[i].RealName = services[v].label
    BY <2>2, EntryNames DEF Range
  <2>4. v # n /\ {v, n} \subseteq Labelled(services[n].label)
    BY <1>1, <1>5, <2>2, <2>3 DEF Labelled, Present
  <2> QED
    BY <2>4 DEF Single
<1>6. ASSUME NEW i \in DOMAIN new, NEW j \in DOMAIN new, i # j
      PROVE  ~Single(services[n].label)
  <2>1. i \in 1 .. Len(services[n].ports) /\ j \in 1 .. Len(services[n].ports)
    BY <1>2
  <2>2. Len(services[n].ports) # 1
    <3>1. \A p, q \in 1 .. 1 : p = q
      OBVIOUS
    <3> QED
      BY <2>1, <1>6, <3>1
  <2>3. n \in Labelled(services[n].label)
    BY <1>1 DEF Labelled, Present
  <2> QED
    BY <2>2, <2>3 DEF Single
<1>7. ASSUME NEW i \in DOMAIN list, NEW j \in DOMAIN list, i # j,
             list[i].RealName = list[j].RealName
      PROVE  ~Single(list[i].RealName)
  <2>1. CASE i \in 1 .. m /\ list[i] = httpSvc[i] /\ j \in 1 .. m /\ list[j] = httpSvc[j]
    BY <1>3, <1>7, <2>1 DEF LoopInv, OneEach
  <2>2. CASE i \in 1 .. m /\ list[i] = httpSvc[i] /\ j - m \in DOMAIN new /\ list[j] = new[j - m]
    BY <1>2, <1>5, <1>7, <2>2
  <2>3. CASE i - m \in DOMAIN new /\ list[i] = new[i - m] /\ j \in 1 .. m /\ list[j] = httpSvc[j]
    BY <1>2, <1>5, <1>7, <2>3
  <2>4. CASE /\ i \in Nat /\ j \in Nat
             /\ i - m \in DOMAIN new /\ list[i] = new[i - m]
             /\ j - m \in DOMAIN new /\ list[j] = new[j - m]
    <3>1. i - m # j - m
      BY <1>3, <1>7, <2>4
    <3> QED
      BY <1>2, <1>6, <2>4, <3>1
  <2> QED
    BY <1>4, <2>1, <2>2, <2>3, <2>4
<1> QED
  BY <1>7 DEF OneEach, list, new

(* Whatever services were visited, the list holds their entries.           *)
THEOREM LoopInvariant == Spec => []LoopInv
<1>1. Init => LoopInv
  <2> SUFFICES ASSUME Init PROVE LoopInv
    OBVIOUS
  <2>1. Present \ todo = {} /\ todo \subseteq Present
    BY DEF Init, Present
  <2>2. httpSvc = <<>> /\ httpSvc \in Seq(AllEntries) /\ Range(httpSvc) = {}
    BY DEF Init, Range
  <2>3. OneEach(httpSvc)
    BY <2>2 DEF OneEach
  <2> QED
    BY <2>1, <2>2, <2>3 DEF Init, LoopInv
<1>2. LoopInv /\ [Next]_vars => LoopInv'
  <2> SUFFICES ASSUME LoopInv, [Next]_vars PROVE LoopInv'
    OBVIOUS
  <2>1. UNCHANGED <<services, published>>
    BY DEF Next, getServices, vars
  <2>2. /\ \A n \in Name : Entries(n)' = Entries(n)
        /\ Present' = Present /\ AllEntries' = AllEntries
    BY <2>1, EntriesStay
  <2>3. services' \in [Name -> Service \cup {Absent}] /\ Present \subseteq Name
    BY <2>1 DEF LoopInv, Present
  <2>4. ASSUME NEW T \in SUBSET Present
        PROVE  UNION {Range(Entries(n)') : n \in T} = UNION {Range(Entries(n)) : n \in T}
    BY <2>2, <2>3
  <2>0. \A host : Single(host)' <=> Single(host)
    BY <2>1 DEF Single, Labelled
  <2>5. ASSUME NEW n \in Name, getServices(n) PROVE LoopInv'
    <3>1. n \in Present /\ n \in todo /\ todo' = todo \ {n} /\ httpSvc' = httpSvc \o Entries(n)
      BY <2>5 DEF getServices, LoopInv
    <3>2. httpSvc \in Seq(AllEntries) /\ Entries(n) \in Seq(AllEntries)
      BY <3>1, EntriesOfService DEF LoopInv
    <3>3. /\ httpSvc' \in Seq(AllEntries)
          /\ Range(httpSvc') = Range(httpSvc) \cup Range(Entries(n))
      BY <3>1, <3>2, RangeConcat
    <3>4. Present \ todo' = (Present \ todo) \cup {n} /\ todo' \subseteq Present
      BY <3>1 DEF LoopInv
    <3>5. Range(httpSvc') = UNION {Range(Entries(m)) : m \in Present \ todo'}
      BY <3>3, <3>4 DEF LoopInv
    <3>6. Range(httpSvc') = UNION {Range(Entries(m)') : m \in Present' \ todo'}
      BY <3>5, <2>2, <2>4
    <3>7. OneEach(httpSvc)'
      BY <2>0, <3>1, OneEachStays DEF OneEach
    <3> QED
      BY <2>2, <2>3, <3>3, <3>4, <3>6, <3>7 DEF LoopInv
  <2>6. CASE UNCHANGED vars
    <3>1. todo' = todo /\ httpSvc' = httpSvc
      BY <2>6 DEF vars
    <3>2. Range(httpSvc') = UNION {Range(Entries(m)') : m \in Present' \ todo'}
      BY <3>1, <2>2, <2>4 DEF LoopInv
    <3>3. OneEach(httpSvc)'
      BY <2>0, <3>1 DEF LoopInv, OneEach
    <3> QED
      BY <2>2, <2>3, <3>1, <3>2, <3>3 DEF LoopInv
  <2> QED
    BY <2>5, <2>6 DEF Next
<1> QED
  BY <1>1, <1>2, PTL DEF Spec

-----------------------------------------------------------------------------
(* The template and haproxy's routing.                                     *)

(* When the loop has ended, the names in the list are the labels.          *)
LEMMA NamesAreLabels ==
  ASSUME LoopInv, rendered
  PROVE  /\ Range(httpSvc) = UNION {Range(Entries(n)) : n \in Present}
         /\ \A host : Named(host) <=> host # "" /\ Labelled(host) # {}
<1>1. Range(httpSvc) = UNION {Range(Entries(n)) : n \in Present}
  BY DEF LoopInv, rendered
<1>2. ASSUME NEW host, NEW s \in Range(httpSvc), s.RealName = host
      PROVE  host # "" /\ Labelled(host) # {}
  <2>1. PICK n \in Present : s \in Range(Entries(n))
    BY <1>1
  <2>2. Range(Entries(n)) =
          IF services[n].label = "" THEN {}
          ELSE {[RealName |-> services[n].label, ReturnsJson |-> services[n].json,
                 Ep |-> getEndpoints(n, sp)] : sp \in Range(services[n].ports)}
    BY EntriesOfService
  <2>3. services[n].label # "" /\ s.RealName = services[n].label
    <3>1. services[n].label # ""
      BY <2>1, <2>2
    <3>2. PICK sp \in Range(services[n].ports) :
            s = [RealName |-> services[n].label, ReturnsJson |-> services[n].json,
                 Ep |-> getEndpoints(n, sp)]
      BY <2>1, <2>2, <3>1
    <3> QED
      BY <3>1, <3>2
  <2> QED
    BY <1>2, <2>3 DEF Present, Labelled
<1>3. ASSUME NEW host, host # "", Labelled(host) # {}
      PROVE  Named(host)
  <2>1. PICK n \in Present : services[n].label = host
    BY <1>3 DEF Present, Labelled
  <2>2. services[n] \in Service
    BY EntriesOfService
  <2>3. PICK sp \in Range(services[n].ports) : TRUE
    BY <2>2, ServiceShape
  <2> DEFINE s == [RealName |-> services[n].label, ReturnsJson |-> services[n].json,
                   Ep |-> getEndpoints(n, sp)]
  <2>4. s \in Range(Entries(n))
    BY <1>3, <2>1, EntriesOfService
  <2>5. s.RealName = host
    BY <2>1
  <2> HIDE DEF s
  <2> QED
    BY <1>1, <2>4, <2>5 DEF Named
<1>4. ASSUME NEW host PROVE Named(host) <=> host # "" /\ Labelled(host) # {}
  BY <1>2, <1>3 DEF Named
<1> QED
  BY <1>1, <1>4

(* The rules: one per entry, and the controller's.                         *)
LEMMA RuleShape ==
  ASSUME LoopInv
  PROVE  /\ Len(httpSvc) \in Nat /\ DOMAIN httpSvc = 1 .. Len(httpSvc)
         /\ DOMAIN Rules = 1 .. Len(httpSvc) + 1
         /\ \A i \in 1 .. Len(httpSvc) :
              Rules[i][1] = httpSvc[i].RealName /\ Rules[i][2] = httpSvc[i].RealName
         /\ LET last == Len(httpSvc) + 1
            IN  Rules[last][1] = "deis.domain" /\ Rules[last][2] = "deis-controller"
<1> DEFINE m == Len(httpSvc)
           r == [i \in 1 .. m |-> <<httpSvc[i].RealName, httpSvc[i].RealName>>]
           T == {<<httpSvc[i].RealName, httpSvc[i].RealName>> : i \in 1 .. m}
                  \cup {<<"deis.domain", "deis-controller">>}
<1>1. m \in Nat /\ DOMAIN httpSvc = 1 .. m
  BY DEF LoopInv
<1>2. r \in Seq(T) /\ Len(r) = m /\ <<<<"deis.domain", "deis-controller">>>> \in Seq(T)
  BY <1>1
<1>3. Rules = r \o <<<<"deis.domain", "deis-controller">>>>
  BY <1>1 DEF Rules
<1>4. \A i \in 1 .. m : r[i] = <<httpSvc[i].RealName, httpSvc[i].RealName>>
  OBVIOUS
<1> HIDE DEF r, T, m
<1>5. /\ DOMAIN Rules = 1 .. m + 1
      /\ \A i \in 1 .. m : Rules[i] = <<httpSvc[i].RealName, httpSvc[i].RealName>>
      /\ Rules[m + 1] = <<"deis.domain", "deis-controller">>
  BY <1>1, <1>2, <1>3, <1>4
<1> QED
  BY <1>1, <1>5 DEF m

(* The rules that match a host are those of its own name; the controller's *)
(* host has those of the controller's acl, too.                            *)
LEMMA HitsOfHost ==
  ASSUME LoopInv, NEW host
  PROVE  /\ Hits(host) \in SUBSET Nat
         /\ \A i \in Hits(host) :
              \/ /\ i <= Len(httpSvc) /\ Named(Rules[i][1])
                 /\ Rules[i][1] = host \/ (host = "deis" /\ Rules[i][1] = "deis-controller")
              \/ /\ i = Len(httpSvc) + 1 /\ Rules[i][1] = "deis.domain"
                 /\ host = "deis" \/ (host = "deis-controller" /\ Named(host))
         /\ Named(host) => \E i \in Hits(host) : i <= Len(httpSvc)
         /\ host = "deis" => Hits(host) # {}
<1> DEFINE m == Len(httpSvc)
<1>1. m \in Nat /\ DOMAIN httpSvc = 1 .. m /\ DOMAIN Rules = 1 .. m + 1
  BY RuleShape
<1>2. /\ \A i \in 1 .. m : Rules[i][1] = httpSvc[i].RealName /\ Rules[i][2] = httpSvc[i].RealName
      /\ Rules[m + 1][1] = "deis.domain" /\ Rules[m + 1][2] = "deis-controller"
  BY RuleShape
<1> HIDE DEF m
<1>3. \A acl : <<acl, host>> \in Acls <=>
        \/ acl = host /\ Named(host)
        \/ acl = "deis-controller" /\ host = "deis"
  BY DEF Acls, Named
<1>4. \A i \in Hits(host) : i \in 1 .. m + 1 /\ <<Rules[i][2], host>> \in Acls
  BY <1>1 DEF Hits
<1>5. ASSUME NEW i \in Hits(host)
      PROVE  \/ /\ i <= m /\ Named(Rules[i][1])
                /\ Rules[i][1] = host \/ (host = "deis" /\ Rules[i][1] = "deis-controller")
             \/ /\ i = m + 1 /\ Rules[i][1] = "deis.domain"
                /\ host = "deis" \/ (host = "deis-controller" /\ Named(host))
  <2>1. <<Rules[i][2], host>> \in Acls /\ i \in 1 .. m + 1
    BY <1>4
  <2>2. CASE i = m + 1
    BY <2>1, <2>2, <1>2, <1>3
  <2>3. CASE i \in 1 .. m
    <3>1. Named(Rules[i][1])
      BY <2>3, <1>1, <1>2 DEF Named, Range
    <3>2. i <= m
      BY <2>3, <1>1
    <3>3. Rules[i][2] = Rules[i][1]
      BY <2>3, <1>2
    <3> QED
      BY <2>1, <3>1, <3>2, <3>3, <1>3
  <2>4. i = m + 1 \/ i \in 1 .. m
    BY <2>1, <1>1
  <2> QED
    BY <2>2, <2>3, <2>4
<1>6. ASSUME Named(host) PROVE \E i \in Hits(host) : i <= m
  <2>1. PICK i \in 1 .. m : httpSvc[i].RealName = host
    BY <1>1, <1>6 DEF Named, Range
  <2>2. i \in DOMAIN Rules /\ i <= m
    BY <2>1, <1>1
  <2>3. Rules[i][2] = host
    BY <2>1, <1>2
  <2> QED
    BY <2>2, <2>3, <1>3, <1>6 DEF Hits
<1>7. ASSUME host = "deis" PROVE Hits(host) # {}
  <2>1. m + 1 \in DOMAIN Rules
    BY <1>1
  <2> QED
    BY <2>1, <1>2, <1>3, <1>7 DEF Hits
<1>8. Hits(host) \in SUBSET Nat
  <2>1. Hits(host) \subseteq 1 .. m + 1
    BY <1>1 DEF Hits
  <2> QED
    BY <2>1, <1>1
<1> QED
  BY <1>5, <1>6, <1>7, <1>8 DEF m

(* The first of them leads to the host's own backend, unless a service     *)
(* has taken the name of the controller's acl.                             *)
LEMMA RouteOfHost ==
  ASSUME LoopInv, rendered, NEW host, host # "",
         host = "deis" => Labelled("deis-controller") = {}
  PROVE  Route(host) = IF Labelled(host) # {} THEN host
                       ELSE IF host = "deis" THEN "deis.domain" ELSE "default-backend"
<1> DEFINE first == Min(Hits(host))
           m == Len(httpSvc)
<1>1. /\ Named(host) <=> Labelled(host) # {}
      /\ Named("deis-controller") <=> Labelled("deis-controller") # {}
  BY NamesAreLabels
<1>2. Hits(host) # {} => first \in Hits(host) /\ \A i \in Hits(host) : first <= i
  BY HitsOfHost, LeastIsMember
<1>3. Hits(host) # {} => Route(host) = Rules[first][1]
  BY DEF Route
<1>4. m \in Nat
  BY RuleShape
<1>5. Hits(host) # {} => first \in Nat
  BY <1>2, HitsOfHost
<1> HIDE DEF first, m
<1>6. CASE Labelled(host) # {}
  <2>1. PICK i \in Hits(host) : i <= m
    BY <1>1, <1>6, HitsOfHost DEF m
  <2>2. first \in Hits(host) /\ first <= i /\ i \in Nat /\ first \in Nat
    BY <2>1, <1>2, <1>5, HitsOfHost
  <2>3. first # m + 1
    BY <2>1, <2>2, <1>4, NotAfter
  <2>4. /\ Named(Rules[first][1])
        /\ Rules[first][1] = host \/ (host = "deis" /\ Rules[first][1] = "deis-controller")
    BY <2>2, <2>3, HitsOfHost DEF m
  <2>5. Rules[first][1] = host
    BY <2>4, <1>1
  <2> QED
    BY <1>3, <1>6, <2>2, <2>5
<1>7. CASE Labelled(host) = {} /\ host = "deis"
  <2>1. first \in Hits(host)
    BY <1>2, <1>7, HitsOfHost
  <2>2. Rules[first][1] = "deis.domain"
    <3>1. Rules[first][1] = host => ~Named(Rules[first][1])
      BY <1>1, <1>7
    <3>2. Rules[first][1] = "deis-controller" => ~Named(Rules[first][1])
      BY <1>1, <1>7
    <3> QED
      BY <2>1, <3>1, <3>2, HitsOfHost
  <2> QED
    BY <1>3, <1>7, <2>1, <2>2
<1>8. CASE Labelled(host) = {} /\ host # "deis"
  <2>1. ASSUME NEW i \in Hits(host) PROVE FALSE
    <3>1. ~Named(host)
      BY <1>1, <1>8
    <3>2. Named(host)
      BY <1>8, HitsOfHost
    <3> QED
      BY <3>1, <3>2
  <2>2. Hits(host) = {}
    BY <2>1
  <2> QED
    BY <1>8, <2>2 DEF Route
<1> QED
  BY <1>6, <1>7, <1>8

(* The sections: the four of the template's own, and one per entry.        *)
LEMMA BackendShape ==
  ASSUME LoopInv
  PROVE  /\ DOMAIN Backends = 1 .. 4 + Len(httpSvc)
         /\ \A i \in 1 .. 4 : Backends[i] = OwnSections[i] /\ Backends[i].name \in OwnNames
         /\ Backends[3] = Own("deis.domain") /\ Backends[4] = Own("default-backend")
         /\ \A i, j \in 1 .. 4 : Backends[i].name = Backends[j].name => i = j
         /\ \A i \in DOMAIN httpSvc :
              4 + i \in DOMAIN Backends /\ Backends[4 + i] = Section(httpSvc[i])
<1> DEFINE m == Len(httpSvc)
           r == [i \in 1 .. m |-> Section(httpSvc[i])]
           T == {Section(httpSvc[i]) : i \in 1 .. m} \cup {Own(name) : name \in OwnNames}
           own == OwnSections
<1>1. m \in Nat /\ DOMAIN httpSvc = 1 .. m
  BY RuleShape
<1>2. r \in Seq(T) /\ Len(r) = m /\ \A i \in 1 .. m : r[i] = Section(httpSvc[i])
  BY <1>1
<1>3. Backends = own \o r
  BY <1>1 DEF Backends, Section
<1>4. /\ own[1] = Own("stats") /\ own[2] = Own("deis-builder")
      /\ own[3] = Own("deis.domain") /\ own[4] = Own("default-backend")
  BY DEF OwnSections
<1>5. own \in Seq(T) /\ Len(own) = 4
  <2> DEFINE a == Own("stats")
             b == Own("deis-builder")
             c == Own("deis.domain")
             d == Own("default-backend")
  <2>1. a \in T /\ b \in T /\ c \in T /\ d \in T
    BY DEF OwnNames
  <2>2. own = <<a, b, c, d>>
    BY DEF OwnSections
  <2> HIDE DEF a, b, c, d, T, own
  <2> QED
    BY <2>1, <2>2
<1> HIDE DEF r, T, m, own
<1>6. /\ DOMAIN Backends = 1 .. 4 + m
      /\ \A i \in 1 .. 4 : Backends[i] = own[i]
      /\ \A i \in 1 .. m : 4 + i \in 1 .. 4 + m /\ Backends[4 + i] = r[i]
  <2>1. /\ DOMAIN (own \o r) = 1 .. Len(own) + Len(r)
        /\ \A i \in 1 .. Len(own) : (own \o r)[i] = own[i]
        /\ \A i \in 1 .. Len(r) :
             Len(own) + i \in 1 .. Len(own) + Len(r) /\ (own \o r)[Len(own) + i] = r[i]
    <3>1. own \in Seq(T) /\ r \in Seq(T)
      BY <1>2, <1>5
    <3> QED
      BY <3>1, ConcatShape
  <2> DEFINE k == Len(own)
             n == Len(r)
  <2>2. k = 4 /\ n = m
    BY <1>2, <1>5
  <2>3. /\ DOMAIN Backends = 1 .. k + n
        /\ \A i \in 1 .. k : Backends[i] = own[i]
        /\ \A i \in 1 .. n : k + i \in 1 .. k + n /\ Backends[k + i] = r[i]
    BY <2>1, <1>3, Zenon
  <2> HIDE DEF k, n
  <2> QED
    BY <2>2, <2>3, Zenon
<1>7. \A name : Own(name).name = name
  BY DEF Own
<1>8. /\ Backends[1].name = "stats" /\ Backends[2].name = "deis-builder"
      /\ Backends[3].name = "deis.domain" /\ Backends[4].name = "default-backend"
  BY <1>4, <1>6, <1>7
<1>9. \A i \in 1 .. 4 : i = 1 \/ i = 2 \/ i = 3 \/ i = 4
  OBVIOUS
<1>10. \A i \in 1 .. 4 : Backends[i].name \in OwnNames
  BY <1>8, <1>9 DEF OwnNames
<1>11. \A i, j \in 1 .. 4 : Backends[i].name = Backends[j].name => i = j
  BY <1>8, <1>9
<1>12. Backends[3] = Own("deis.domain") /\ Backends[4] = Own("default-backend")
  BY <1>4, <1>6
<1> QED
  BY <1>1, <1>2, <1>6, <1>10, <1>11, <1>12 DEF m, own

(* The sections that can serve a host: those of the entries of the name it *)
(* is routed to, and a section of the template's if that has the name.     *)
LEMMA ServingOfHost ==
  ASSUME LoopInv, NEW host
  PROVE  /\ \A j \in Serving(host) :
              \/ j \in 1 .. 4 /\ Backends[j].name = Route(host)
              \/ \E i \in DOMAIN httpSvc : j = 4 + i /\ httpSvc[i].RealName = Route(host)
         /\ \A j \in 1 .. 4 : Backends[j].name = Route(host) => j \in Serving(host)
         /\ \A i \in DOMAIN httpSvc :
              httpSvc[i].RealName = Route(host) => 4 + i \in Serving(host)
<1> DEFINE m == Len(httpSvc)
<1>1. m \in Nat /\ DOMAIN httpSvc = 1 .. m /\ DOMAIN Backends = 1 .. 4 + m
  BY RuleShape, BackendShape
<1>2. \A i \in 1 .. m : Backends[4 + i] = Section(httpSvc[i])
  BY <1>1, BackendShape
<1>3. \A s : Section(s).name = s.RealName
  BY DEF Section
<1> HIDE DEF m
<1>4. ASSUME NEW j \in Serving(host)
      PROVE  \/ j \in 1 .. 4 /\ Backends[j].name = Route(host)
             \/ \E i \in DOMAIN httpSvc : j = 4 + i /\ httpSvc[i].RealName = Route(host)
  <2>1. j \in 1 .. 4 + m /\ Backends[j].name = Route(host)
    BY <1>1 DEF Serving
  <2>2. CASE j \in 1 .. 4
    BY <2>1, <2>2
  <2>3. CASE j \notin 1 .. 4
    <3> DEFINE i == j - 4
    <3>1. i \in 1 .. m /\ j = 4 + i
      BY <2>1, <2>3, <1>1
    <3> HIDE DEF i
    <3>2. httpSvc[i].RealName = Route(host)
      BY <2>1, <3>1, <1>2, <1>3
    <3> QED
      BY <3>1, <3>2, <1>1
  <2> QED
    BY <2>2, <2>3
<1>5. ASSUME NEW j \in 1 .. 4, Backends[j].name = Route(host) PROVE j \in Serving(host)
  <2>1. j \in 1 .. 4 + m
    BY <1>1
  <2> QED
    BY <2>1, <1>1, <1>5 DEF Serving
<1>6. ASSUME NEW i \in DOMAIN httpSvc, httpSvc[i].RealName = Route(host)
      PROVE  4 + i \in Serving(host)
  <2>1. 4 + i \in 1 .. 4 + m /\ i \in 1 .. m
    BY <1>1
  <2>2. Backends[4 + i].name = Route(host)
    BY <2>1, <1>2, <1>3, <1>6
  <2> QED
    BY <2>1, <2>2, <1>1 DEF Serving
<1> QED
  BY <1>4, <1>5, <1>6

(* A name that no service is labelled with is that of one section at most. *)
LEMMA OwnSectionServes ==
  ASSUME LoopInv, rendered, NEW host, NEW k \in 1 .. 4, Route(host) = Backends[k].name,
         Labelled(Route(host)) = {}
  PROVE  LeadsTo(host, Backends[k])
<1>1. ~Named(Route(host))
  BY NamesAreLabels
<1>2. \A i \in DOMAIN httpSvc : httpSvc[i].RealName # Route(host)
  BY <1>1 DEF Named, Range
<1>3. k \in Serving(host)
  BY ServingOfHost
<1>4. \A j \in Serving(host) : j = k
  BY <1>2, ServingOfHost, BackendShape
<1>5. Serving(host) = {k} /\ k \in DOMAIN Backends
  BY <1>3, <1>4 DEF Serving
<1> QED
  BY <1>5 DEF LeadsTo

(* A host that no service is labelled with gets the default backend, and   *)
(* the controller's host the controller's, and no other section can be     *)
(* taken for those, while no service has taken their names.                *)
THEOREM UnknownHostsGetDefault == Spec => []UnknownHostGetsDefault
<1>1. LoopInv => UnknownHostGetsDefault
  <2> SUFFICES ASSUME LoopInv, rendered PROVE UnknownHostGetsDefault
    BY DEF UnknownHostGetsDefault
  <2>0. /\ 4 \in 1 .. 4
        /\ Backends[3] = Own("deis.domain") /\ Backends[4] = Own("default-backend")
        /\ Backends[3].name = "deis.domain" /\ Backends[4].name = "default-backend"
    BY BackendShape DEF Own
  <2>1. ASSUME Labelled("default-backend") = {},
               NEW host \in Label \ {"", "deis"}, Labelled(host) = {}
        PROVE  LeadsTo(host, Own("default-backend"))
    <3>1. Route(host) = "default-backend"
      BY <2>1, RouteOfHost
    <3>2. Route(host) = Backends[4].name /\ Labelled(Route(host)) = {}
      BY <3>1, <2>0, <2>1
    <3>3. LeadsTo(host, Backends[4])
      BY <3>2, <2>0, OwnSectionServes
    <3> QED
      BY <3>3, <2>0
  <2>2. ASSUME Labelled("deis") \cup Labelled("deis-controller") \cup Labelled("deis.domain") = {}
        PROVE  LeadsTo("deis", Own("deis.domain"))
    <3>1. Route("deis") = "deis.domain"
      BY <2>2, RouteOfHost
    <3>2. Labelled("deis.domain") = {}
      BY <2>2
    <3> QED
      BY <3>1, <3>2, <2>0, OwnSectionServes
  <2> QED
    BY <2>1, <2>2 DEF UnknownHostGetsDefault
<1> QED
  BY <1>1, LoopInvariant, PTL

(* The sections of a labelled host: those of the entries of that name.     *)
LEMMA SectionsOfHost ==
  ASSUME LoopInv, rendered, NEW host, Free(host), Labelled(host) # {}
  PROVE  /\ Route(host) = host
         /\ \A j \in Serving(host) : \E i \in DOMAIN httpSvc :
              j = 4 + i /\ httpSvc[i].RealName = host /\ Backends[j] = Section(httpSvc[i])
         /\ \A i \in DOMAIN httpSvc : httpSvc[i].RealName = host =>
              4 + i \in Serving(host) /\ Backends[4 + i] = Section(httpSvc[i])
<1>1. Route(host) = host
  BY RouteOfHost DEF Free
<1>2. \A j \in 1 .. 4 : Backends[j].name # host
  BY BackendShape DEF Free
<1> QED
  BY <1>1, <1>2, ServingOfHost, BackendShape

(* They are what the stores say of the services labelled so: one for each  *)
(* port, with the pods that it selects and the numbers it means.           *)
LEMMA SectionsAsIntended ==
  ASSUME LoopInv, rendered, NEW host, Free(host), Labelled(host) # {},
         \A n \in Labelled(host) : \A sp \in Range(services[n].ports) : PlainTarget(sp)
  PROVE  {Backends[i] : i \in Serving(host)} =
           UNION {{Intended(n, sp) : sp \in Range(services[n].ports)} : n \in Labelled(host)}
<1> DEFINE Entry(n, sp) == [RealName |-> services[n].label, ReturnsJson |-> services[n].json,
                            Ep |-> getEndpoints(n, sp)]
           Have == {Backends[i] : i \in Serving(host)}
<1>1. /\ Labelled(host) \subseteq Present /\ Present \subseteq Name
      /\ \A n \in Present : services[n].label = host <=> n \in Labelled(host)
  BY DEF Labelled, Present
<1>2. \A n \in Present : services[n].label # "" =>
        Range(Entries(n)) = {Entry(n, sp) : sp \in Range(services[n].ports)}
  BY EntriesOfService
<1>3. ASSUME NEW n \in Labelled(host), NEW sp \in Range(services[n].ports)
      PROVE  Section(Entry(n, sp)) = Intended(n, sp)
  <2>1. services[n] \in Service /\ n \in Name
    BY <1>1, EntriesOfService
  <2>2. getEndpoints(n, sp) =
          IF n \in published THEN UNION {{ip} \X Resolve(sp, ip) : ip \in Pods[n]} ELSE {}
    BY <2>1, EndpointsAsIntended DEF PlainTarget
  <2> QED
    BY <2>2 DEF Intended, Section
<1>4. ASSUME NEW b \in Have
      PROVE  \E n \in Labelled(host) : \E sp \in Range(services[n].ports) : b = Intended(n, sp)
  <2>1. PICK i \in DOMAIN httpSvc : httpSvc[i].RealName = host /\ b = Section(httpSvc[i])
    BY SectionsOfHost
  <2> DEFINE s == httpSvc[i]
  <2>2. PICK n \in Present : s \in Range(Entries(n))
    <3>1. s \in Range(httpSvc)
      BY DEF Range
    <3> QED
      BY <3>1, NamesAreLabels
  <2>3. services[n].label # ""
    BY <2>2, EntriesOfService
  <2>4. PICK sp \in Range(services[n].ports) : s = Entry(n, sp)
    BY <1>2, <2>2, <2>3
  <2>5. services[n].label = host
    BY <2>1, <2>4
  <2>6. n \in Labelled(host)
    BY <1>1, <2>5
  <2> HIDE DEF Entry
  <2> QED
    BY <2>1, <2>4, <2>6, <1>3
<1>5. ASSUME NEW n \in Labelled(host), NEW sp \in Range(services[n].ports)
      PROVE  Intended(n, sp) \in Have
  <2>1. n \in Present /\ services[n].label = host /\ host # ""
    BY <1>1 DEF Free
  <2>2. Entry(n, sp) \in Range(Entries(n)) /\ Entry(n, sp).RealName = host
    BY <1>2, <2>1
  <2> HIDE DEF Entry
  <2>3. PICK i \in DOMAIN httpSvc : httpSvc[i] = Entry(n, sp)
    <3>1. Entry(n, sp) \in Range(httpSvc)
      BY <2>1, <2>2, NamesAreLabels
    <3> QED
      BY <3>1 DEF Range
  <2>4. 4 + i \in Serving(host) /\ Backends[4 + i] = Section(httpSvc[i])
    BY <2>2, <2>3, SectionsOfHost
  <2> QED
    BY <1>3, <2>3, <2>4
<1> DEFINE Of(n) == {Intended(n, sp) : sp \in Range(services[n].ports)}
<1>6. ASSUME NEW n \in Labelled(host), NEW b \in Of(n) PROVE b \in Have
  <2>1. PICK sp \in Range(services[n].ports) : b = Intended(n, sp)
    BY <1>6
  <2> QED
    BY <2>1, <1>5
<1>7. ASSUME NEW b \in Have PROVE \E n \in Labelled(host) : b \in Of(n)
  BY <1>7, <1>4
<1> HIDE DEF Of, Have
<1>8. Have = UNION {Of(n) : n \in Labelled(host)}
  BY <1>6, <1>7
<1> QED
  BY <1>8 DEF Of, Have

(* Where several sections have the name of a host (a service with several  *)
(* ports, services with one label), haproxy has the choice among those of  *)
(* the ports of the services labelled so, and among no others.             *)
THEOREM NoForeignBackends == Spec => []NoForeignBackend
<1>1. LoopInv => NoForeignBackend
  <2> SUFFICES ASSUME LoopInv, rendered, NEW host \in Label, Free(host), Labelled(host) # {},
                      \A n \in Labelled(host) : \A sp \in Range(services[n].ports) : PlainTarget(sp)
               PROVE  /\ Route(host) = host
                      /\ {Backends[i] : i \in Serving(host)} =
                           UNION {{Intended(n, sp) : sp \in Range(services[n].ports)}
                                    : n \in Labelled(host)}
    BY DEF NoForeignBackend
  <2> QED
    BY SectionsOfHost, SectionsAsIntended
<1> QED
  BY <1>1, LoopInvariant, PTL

(* The host of a service with one port and a label for itself leads to one *)
(* section, whatever other services there are: that of exactly its pods,   *)
(* when the target port is a number or a name equal to that of the service *)
(* port.                                                                   *)
THEOREM HostsReachTheirPods == Spec => []HostReachesItsPods
<1>1. LoopInv => HostReachesItsPods
  <2> SUFFICES ASSUME LoopInv, rendered, NEW n \in Name, Sole(n),
                      PlainTarget(services[n].ports[1])
               PROVE  LeadsTo(services[n].label, Intended(n, services[n].ports[1]))
    BY DEF HostReachesItsPods, RoutedAsIntended, Sole
  <2> DEFINE host == services[n].label
             sp == services[n].ports[1]
  <2>1. Free(host) /\ Labelled(host) = {n} /\ Single(host) /\ n \in Present
    BY DEF Sole, Single, Present
  <2>2. Range(services[n].ports) = {sp}
    <3>1. services[n].ports \in Seq(Port) /\ Len(services[n].ports) = 1
      BY <2>1, EntriesOfService, ServiceShape DEF Sole
    <3>2. DOMAIN services[n].ports = {1}
      BY <3>1
    <3> QED
      BY <3>2 DEF Range
  <2> HIDE DEF host, sp
  <2>3. \A k \in Labelled(host) : \A sq \in Range(services[k].ports) : PlainTarget(sq)
    BY <2>1, <2>2 DEF sp
  <2>4. {Backends[i] : i \in Serving(host)} = {Intended(n, sp)}
    <3>1. UNION {{Intended(k, sq) : sq \in Range(services[k].ports)} : k \in Labelled(host)}
            = {Intended(n, sp)}
      BY <2>1, <2>2
    <3> QED
      BY <2>1, <2>3, <3>1, SectionsAsIntended
  <2>5. PICK i \in Serving(host) : Backends[i] = Intended(n, sp)
    BY <2>4
  <2>6. ASSUME NEW j \in Serving(host) PROVE j = i
    <3>1. PICK x \in DOMAIN httpSvc : i = 4 + x /\ httpSvc[x].RealName = host
      BY <2>1, SectionsOfHost
    <3>2. PICK y \in DOMAIN httpSvc : j = 4 + y /\ httpSvc[y].RealName = host
      BY <2>1, SectionsOfHost
    <3>3. x = y
      BY <2>1, <3>1, <3>2 DEF LoopInv, OneEach
    <3> QED
      BY <3>1, <3>2, <3>3
  <2>7. Serving(host) = {i} /\ i \in DOMAIN Backends
    BY <2>6 DEF Serving
  <2>8. LeadsTo(host, Intended(n, sp))
    BY <2>5, <2>7 DEF LeadsTo
  <2> QED
    BY <2>8 DEF host, sp
<1> QED
  BY <1>1, LoopInvariant, PTL

\* A named target port that none of the service's own ports is named after.
NamedElsewhere(n, sp) ==
  /\ sp.target.kind = "string"
  /\ \A sq \in Range(services[n].ports) : sq.name # sp.target.str

\* The backend of such a port is there, without a server.
NamedElsewhereIsEmpty ==
  rendered => \A n \in Name : services[n] # Absent /\ services[n].label # "" =>
    \A sp \in Range(services[n].ports) : NamedElsewhere(n, sp) =>
      [name |-> services[n].label, json |-> services[n].json, servers |-> {}]
        \in Range(Backends)

(* Why NamedTargetPortIsResolved fails, and for every service: getEndpoints*)
(* compares the name with those of the endpoints' ports, which are the     *)
(* service's own, so it finds no pod whatever ports the pods have.         *)
THEOREM NamedTargetFindsNoPod == Spec => []NamedElsewhereIsEmpty
<1>1. LoopInv => NamedElsewhereIsEmpty
  <2> SUFFICES ASSUME LoopInv, rendered, NEW n \in Name, services[n] # Absent,
                      services[n].label # "", NEW sp \in Range(services[n].ports),
                      NamedElsewhere(n, sp)
               PROVE  [name |-> services[n].label, json |-> services[n].json, servers |-> {}]
                        \in Range(Backends)
    BY DEF NamedElsewhereIsEmpty
  <2> DEFINE entry == [RealName |-> services[n].label, ReturnsJson |-> services[n].json,
                       Ep |-> getEndpoints(n, sp)]
  <2>1. n \in Present
    BY DEF Present
  <2> DEFINE Ports(ip) == UNION {{[name |-> sq.name, port |-> p] : p \in Resolve(sq, ip)}
                                   : sq \in Range(services[n].ports)}
             ss(ip) == [addresses |-> {ip}, ports |-> Ports(ip)]
             Taken(x) == {q \in x.ports : Matches(q, sp.target) /\ q.port # 0}
  <2>2. ASSUME NEW ip \in Pods[n], NEW q \in Ports(ip) PROVE ~Matches(q, sp.target)
    <3>1. PICK sq \in Range(services[n].ports) :
            q \in {[name |-> sq.name, port |-> p] : p \in Resolve(sq, ip)}
      BY <2>2
    <3> HIDE DEF Ports, entry
    <3>2. PICK p \in Resolve(sq, ip) : q = [name |-> sq.name, port |-> p]
      BY <3>1
    <3>3. q.name = sq.name
      BY <3>2
    <3> QED
      BY <3>3 DEF Matches, NamedElsewhere
  <2>3. getEndpoints(n, sp) = {}
    <3>1. getEndpoints(n, sp) =
            UNION {x.addresses \X {p.port : p \in Taken(x)}
                     : x \in IF n \in published THEN {ss(ip) : ip \in Pods[n]} ELSE {}}
      BY DEF getEndpoints, Subsets
    <3> HIDE DEF Ports
    <3>2. \A ip \in Pods[n] : ss(ip).ports = Ports(ip)
      OBVIOUS
    <3> HIDE DEF ss
    <3>3. \A ip \in Pods[n] : Taken(ss(ip)) = {}
      BY <2>2, <3>2
    <3>4. \A ip \in Pods[n] : ss(ip).addresses \X {p.port : p \in Taken(ss(ip))} = {}
      BY <3>3
    <3> HIDE DEF Taken
    <3> QED
      BY <3>1, <3>4
  <2>4. entry \in Range(Entries(n))
    BY <2>1, EntriesOfService
  <2>5. entry \in Range(httpSvc)
    BY <2>1, <2>4, NamesAreLabels
  <2>6. Section(entry) = [name |-> services[n].label, json |-> services[n].json, servers |-> {}]
    BY <2>3 DEF Section
  <2> HIDE DEF entry
  <2>7. PICK i \in DOMAIN httpSvc : httpSvc[i] = entry
    BY <2>5 DEF Range
  <2>8. Section(entry) \in Range(Backends)
    BY <2>7, BackendShape DEF Range
  <2> QED
    BY <2>6, <2>8
<1> QED
  BY <1>1, LoopInvariant, PTL
=============================================================================
