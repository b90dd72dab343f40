-------------------------- MODULE RouteTableProofs --------------------------
(***************************************************************************)
(* Proofs about RouteTable for any set of addresses, channels and receive  *)
(* threads, and any setting of the options.                                *)
(***************************************************************************)
EXTENDS RouteTable, FiniteSetTheorems, TLAPS

(* What one list promises.                                                 *)
ListOK(list) ==
    /\ list \in Seq(Entry)
    /\ list # <<>>
    /\ \A i, j \in DOMAIN list : list[i].key = list[j].key => i = j
    /\ \A i, j \in 1..(Len(list) - 1) : i < j => list[i].rt <= list[j].rt
    /\ useChannelType = "P2p" => \A i \in DOMAIN list : IsP2p(list[i])

(* The inductive invariant: every list in the table keeps its promise and  *)
(* an insertion between its two locks was admitted.                        *)
IInv ==
    /\ TypeOK
    /\ \A id \in DOMAIN routeTable : ListOK(routeTable[id])
    /\ \A r \in Receivers : inserting[r] # None => Admitted(inserting[r].route)

-----------------------------------------------------------------------------
(* A set of positions of a list is as large as a natural number.           *)
LEMMA PositionsFinite ==
  ASSUME NEW list \in Seq(Entry), NEW Pos \in SUBSET DOMAIN list
  PROVE  Cardinality(Pos) \in Nat /\ (Pos # {} => Cardinality(Pos) # 0)
<1>1. IsFiniteSet(1..Len(list))
  BY FS_Interval
<1>2. IsFiniteSet(Pos)
  BY <1>1, FS_Subset
<1>3. QED
  BY <1>2, FS_CardinalityType, FS_EmptySet

(* A stable sort permutes the chosen elements and orders them.             *)
LEMMA SortedFacts ==
  ASSUME NEW list \in Seq(Entry), NEW Pos \in SUBSET DOMAIN list,
         NEW t \in SortedByRt(list, Pos)
  PROVE  /\ t \in Seq(Entry)
         /\ Len(t) = Cardinality(Pos)
         /\ \E p \in Injection(DOMAIN t, Pos) : \A n \in DOMAIN t : t[n] = list[p[n]]
         /\ \A m, n \in DOMAIN t : m < n => t[m].rt <= t[n].rt
<1> DEFINE N == Cardinality(Pos)
<1>1. N \in Nat
  BY PositionsFinite
<1>2. PICK p \in Bijection(1..N, Pos) :
          /\ \A m, n \in 1..N : m < n =>
                \/ list[p[m]].rt < list[p[n]].rt
                \/ list[p[m]].rt = list[p[n]].rt /\ p[m] < p[n]
          /\ t = [n \in 1..N |-> list[p[n]]]
  BY DEF SortedByRt, Arranged
<1>3. p \in [1..N -> Pos] /\ p \in Injection(1..N, Pos)
  BY <1>2 DEF Bijection, Injection
<1>4. \A n \in 1..N : list[p[n]] \in Entry
  BY <1>3
<1>5. t \in Seq(Entry) /\ Len(t) = N /\ DOMAIN t = 1..N
  BY <1>1, <1>2, <1>4
<1>6. \A e \in Entry : e.rt \in Nat
  BY RouteTableAssumption DEF Entry
<1>7. \A n \in DOMAIN t : t[n] = list[p[n]]
  BY <1>2, <1>5
<1>8. ASSUME NEW m \in DOMAIN t, NEW n \in DOMAIN t, m < n PROVE t[m].rt <= t[n].rt
  <2>1. m \in 1..N /\ n \in 1..N
    BY <1>5
  <2>2. list[p[m]].rt \in Nat /\ list[p[n]].rt \in Nat
    BY <1>4, <1>6, <2>1
  <2>3. list[p[m]].rt < list[p[n]].rt \/ list[p[m]].rt = list[p[n]].rt
    BY <1>2, <1>8, <2>1
  <2>4. t[m] = list[p[m]] /\ t[n] = list[p[n]]
    BY <1>7
  <2> QED  BY <2>2, <2>3, <2>4
<1>9. p \in Injection(DOMAIN t, Pos)
  BY <1>3, <1>5
<1> QED
  BY <1>5, <1>7, <1>8, <1>9

(* Retaining keeps the chosen elements in their order.                     *)
LEMMA RetainedFacts ==
  ASSUME NEW list \in Seq(Entry), NEW Pos \in SUBSET DOMAIN list,
         NEW t \in Retained(list, Pos)
  PROVE  /\ t \in Seq(Entry)
         /\ Len(t) = Cardinality(Pos)
         /\ \E p \in [DOMAIN t -> Pos] :
               /\ \A m, n \in DOMAIN t : m < n => p[m] < p[n]
               /\ \A n \in DOMAIN t : t[n] = list[p[n]]
<1> DEFINE N == Cardinality(Pos)
<1>1. N \in Nat
  BY PositionsFinite
<1>2. PICK p \in Bijection(1..N, Pos) :
          /\ \A m, n \in 1..N : m < n => p[m] < p[n]
          /\ t = [n \in 1..N |-> list[p[n]]]
  BY DEF Retained, Arranged
<1>3. p \in [1..N -> Pos]
  BY <1>2 DEF Bijection, Injection
<1>4. \A n \in 1..N : list[p[n]] \in Entry
  BY <1>3
<1>5. t \in Seq(Entry) /\ Len(t) = N /\ DOMAIN t = 1..N
  BY <1>1, <1>2, <1>4
<1> QED
  BY <1>2, <1>3, <1>5

-----------------------------------------------------------------------------
(* Pushing a new channel onto a list keeps the list's promise.             *)
LEMMA PushedOK ==
  ASSUME NEW list \in Seq(Entry), list = <<>> \/ ListOK(list),
         NEW route \in Route, Admitted(route),
         ~HasKey(list, route.key),
         NEW new \in Pushed(list, route)
  PROVE  ListOK(new)
<1> DEFINE kept == {i \in DOMAIN list :
                      ~firstLatency /\ IsP2p(route) => IsP2p(list[i])}
           e == NewEntry(route)
<1>1. PICK s \in SortedByRt(list, kept) : new = Append(s, e)
  BY DEF Pushed
<1>2. /\ s \in Seq(Entry)
      /\ \E p \in Injection(DOMAIN s, kept) : \A n \in DOMAIN s : s[n] = list[p[n]]
      /\ \A m, n \in DOMAIN s : m < n => s[m].rt <= s[n].rt
  <2>1. kept \in SUBSET DOMAIN list
    OBVIOUS
  <2> QED
    BY <2>1, SortedFacts
<1>3. PICK p \in Injection(DOMAIN s, kept) : \A n \in DOMAIN s : s[n] = list[p[n]]
  BY <1>2
<1>4. p \in [DOMAIN s -> DOMAIN list] /\ \A a, b \in DOMAIN s : p[a] = p[b] => a = b
  BY <1>3 DEF Injection, IsInjective
<1>5. e \in Entry /\ e.key = route.key /\ e.metric = route.metric
  BY RouteTableAssumption DEF NewEntry, Route, Entry
<1>6. /\ new \in Seq(Entry) /\ new # <<>> /\ Len(new) = Len(s) + 1
      /\ \A i \in DOMAIN s : new[i] = s[i]
      /\ new[Len(s) + 1] = e
      /\ DOMAIN new = 1..(Len(s) + 1) /\ DOMAIN s = 1..Len(s) /\ Len(s) \in Nat
  BY <1>1, <1>2, <1>5
<1>7. \A i \in DOMAIN s : new[i] = list[p[i]] /\ new[i].key # route.key
  BY <1>3, <1>4, <1>6 DEF HasKey
<1>8. \A i, j \in DOMAIN new : new[i].key = new[j].key => i = j
  <2>1. \A i, j \in DOMAIN list : list[i].key = list[j].key => i = j
    BY DEF ListOK
  <2>2. \A i, j \in DOMAIN s : new[i].key = new[j].key => i = j
    BY <1>4, <1>7, <2>1
  <2> QED
    BY <1>5, <1>6, <1>7, <2>2
<1>9. \A i, j \in 1..(Len(new) - 1) : i < j => new[i].rt <= new[j].rt
  <2>1. \A i \in 1..(Len(new) - 1) : i \in DOMAIN s /\ new[i] = s[i]
    BY <1>6
  <2>2. \A i, j \in DOMAIN s : i < j => s[i].rt <= s[j].rt
    BY <1>2
  <2> QED
    BY <2>1, <2>2, Zenon
<1>10. useChannelType = "P2p" => \A i \in DOMAIN new : IsP2p(new[i])
  <2>1. useChannelType = "P2p" => \A i \in DOMAIN list : IsP2p(list[i])
    BY DEF ListOK
  <2> QED
    BY <1>4, <1>5, <1>6, <1>7, <2>1 DEF Admitted, IsP2p
<1> QED
  BY <1>6, <1>8, <1>9, <1>10 DEF ListOK

(* Refreshing a channel of a list and sorting it keeps the promise.        *)
LEMMA RefreshedOK ==
  ASSUME NEW list \in Seq(Entry), ListOK(list),
         NEW route \in Route, Admitted(route),
         NEW new \in SortedByRt(Refreshed(list, route), DOMAIN Refreshed(list, route))
  PROVE  ListOK(new)
<1> DEFINE r == Refreshed(list, route)
<1>1. /\ r \in Seq(Entry) /\ Len(r) = Len(list) /\ DOMAIN r = DOMAIN list
      /\ \A i \in DOMAIN r : r[i].key = list[i].key
      /\ \A i \in DOMAIN r : r[i] = list[i] \/ r[i].metric = route.metric
  <2>1. \A i \in DOMAIN list : list[i] \in Entry
    OBVIOUS
  <2>2. /\ NewEntry(route) \in Entry
        /\ NewEntry(route).key = route.key
        /\ NewEntry(route).metric = route.metric
    BY RouteTableAssumption DEF Entry, Route, NewEntry
  <2>3. /\ DOMAIN r = DOMAIN list
        /\ \A i \in DOMAIN list : \/ r[i] = list[i]
                                  \/ r[i] = NewEntry(route) /\ list[i].key = route.key
    BY DEF Refreshed
  <2>4. \A i \in DOMAIN list : r[i] \in Entry
    BY <2>1, <2>2, <2>3
  <2>5. r = [i \in 1..Len(list) |-> r[i]] /\ Len(list) \in Nat
    <3>1. DOMAIN list = 1..Len(list) /\ Len(list) \in Nat
      OBVIOUS
    <3> QED
      BY <3>1 DEF Refreshed
  <2>6. r \in Seq(Entry) /\ Len(r) = Len(list)
    BY <2>4, <2>5
  <2> QED
    BY <2>2, <2>3, <2>6
<1>2. DOMAIN r \in SUBSET DOMAIN r
  OBVIOUS
<1>3. /\ new \in Seq(Entry) /\ Len(new) = Cardinality(DOMAIN r)
      /\ \E p \in Injection(DOMAIN new, DOMAIN r) : \A n \in DOMAIN new : new[n] = r[p[n]]
      /\ \A m, n \in DOMAIN new : m < n => new[m].rt <= new[n].rt
  BY <1>1, <1>2, SortedFacts
<1>4. PICK p \in Injection(DOMAIN new, DOMAIN r) : \A n \in DOMAIN new : new[n] = r[p[n]]
  BY <1>3
<1>5. /\ p \in [DOMAIN new -> DOMAIN r]
      /\ \A a, b \in DOMAIN new : p[a] = p[b] => a = b
  BY <1>4 DEF Injection, IsInjective
<1>6. new # <<>>
  <2>1. DOMAIN r # {}
    BY <1>1 DEF ListOK
  <2>2. Cardinality(DOMAIN r) # 0
    BY <1>1, <1>2, <2>1, PositionsFinite
  <2> QED
    BY <1>3, <2>2
<1>7. \A i, j \in DOMAIN new : new[i].key = new[j].key => i = j
  BY <1>1, <1>4, <1>5 DEF ListOK
<1>8. \A i, j \in 1..(Len(new) - 1) : i < j => new[i].rt <= new[j].rt
  BY <1>3
<1>9. useChannelType = "P2p" => \A i \in DOMAIN new : IsP2p(new[i])
  BY <1>1, <1>4, <1>5 DEF ListOK, Admitted, IsP2p
<1> QED
  BY <1>3, <1>6, <1>7, <1>8, <1>9 DEF ListOK

(* add_route_ leaves a list that keeps its promise, whatever it decides.   *)
LEMMA AddRoute_OK ==
  ASSUME NEW list \in Seq(Entry), list = <<>> \/ ListOK(list),
         NEW route \in Route, Admitted(route), NEW b \in BOOLEAN,
         NEW new \in AddRoute_(list, route, b)
  PROVE  ListOK(new)
<1>1. CASE Longer(list, route)
  <2>1. list # <<>> /\ new = list
    BY <1>1 DEF Longer, AddRoute_
  <2> QED
    BY <2>1
<1>2. CASE ~Longer(list, route) /\ ~HasKey(list, route.key)
  <2>1. new \in Pushed(list, route)
    BY <1>2 DEF AddRoute_
  <2> QED
    BY <1>2, <2>1, PushedOK
<1>3. CASE ~Longer(list, route) /\ HasKey(list, route.key)
  <2>1. ListOK(list)
    BY <1>3 DEF HasKey
  <2>2. CASE b
    BY <1>3, <2>1, <2>2 DEF AddRoute_
  <2>3. CASE ~b
    <3>1. new \in SortedByRt(Refreshed(list, route), DOMAIN Refreshed(list, route))
      BY <1>3, <2>3 DEF AddRoute_
    <3> QED
      BY <2>1, <3>1, RefreshedOK
  <2> QED
    BY <2>2, <2>3
<1> QED
  BY <1>1, <1>2, <1>3

(* remove_route leaves a list that keeps its promise, if it leaves one.    *)
LEMMA RetainedOK ==
  ASSUME NEW list \in Seq(Entry), ListOK(list),
         NEW Pos \in SUBSET DOMAIN list, Pos # {},
         NEW new \in Retained(list, Pos)
  PROVE  ListOK(new)
<1>1. /\ new \in Seq(Entry) /\ Len(new) = Cardinality(Pos)
      /\ \E p \in [DOMAIN new -> Pos] :
            /\ \A m, n \in DOMAIN new : m < n => p[m] < p[n]
            /\ \A n \in DOMAIN new : new[n] = list[p[n]]
  BY RetainedFacts
<1>2. PICK p \in [DOMAIN new -> Pos] :
            /\ \A m, n \in DOMAIN new : m < n => p[m] < p[n]
            /\ \A n \in DOMAIN new : new[n] = list[p[n]]
  BY <1>1
<1>3. new # <<>>
  BY <1>1, PositionsFinite
<1>4. /\ DOMAIN new = 1..Len(new) /\ Len(new) \in Nat
      /\ DOMAIN list = 1..Len(list) /\ Len(list) \in Nat
      /\ \A n \in DOMAIN new : p[n] \in 1..Len(list)
  BY <1>1, <1>2
<1>5. \A i, j \in DOMAIN new : new[i].key = new[j].key => i = j
  BY <1>2, <1>4 DEF ListOK
<1>6. \A i, j \in 1..(Len(new) - 1) : i < j => new[i].rt <= new[j].rt
  <2> SUFFICES ASSUME NEW i \in 1..(Len(new) - 1), NEW j \in 1..(Len(new) - 1), i < j
               PROVE  new[i].rt <= new[j].rt
    OBVIOUS
  <2>0. /\ i \in DOMAIN new /\ j \in DOMAIN new /\ Len(new) \in DOMAIN new
        /\ j < Len(new)
    BY <1>4
  <2>1. p[i] < p[j] /\ p[j] < p[Len(new)] /\ p[Len(new)] \in 1..Len(list)
    BY <1>2, <1>4, <2>0
  <2>2. p[i] \in 1..(Len(list) - 1) /\ p[j] \in 1..(Len(list) - 1)
    BY <1>4, <2>0, <2>1
  <2>3. new[i] = list[p[i]] /\ new[j] = list[p[j]]
    BY <1>2, <2>0
  <2>4. \A a, b \in 1..(Len(list) - 1) : a < b => list[a].rt <= list[b].rt
    BY DEF ListOK
  <2> QED
    BY <2>1, <2>2, <2>3, <2>4
<1>7. useChannelType = "P2p" => \A i \in DOMAIN new : IsP2p(new[i])
  BY <1>2, <1>4 DEF ListOK
<1> QED
  BY <1>1, <1>3, <1>5, <1>6, <1>7 DEF ListOK

-----------------------------------------------------------------------------
(* The part of the invariant that is about the table.                      *)
TableOK ==
    /\ DOMAIN routeTable \subseteq Ids
    /\ routeTable \in [DOMAIN routeTable -> Seq(Entry)]
    /\ \A id \in DOMAIN routeTable : ListOK(routeTable[id])

(* Reading the list of any address.                                        *)
LEMMA ListFacts ==
  ASSUME IInv, NEW id
  PROVE  List(id) \in Seq(Entry) /\ (List(id) = <<>> \/ ListOK(List(id)))
BY DEF IInv, TypeOK, List

(* The options do not change, so a list that is good before a step is good *)
(* after it.                                                               *)
LEMMA TablePrimed ==
  ASSUME UNCHANGED config,
         DOMAIN routeTable' \subseteq Ids,
         routeTable' \in [DOMAIN routeTable' -> Seq(Entry)],
         \A id \in DOMAIN routeTable' : ListOK(routeTable'[id])
  PROVE  TableOK'
<1>1. useChannelType' = useChannelType
  BY DEF config
<1> QED
  BY <1>1 DEF TableOK, ListOK, IsP2p

LEMMA AdmittedPrimed ==
  ASSUME UNCHANGED config,
         \A r \in Receivers : inserting'[r] # None => Admitted(inserting'[r].route)
  PROVE  (\A r \in Receivers : inserting[r] # None => Admitted(inserting[r].route))'
BY DEF config, Admitted, IsP2p

(* Writing a good list keeps the table good.                               *)
LEMMA PutOK ==
  ASSUME IInv, NEW id \in Ids, NEW list, ListOK(list), Put(id, list), UNCHANGED config
  PROVE  TableOK'
<1>1. list \in Seq(Entry)
  BY DEF ListOK
<1>2. /\ DOMAIN routeTable' = DOMAIN routeTable \cup {id}
      /\ \A x \in DOMAIN routeTable' :
            routeTable'[x] = IF x = id THEN list ELSE routeTable[x]
      /\ routeTable' = [x \in DOMAIN routeTable' |-> routeTable'[x]]
  BY DEF Put
<1>3. \A x \in DOMAIN routeTable' : routeTable'[x] \in Seq(Entry) /\ ListOK(routeTable'[x])
  BY <1>1, <1>2 DEF IInv, TypeOK
<1>4. DOMAIN routeTable' \subseteq Ids
  BY <1>2 DEF IInv, TypeOK
<1> QED
  BY <1>2, <1>3, <1>4, TablePrimed

(* Neither a refreshed read time nor a tick touches what a list promises.  *)
LEMMA AgedOK ==
  ASSUME NEW list \in Seq(Entry), ListOK(list), NEW new,
         new = [i \in DOMAIN list |-> new[i]],
         \A i \in DOMAIN list :
            \E a \in 0..ReadIdle : new[i] = [list[i] EXCEPT !.age = a]
  PROVE  ListOK(new)
<1>1. \A i \in DOMAIN list : list[i] \in Entry
  OBVIOUS
<1>2. \A i \in DOMAIN list :
        /\ new[i] \in Entry /\ new[i].key = list[i].key
        /\ new[i].rt = list[i].rt /\ new[i].metric = list[i].metric
  BY <1>1 DEF Entry
<1>3. DOMAIN list = 1..Len(list) /\ Len(list) \in Nat
  OBVIOUS
<1>4. new \in Seq(Entry) /\ Len(new) = Len(list) /\ DOMAIN new = DOMAIN list
  <2>1. new = [i \in 1..Len(list) |-> new[i]]
    BY <1>3
  <2> QED
    BY <1>2, <1>3, <2>1
<1>5. new # <<>>
  BY <1>3, <1>4 DEF ListOK
<1>6. \A i, j \in DOMAIN new : new[i].key = new[j].key => i = j
  BY <1>2, <1>4 DEF ListOK
<1>7. \A i, j \in 1..(Len(new) - 1) : i < j => new[i].rt <= new[j].rt
  BY <1>2, <1>3, <1>4 DEF ListOK
<1>8. useChannelType = "P2p" => \A i \in DOMAIN new : IsP2p(new[i])
  BY <1>2, <1>4 DEF ListOK, IsP2p
<1> QED
  BY <1>4, <1>5, <1>6, <1>7, <1>8 DEF ListOK

-----------------------------------------------------------------------------
LEMMA InitIInv == Init => IInv
BY DEF Init, IInv, TypeOK

LEMMA AddRouteIInv ==
  ASSUME IInv, NEW id \in Ids, NEW route \in Route, AddRoute(id, route)
  PROVE  IInv'
<1>1. PICK list \in AddRoute_(List(id), route, FALSE) : Put(id, list)
  BY DEF AddRoute
<1>2. ListOK(list)
  BY ListFacts, AddRoute_OK DEF AddRoute
<1>3. TableOK'
  BY <1>1, <1>2, PutOK DEF AddRoute
<1>4. (\A r \in Receivers : inserting[r] # None => Admitted(inserting[r].route))'
  BY AdmittedPrimed DEF IInv, AddRoute
<1> QED
  BY <1>3, <1>4 DEF TableOK, IInv, TypeOK, AddRoute, config

LEMMA CheckAbsentIInv ==
  ASSUME IInv, NEW r \in Receivers, NEW id \in Ids, NEW route \in Route,
         CheckAbsent(r, id, route)
  PROVE  IInv'
<1>1. TypeOK'
  BY DEF IInv, TypeOK, CheckAbsent, config
<1>2. \A q \in Receivers : inserting'[q] # None => Admitted(inserting'[q].route)
  BY DEF IInv, TypeOK, CheckAbsent
<1>3. TableOK'
  BY <1>1, TablePrimed DEF IInv, TypeOK, CheckAbsent
<1> QED
  BY <1>1, <1>2, <1>3, AdmittedPrimed DEF IInv, TableOK, CheckAbsent

LEMMA InsertAbsentIInv ==
  ASSUME IInv, NEW r \in Receivers, InsertAbsent(r)
  PROVE  IInv'
<1>1. /\ inserting[r] \in [id : Ids, route : Route]
      /\ Admitted(inserting[r].route)
  BY DEF IInv, TypeOK, InsertAbsent
<1>2. PICK list \in AddRoute_(List(inserting[r].id), inserting[r].route, TRUE) :
          Put(inserting[r].id, list)
  BY DEF InsertAbsent
<1>3. ListOK(list)
  BY <1>1, ListFacts, AddRoute_OK
<1>4. TableOK'
  BY <1>1, <1>2, <1>3, PutOK DEF InsertAbsent
<1>5. /\ inserting' \in [Receivers -> {None} \cup [id : Ids, route : Route]]
      /\ \A q \in Receivers : inserting'[q] # None => Admitted(inserting'[q].route)
  BY DEF IInv, TypeOK, InsertAbsent
<1> QED
  BY <1>4, <1>5, AdmittedPrimed DEF TableOK, IInv, TypeOK, InsertAbsent, config

LEMMA UpdateReadTimeIInv ==
  ASSUME IInv, NEW id \in Ids, NEW key \in Keys, UpdateReadTime(id, key)
  PROVE  IInv'
<1> DEFINE list == routeTable[id]
           new == [i \in DOMAIN list |->
                     IF list[i].key = key /\ \A j \in 1..(i - 1) : list[j].key # key
                     THEN [list[i] EXCEPT !.age = 0] ELSE list[i]]
<1>1. id \in DOMAIN routeTable
  BY DEF UpdateReadTime, HasKey, List
<1>2. list \in Seq(Entry) /\ ListOK(list)
  BY <1>1 DEF IInv, TypeOK
<1>3. \A i \in DOMAIN list : \E a \in 0..ReadIdle : new[i] = [list[i] EXCEPT !.age = a]
  <2> SUFFICES ASSUME NEW i \in DOMAIN list
               PROVE  \E a \in 0..ReadIdle : new[i] = [list[i] EXCEPT !.age = a]
    OBVIOUS
  <2>1. list[i] \in Entry
    BY <1>2
  <2>2. list[i].age \in 0..ReadIdle /\ list[i] = [list[i] EXCEPT !.age = list[i].age]
    BY <2>1 DEF Entry
  <2>3. 0 \in 0..ReadIdle
    BY RouteTableAssumption
  <2>4. new[i] = [list[i] EXCEPT !.age = 0] \/ new[i] = list[i]
    OBVIOUS
  <2> HIDE DEF new, list
  <2> QED
    BY <2>2, <2>3, <2>4
<1>4. ListOK(new)
  <2>1. new = [i \in DOMAIN list |-> new[i]]
    OBVIOUS
  <2> HIDE DEF new
  <2> QED
    BY <1>2, <1>3, <2>1, AgedOK
<1>5. routeTable' = [routeTable EXCEPT ![id] = new]
  BY DEF UpdateReadTime
<1>6. Put(id, new)
  BY <1>1, <1>5 DEF Put
<1>7. TableOK'
  BY <1>4, <1>6, PutOK DEF UpdateReadTime
<1> QED
  BY <1>7, AdmittedPrimed DEF TableOK, IInv, TypeOK, UpdateReadTime, config

LEMMA NextIdleIInv ==
  ASSUME IInv, NEW id \in Ids, NEW key \in Keys, NextIdle(id, key)
  PROVE  IInv'
<1>1. TypeOK'
  BY DEF IInv, TypeOK, NextIdle, config
<1>2. TableOK'
  BY <1>1, TablePrimed DEF IInv, TypeOK, NextIdle
<1> QED
  BY <1>1, <1>2, AdmittedPrimed DEF IInv, TableOK, NextIdle

LEMMA IdleRouteIInv ==
  ASSUME IInv, IdleRoute
  PROVE  IInv'
<1> DEFINE id == expiring.id
           key == expiring.key
           pos == {i \in DOMAIN List(id) : List(id)[i].key # key}
<1>1. id \in Ids /\ key \in Keys
  BY DEF IdleRoute, IInv, TypeOK
<1>2. RemoveRoute(id, key)
  BY DEF IdleRoute
<1>3. TableOK'
  <2>1. CASE id \notin DOMAIN routeTable
    BY <1>2, <2>1, TablePrimed DEF RemoveRoute, IInv, TypeOK, IdleRoute
  <2>2. CASE id \in DOMAIN routeTable /\ pos = {}
    <3>1. routeTable' = [x \in DOMAIN routeTable \ {id} |-> routeTable[x]]
      BY <1>2, <2>2 DEF RemoveRoute, Restrict
    <3> QED
      BY <3>1, TablePrimed DEF IInv, TypeOK, IdleRoute
  <2>3. CASE id \in DOMAIN routeTable /\ pos # {}
    <3>1. PICK list \in Retained(List(id), pos) : Put(id, list)
      BY <1>2, <2>3 DEF RemoveRoute
    <3>2. ListOK(List(id)) /\ List(id) \in Seq(Entry) /\ pos \in SUBSET DOMAIN List(id)
      BY <2>3 DEF IInv, TypeOK, List
    <3>3. ListOK(list)
      BY <2>3, <3>1, <3>2, RetainedOK
    <3> QED
      BY <1>1, <3>1, <3>3, PutOK DEF IdleRoute
  <2> QED
    BY <2>1, <2>2, <2>3
<1> QED
  BY <1>3, AdmittedPrimed DEF TableOK, IInv, TypeOK, IdleRoute, config

LEMMA TickIInv ==
  ASSUME IInv, Tick
  PROVE  IInv'
<1>1. /\ DOMAIN routeTable' = DOMAIN routeTable
      /\ routeTable' = [x \in DOMAIN routeTable |-> routeTable'[x]]
  BY DEF Tick
<1>2. ASSUME NEW id \in DOMAIN routeTable
      PROVE  ListOK(routeTable'[id])
  <2> DEFINE list == routeTable[id]
             new == routeTable'[id]
  <2>1. new = [i \in DOMAIN list |->
                 [list[i] EXCEPT !.age = IF @ < ReadIdle THEN @ + 1 ELSE @]]
    BY DEF Tick
  <2>2. list \in Seq(Entry) /\ ListOK(list)
    BY DEF IInv, TypeOK
  <2>3. \A i \in DOMAIN list : \E a \in 0..ReadIdle : new[i] = [list[i] EXCEPT !.age = a]
    <3> SUFFICES ASSUME NEW i \in DOMAIN list
                 PROVE  \E a \in 0..ReadIdle : new[i] = [list[i] EXCEPT !.age = a]
      OBVIOUS
    <3> DEFINE a == IF list[i].age < ReadIdle THEN list[i].age + 1 ELSE list[i].age
    <3>0. list[i] \in Entry
      BY <2>2
    <3>1. list[i].age \in 0..ReadIdle
      BY <3>0 DEF Entry
    <3>2. a \in 0..ReadIdle
      BY <3>1, RouteTableAssumption
    <3>3. new[i] = [list[i] EXCEPT !.age = a]
      BY <2>1
    <3> HIDE DEF a
    <3> QED
      BY <3>2, <3>3
  <2>4. new = [i \in DOMAIN list |-> new[i]]
    BY <2>1
  <2> HIDE DEF new, list
  <2> QED
    BY <2>2, <2>3, <2>4, AgedOK DEF new
<1>3. \A id \in DOMAIN routeTable' : routeTable'[id] \in Seq(Entry)
  BY <1>1, <1>2 DEF ListOK
<1>4. TableOK'
  BY <1>1, <1>2, <1>3, TablePrimed DEF IInv, TypeOK, Tick
<1> QED
  BY <1>4, AdmittedPrimed DEF TableOK, IInv, TypeOK, Tick, config

LEMMA NextIInv == IInv /\ [Next]_vars => IInv'
<1> SUFFICES ASSUME IInv, [Next]_vars PROVE IInv'
  OBVIOUS
<1>1. ASSUME NEW id \in Ids, NEW key \in Keys, NEW m \in Metrics, NEW rt \in Rts,
             AddRoute(id, [key |-> key, metric |-> m, rt |-> rt])
      PROVE  IInv'
  <2>1. [key |-> key, metric |-> m, rt |-> rt] \in Route
    BY DEF Route
  <2> QED
    BY <1>1, <2>1, AddRouteIInv
<1>2. ASSUME NEW r \in Receivers, NEW id \in Ids, NEW key \in Keys, NEW m \in Metrics,
             CheckAbsent(r, id, [key |-> key, metric |-> m, rt |-> DEFAULT_RT])
      PROVE  IInv'
  <2>1. [key |-> key, metric |-> m, rt |-> DEFAULT_RT] \in Route
    BY DEF Route
  <2> QED
    BY <1>2, <2>1, CheckAbsentIInv
<1>3. CASE UNCHANGED vars
  <2>1. TypeOK'
    BY <1>3 DEF vars, config, IInv, TypeOK
  <2>2. TableOK'
    BY <1>3, <2>1, TablePrimed DEF vars, IInv, TypeOK
  <2> QED
    BY <1>3, <2>1, <2>2, AdmittedPrimed DEF IInv, TableOK, vars
<1> QED
  BY <1>1, <1>2, <1>3, InsertAbsentIInv, UpdateReadTimeIInv, NextIdleIInv,
     IdleRouteIInv, TickIInv DEF Next

(* The inductive invariant holds in every reachable state.                 *)
THEOREM Inductive == Spec => []IInv
BY InitIInv, NextIInv, PTL DEF Spec

(* The table's lists, the pending insertions and the pending removal are   *)
(* well typed in every reachable state.                                    *)
THEOREM TypeCorrect == Spec => []TypeOK
<1>1. IInv => TypeOK
  BY DEF IInv
<1> QED
  BY <1>1, Inductive, PTL

(* No interleaving of receive threads and the scheduler lists a channel    *)
(* twice for an address.                                                   *)
THEOREM ChannelsUnique == Spec => []UniqueKeys
<1>1. IInv => UniqueKeys
  BY DEF IInv, UniqueKeys, ListOK
<1> QED
  BY <1>1, Inductive, PTL

(* An address in the table always has at least one route.                  *)
THEOREM ListsNotEmpty == Spec => []NoEmptyLists
<1>1. IInv => NoEmptyLists
  BY DEF IInv, NoEmptyLists, ListOK
<1> QED
  BY <1>1, Inductive, PTL

(* Every list is ordered by round-trip time up to its last element.        *)
THEOREM ListsSorted == Spec => []SortedButLast
<1>1. IInv => SortedButLast
  BY DEF IInv, SortedButLast, ListOK
<1> QED
  BY <1>1, Inductive, PTL

(* With --use-channel p2p the table holds direct routes only.              *)
THEOREM P2pTable == Spec => []OnlyDirectRoutes
<1>1. IInv => OnlyDirectRoutes
  BY DEF IInv, OnlyDirectRoutes, ListOK
<1> QED
  BY <1>1, Inductive, PTL

-----------------------------------------------------------------------------
(* What one step may do to a list.                                         *)
NotLonger(old, new) ==
    \A i \in DOMAIN old, j \in DOMAIN new :
        old[i].key = new[j].key => new[j].metric <= old[i].metric

StillMeasured(old, new) ==
    \A i \in DOMAIN old, j \in DOMAIN new :
        old[i].key = new[j].key /\ old[i].rt # DEFAULT_RT => new[j].rt # DEFAULT_RT

DirectKept(old, new, gone) ==
    \A i \in DOMAIN old :
        IsP2p(old[i]) /\ old[i].key \notin gone =>
            \E j \in DOMAIN new : new[j].key = old[i].key /\ IsP2p(new[j])

(* A list that follows another: the channels in gone expired.              *)
Follows(old, new, gone) ==
    /\ ~firstLatency => NotLonger(old, new)
    /\ StillMeasured(old, new)
    /\ ~firstLatency => DirectKept(old, new, gone)

(* A hop count is at least one.                                            *)
LEMMA MetricFacts ==
  /\ \A e \in Entry : e.metric \in Nat \ {0}
  /\ \A r \in Route : r.metric \in Nat \ {0}
<1>1. Metrics \subseteq Nat \ {0}
  BY RouteTableAssumption
<1>2. (\A e \in Entry : e.metric \in Metrics) /\ (\A r \in Route : r.metric \in Metrics)
  BY DEF Entry, Route
<1> QED
  BY <1>1, <1>2

(* A sort loses no element.                                                *)
LEMMA SortedOnto ==
  ASSUME NEW list \in Seq(Entry), NEW Pos \in SUBSET DOMAIN list,
         NEW t \in SortedByRt(list, Pos)
  PROVE  \A i \in Pos : \E n \in DOMAIN t : t[n] = list[i]
<1> DEFINE N == Cardinality(Pos)
<1>1. PICK p \in Bijection(1..N, Pos) : t = [n \in 1..N |-> list[p[n]]]
  BY DEF SortedByRt, Arranged
<1>2. \A i \in Pos : \E n \in 1..N : p[n] = i
  BY <1>1 DEF Bijection, Surjection
<1> QED
  BY <1>1, <1>2

LEMMA RetainedOnto ==
  ASSUME NEW list \in Seq(Entry), NEW Pos \in SUBSET DOMAIN list,
         NEW t \in Retained(list, Pos)
  PROVE  \A i \in Pos : \E n \in DOMAIN t : t[n] = list[i]
<1> DEFINE N == Cardinality(Pos)
<1>1. PICK p \in Bijection(1..N, Pos) : t = [n \in 1..N |-> list[p[n]]]
  BY DEF Retained, Arranged
<1>2. \A i \in Pos : \E n \in 1..N : p[n] = i
  BY <1>1 DEF Bijection, Surjection
<1> QED
  BY <1>1, <1>2

(* A list whose elements are as they were, up to their age, or gone.       *)
LEMMA SameFollows ==
  ASSUME NEW old \in Seq(Entry), old = <<>> \/ ListOK(old), NEW new, NEW gone,
         \A j \in DOMAIN new : \E i \in DOMAIN old :
             /\ new[j].key = old[i].key /\ new[j].rt = old[i].rt
             /\ new[j].metric = old[i].metric,
         \A i \in DOMAIN old : old[i].key \notin gone =>
             \E j \in DOMAIN new :
                /\ new[j].key = old[i].key /\ new[j].metric = old[i].metric
  PROVE  Follows(old, new, gone)
<1>1. \A i, j \in DOMAIN old : old[i].key = old[j].key => i = j
  BY DEF ListOK
<1>2. \A i \in DOMAIN old : old[i].metric \in Nat
  BY MetricFacts
<1>3. NotLonger(old, new) /\ StillMeasured(old, new)
  BY <1>1, <1>2 DEF NotLonger, StillMeasured
<1>4. DirectKept(old, new, gone)
  BY DEF DirectKept, IsP2p
<1> QED
  BY <1>3, <1>4 DEF Follows

LEMMA PushedFollows ==
  ASSUME NEW list \in Seq(Entry), list = <<>> \/ ListOK(list),
         NEW route \in Route, ~HasKey(list, route.key),
         NEW new \in Pushed(list, route)
  PROVE  Follows(list, new, {})
<1> DEFINE kept == {i \in DOMAIN list :
                      ~firstLatency /\ IsP2p(route) => IsP2p(list[i])}
           e == NewEntry(route)
<1>1. PICK s \in SortedByRt(list, kept) : new = Append(s, e)
  BY DEF Pushed
<1>2. kept \in SUBSET DOMAIN list
  OBVIOUS
<1>3. /\ s \in Seq(Entry)
      /\ \E p \in Injection(DOMAIN s, kept) : \A n \in DOMAIN s : s[n] = list[p[n]]
  BY <1>1, <1>2, SortedFacts
<1>4. \A n \in DOMAIN s : \E i \in DOMAIN list : s[n] = list[i]
  BY <1>2, <1>3 DEF Injection
<1>5. \A i \in kept : \E n \in DOMAIN s : s[n] = list[i]
  BY <1>1, <1>2, SortedOnto
<1>6. e.key = route.key
  BY DEF NewEntry
<1>7. /\ DOMAIN new = 1..(Len(s) + 1) /\ DOMAIN s = 1..Len(s) /\ Len(s) \in Nat
      /\ \A i \in DOMAIN s : new[i] = s[i]
      /\ new[Len(s) + 1] = e
  <2>1. e \in Entry
    BY RouteTableAssumption DEF NewEntry, Route, Entry
  <2> QED
    BY <1>1, <1>3, <2>1
<1>8. \A j \in DOMAIN new : j \in DOMAIN s \/ new[j].key = route.key
  BY <1>6, <1>7
<1>9. \A i, j \in DOMAIN list : list[i].key = list[j].key => i = j
  BY DEF ListOK
<1>10. \A i \in DOMAIN list : list[i].metric \in Nat
  BY MetricFacts
<1>11. \A i \in DOMAIN list, j \in DOMAIN new : list[i].key = new[j].key => new[j] = list[i]
  BY <1>4, <1>7, <1>8, <1>9 DEF HasKey
<1>12. NotLonger(list, new) /\ StillMeasured(list, new)
  BY <1>10, <1>11 DEF NotLonger, StillMeasured
<1>13. ~firstLatency => DirectKept(list, new, {})
  BY <1>5, <1>7 DEF DirectKept
<1> QED
  BY <1>12, <1>13 DEF Follows

LEMMA RefreshedFollows ==
  ASSUME NEW list \in Seq(Entry), ListOK(list),
         NEW route \in Route, ~Longer(list, route), route.rt # DEFAULT_RT,
         NEW new \in SortedByRt(Refreshed(list, route), DOMAIN Refreshed(list, route))
  PROVE  Follows(list, new, {})
<1> DEFINE r == Refreshed(list, route)
<1>1. \A i, j \in DOMAIN list : list[i].key = list[j].key => i = j
  BY DEF ListOK
<1>2. /\ NewEntry(route) \in Entry /\ NewEntry(route).key = route.key
      /\ NewEntry(route).metric = route.metric /\ NewEntry(route).rt = route.rt
      /\ route.metric \in Nat \ {0}
  <2>1. /\ NewEntry(route) \in Entry /\ NewEntry(route).key = route.key
        /\ NewEntry(route).metric = route.metric /\ NewEntry(route).rt = route.rt
    BY RouteTableAssumption DEF Entry, Route, NewEntry
  <2> QED
    BY <2>1, MetricFacts
<1>3. /\ DOMAIN r = DOMAIN list
      /\ \A i \in DOMAIN list : \/ r[i] = list[i]
                                \/ r[i] = NewEntry(route) /\ list[i].key = route.key
  BY DEF Refreshed
<1>4. r \in Seq(Entry)
  <2>1. \A i \in DOMAIN list : r[i] \in Entry
    BY <1>2, <1>3
  <2>2. DOMAIN list = 1..Len(list) /\ Len(list) \in Nat
    OBVIOUS
  <2>3. r = [i \in 1..Len(list) |-> r[i]]
    BY <2>2 DEF Refreshed
  <2> QED
    BY <2>1, <2>2, <2>3
<1>5. /\ \E p \in Injection(DOMAIN new, DOMAIN r) : \A n \in DOMAIN new : new[n] = r[p[n]]
      /\ \A i \in DOMAIN r : \E n \in DOMAIN new : new[n] = r[i]
  BY <1>4, SortedFacts, SortedOnto
<1>6. \A n \in DOMAIN new : \E i \in DOMAIN list : new[n] = r[i]
  BY <1>3, <1>5 DEF Injection
<1>7. \A i \in DOMAIN list : list[i].metric \in Nat \ {0}
  BY MetricFacts
<1>8. ~firstLatency =>
        \A i \in DOMAIN list : list[i].key = route.key => route.metric <= list[i].metric
  <2> SUFFICES ASSUME ~firstLatency, NEW i \in DOMAIN list, list[i].key = route.key
               PROVE  route.metric <= list[i].metric
    OBVIOUS
  <2>1. \A j \in 1..(i - 1) : j \in DOMAIN list /\ j # i
    OBVIOUS
  <2>2. \A j \in 1..(i - 1) : list[j].key # route.key
    BY <1>1, <2>1
  <2> QED
    BY <1>2, <1>7, <2>2 DEF Longer
<1>9. \A i \in DOMAIN list : r[i].key = list[i].key
  BY <1>2, <1>3
<1>10. \A i \in DOMAIN list : /\ list[i].rt # DEFAULT_RT => r[i].rt # DEFAULT_RT
                              /\ ~firstLatency => r[i].metric <= list[i].metric
                              /\ ~firstLatency /\ IsP2p(list[i]) => IsP2p(r[i])
  <2> SUFFICES ASSUME NEW i \in DOMAIN list
               PROVE  /\ list[i].rt # DEFAULT_RT => r[i].rt # DEFAULT_RT
                      /\ ~firstLatency => r[i].metric <= list[i].metric
                      /\ ~firstLatency /\ IsP2p(list[i]) => IsP2p(r[i])
    OBVIOUS
  <2>1. CASE r[i] = list[i]
    BY <1>7, <2>1
  <2>2. CASE r[i] = NewEntry(route) /\ list[i].key = route.key
    BY <1>2, <1>7, <1>8, <2>2 DEF IsP2p
  <2> QED
    BY <1>3, <2>1, <2>2
<1>11. \A i \in DOMAIN list, j \in DOMAIN new : list[i].key = new[j].key => new[j] = r[i]
  BY <1>1, <1>6, <1>9
<1> HIDE DEF r
<1>12. (~firstLatency => NotLonger(list, new)) /\ StillMeasured(list, new)
  BY <1>10, <1>11 DEF NotLonger, StillMeasured
<1>13. ~firstLatency => DirectKept(list, new, {})
  BY <1>3, <1>5, <1>9, <1>10 DEF DirectKept
<1> QED
  BY <1>12, <1>13 DEF Follows

(* add_route_, whatever it decides.                                        *)
LEMMA AddRoute_Follows ==
  ASSUME NEW list \in Seq(Entry), list = <<>> \/ ListOK(list),
         NEW route \in Route, NEW b \in BOOLEAN, b \/ route.rt # DEFAULT_RT,
         NEW new \in AddRoute_(list, route, b)
  PROVE  Follows(list, new, {})
<1>1. CASE new = list
  BY <1>1, SameFollows
<1>2. CASE ~Longer(list, route) /\ ~HasKey(list, route.key)
  <2>1. new \in Pushed(list, route)
    BY <1>2 DEF AddRoute_
  <2> QED
    BY <1>2, <2>1, PushedFollows
<1>3. CASE ~Longer(list, route) /\ HasKey(list, route.key) /\ ~b
  <2>1. ListOK(list)
    BY <1>3 DEF HasKey
  <2>2. new \in SortedByRt(Refreshed(list, route), DOMAIN Refreshed(list, route))
    BY <1>3 DEF AddRoute_
  <2> QED
    BY <1>3, <2>1, <2>2, RefreshedFollows
<1> QED
  BY <1>1, <1>2, <1>3 DEF AddRoute_

-----------------------------------------------------------------------------
(* What one step may do to the table; the channel that expires in it is    *)
(* the one the scheduler had picked.                                       *)
Gone(id) ==
    IF expiring # None /\ expiring' = None /\ expiring.id = id THEN {expiring.key} ELSE {}

TableFollows ==
    \A id \in DOMAIN routeTable :
        IF id \in DOMAIN routeTable'
        THEN Follows(routeTable[id], routeTable'[id], Gone(id))
        ELSE Follows(routeTable[id], <<>>, Gone(id))

(* A table that stays, and one of whose lists another one follows.         *)
LEMMA SameTable == ASSUME IInv, UNCHANGED routeTable PROVE TableFollows
<1> SUFFICES ASSUME NEW id \in DOMAIN routeTable
             PROVE  Follows(routeTable[id], routeTable[id], Gone(id))
  BY DEF TableFollows
<1>1. routeTable[id] \in Seq(Entry) /\ ListOK(routeTable[id])
  BY DEF IInv, TypeOK
<1> QED
  BY <1>1, SameFollows

LEMMA PutFollows ==
  ASSUME IInv, NEW id \in Ids, NEW list, Put(id, list),
         Follows(List(id), list, Gone(id))
  PROVE  TableFollows
<1> SUFFICES ASSUME NEW x \in DOMAIN routeTable
             PROVE  x \in DOMAIN routeTable' /\ Follows(routeTable[x], routeTable'[x], Gone(x))
  BY DEF TableFollows
<1>1. x \in DOMAIN routeTable' /\ routeTable'[x] = IF x = id THEN list ELSE routeTable[x]
  BY DEF Put
<1>2. routeTable[x] \in Seq(Entry) /\ ListOK(routeTable[x])
  BY DEF IInv, TypeOK
<1>3. CASE x = id
  BY <1>1, <1>3 DEF List
<1>4. CASE x # id
  BY <1>1, <1>2, <1>4, SameFollows
<1> QED
  BY <1>1, <1>3, <1>4

LEMMA AddFollows ==
  ASSUME IInv, NEW id \in Ids, NEW route \in Route, NEW b \in BOOLEAN,
         b \/ route.rt # DEFAULT_RT, UNCHANGED expiring,
         NEW list \in AddRoute_(List(id), route, b), Put(id, list)
  PROVE  TableFollows
<1>1. Gone(id) = {}
  BY DEF Gone
<1>2. Follows(List(id), list, {})
  BY ListFacts, AddRoute_Follows
<1> QED
  BY <1>1, <1>2, PutFollows

LEMMA ReadFollows ==
  ASSUME IInv, NEW id \in Ids, NEW key \in Keys, UpdateReadTime(id, key)
  PROVE  TableFollows
<1> DEFINE list == routeTable[id]
           new == [i \in DOMAIN list |->
                     IF list[i].key = key /\ \A j \in 1..(i - 1) : list[j].key # key
                     THEN [list[i] EXCEPT !.age = 0] ELSE list[i]]
<1>1. id \in DOMAIN routeTable
  BY DEF UpdateReadTime, HasKey, List
<1>2. list \in Seq(Entry) /\ ListOK(list) /\ list = List(id)
  BY <1>1 DEF IInv, TypeOK, List
<1>3. Put(id, new)
  BY <1>1 DEF UpdateReadTime, Put
<1>4. DOMAIN new = DOMAIN list
  OBVIOUS
<1>5. \A i \in DOMAIN list : /\ new[i].key = list[i].key /\ new[i].rt = list[i].rt
                             /\ new[i].metric = list[i].metric
  <2>1. \A i \in DOMAIN list : list[i] \in Entry
    BY <1>2
  <2> QED
    BY <2>1 DEF Entry
<1> HIDE DEF new, list
<1>6. Follows(List(id), new, Gone(id))
  BY <1>2, <1>4, <1>5, SameFollows
<1> QED
  BY <1>3, <1>6, PutFollows

LEMMA ExpiryFollows == ASSUME IInv, IdleRoute PROVE TableFollows
<1> DEFINE id == expiring.id
           key == expiring.key
           pos == {i \in DOMAIN List(id) : List(id)[i].key # key}
<1>1. id \in Ids /\ key \in Keys /\ Gone(id) = {key} /\ RemoveRoute(id, key)
  BY DEF IdleRoute, IInv, TypeOK, Gone
<1>2. CASE id \notin DOMAIN routeTable
  BY <1>1, <1>2, SameTable DEF RemoveRoute
<1>3. CASE id \in DOMAIN routeTable /\ pos = {}
  <2>1. routeTable' = [x \in DOMAIN routeTable \ {id} |-> routeTable[x]]
    BY <1>1, <1>3 DEF RemoveRoute, Restrict
  <2>2. ASSUME NEW x \in DOMAIN routeTable, x # id
        PROVE  x \in DOMAIN routeTable' /\ Follows(routeTable[x], routeTable'[x], Gone(x))
    <3>1. routeTable[x] \in Seq(Entry) /\ ListOK(routeTable[x])
      BY DEF IInv, TypeOK
    <3> QED
      BY <2>1, <2>2, <3>1, SameFollows
  <2>3. Follows(routeTable[id], <<>>, Gone(id)) /\ id \notin DOMAIN routeTable'
    <3>1. routeTable[id] = List(id)
      BY <1>3 DEF List
    <3>2. \A i \in DOMAIN List(id) : List(id)[i].key = key
      BY <1>3
    <3> QED
      BY <1>1, <2>1, <3>1, <3>2 DEF Follows, NotLonger, StillMeasured, DirectKept
  <2> QED
    BY <2>2, <2>3 DEF TableFollows
<1>4. CASE id \in DOMAIN routeTable /\ pos # {}
  <2>1. PICK list \in Retained(List(id), pos) : Put(id, list)
    BY <1>1, <1>4 DEF RemoveRoute
  <2>2. ListOK(List(id)) /\ List(id) \in Seq(Entry) /\ pos \in SUBSET DOMAIN List(id)
    BY <1>4 DEF IInv, TypeOK, List
  <2>3. \A j \in DOMAIN list : \E i \in DOMAIN List(id) : list[j] = List(id)[i]
    BY <2>1, <2>2, RetainedFacts
  <2>4. \A i \in pos : \E j \in DOMAIN list : list[j] = List(id)[i]
    BY <2>1, <2>2, RetainedOnto
  <2>5. \A i \in DOMAIN List(id) : List(id)[i].key \notin {key} =>
            \E j \in DOMAIN list : list[j] = List(id)[i]
    BY <2>4
  <2>6. Follows(List(id), list, {key})
    BY <2>2, <2>3, <2>5, SameFollows
  <2> QED
    BY <1>1, <2>1, <2>6, PutFollows
<1> QED
  BY <1>2, <1>3, <1>4

LEMMA TickFollows == ASSUME IInv, Tick PROVE TableFollows
<1> SUFFICES ASSUME NEW id \in DOMAIN routeTable
             PROVE  id \in DOMAIN routeTable' /\ Follows(routeTable[id], routeTable'[id], Gone(id))
  BY DEF TableFollows
<1> DEFINE list == routeTable[id]
           new == routeTable'[id]
<1>1. /\ id \in DOMAIN routeTable'
      /\ new = [i \in DOMAIN list |->
                  [list[i] EXCEPT !.age = IF @ < ReadIdle THEN @ + 1 ELSE @]]
  BY DEF Tick
<1>2. list \in Seq(Entry) /\ ListOK(list)
  BY DEF IInv, TypeOK
<1>3. \A i \in DOMAIN list : list[i] \in Entry
  BY <1>2
<1>4. /\ DOMAIN new = DOMAIN list
      /\ \A i \in DOMAIN list : /\ new[i].key = list[i].key /\ new[i].rt = list[i].rt
                                /\ new[i].metric = list[i].metric
  BY <1>1, <1>3 DEF Entry
<1> HIDE DEF new, list
<1> QED
  BY <1>1, <1>2, <1>4, SameFollows DEF new, list

LEMMA NextFollows == IInv /\ [Next]_vars => TableFollows
<1> SUFFICES ASSUME IInv, [Next]_vars PROVE TableFollows
  OBVIOUS
<1>1. ASSUME NEW id \in Ids, NEW key \in Keys, NEW m \in Metrics, NEW rt \in Rts,
             AddRoute(id, [key |-> key, metric |-> m, rt |-> rt])
      PROVE  TableFollows
  <2> DEFINE route == [key |-> key, metric |-> m, rt |-> rt]
  <2>1. route \in Route /\ route.rt # DEFAULT_RT
    BY RouteTableAssumption DEF Route
  <2>2. PICK list \in AddRoute_(List(id), route, FALSE) : Put(id, list)
    BY <1>1 DEF AddRoute
  <2>3. UNCHANGED expiring
    BY <1>1 DEF AddRoute
  <2> HIDE DEF route
  <2> QED
    BY <2>1, <2>2, <2>3, AddFollows
<1>2. ASSUME NEW r \in Receivers, InsertAbsent(r) PROVE TableFollows
  <2>1. inserting[r] \in [id : Ids, route : Route]
    BY <1>2 DEF IInv, TypeOK, InsertAbsent
  <2>2. inserting[r].id \in Ids /\ inserting[r].route \in Route
    BY <2>1
  <2>3. PICK list \in AddRoute_(List(inserting[r].id), inserting[r].route, TRUE) :
            Put(inserting[r].id, list)
    BY <1>2 DEF InsertAbsent
  <2>4. UNCHANGED expiring
    BY <1>2 DEF InsertAbsent
  <2> QED
    BY <2>2, <2>3, <2>4, AddFollows
<1>3. ASSUME UNCHANGED routeTable PROVE TableFollows
  BY <1>3, SameTable
<1> QED
  BY <1>1, <1>2, <1>3, ReadFollows, ExpiryFollows, TickFollows
     DEF Next, vars, CheckAbsent, NextIdle

(* Without --first-latency no step makes a channel of the table longer,    *)
(* although a Pong with a longer path may arrive at any time.              *)
THEOREM ChannelsNeverLonger == Spec => NeverLonger
<1>1. TableFollows =>
        (~firstLatency =>
            \A id \in DOMAIN routeTable \cap DOMAIN routeTable' :
                \A i \in DOMAIN routeTable[id], j \in DOMAIN routeTable'[id] :
                    routeTable[id][i].key = routeTable'[id][j].key =>
                        routeTable'[id][j].metric <= routeTable[id][i].metric)
  BY DEF TableFollows, Follows, NotLonger
<1> QED
  BY <1>1, NextFollows, Inductive, PTL DEF Spec, NeverLonger

(* No step replaces a measured round-trip time by the placeholder.         *)
THEOREM MeasurementsStay == Spec => StaysMeasured
<1>1. TableFollows =>
        \A id \in DOMAIN routeTable \cap DOMAIN routeTable' :
            \A i \in DOMAIN routeTable[id], j \in DOMAIN routeTable'[id] :
                /\ routeTable[id][i].key = routeTable'[id][j].key
                /\ routeTable[id][i].rt # DEFAULT_RT
                => routeTable'[id][j].rt # DEFAULT_RT
  BY DEF TableFollows, Follows, StillMeasured
<1> QED
  BY <1>1, NextFollows, Inductive, PTL DEF Spec, StaysMeasured

(* Without --first-latency a direct channel is lost to its expiry only.    *)
THEOREM DirectKeptUntilExpiry == Spec => DirectLostByExpiryOnly
<1>1. IInv /\ TableFollows =>
        (~firstLatency =>
            \A id \in DOMAIN routeTable : \A i \in DOMAIN routeTable[id] :
                IsP2p(routeTable[id][i]) =>
                    \/ /\ expiring = [id |-> id, key |-> routeTable[id][i].key]
                       /\ expiring' = None
                    \/ /\ id \in DOMAIN routeTable'
                       /\ \E j \in DOMAIN routeTable'[id] :
                             /\ routeTable'[id][j].key = routeTable[id][i].key
                             /\ IsP2p(routeTable'[id][j]))
  <2> SUFFICES ASSUME IInv, TableFollows, ~firstLatency, NEW id \in DOMAIN routeTable,
                      NEW i \in DOMAIN routeTable[id], IsP2p(routeTable[id][i]),
                      ~(/\ id \in DOMAIN routeTable'
                        /\ \E j \in DOMAIN routeTable'[id] :
                              /\ routeTable'[id][j].key = routeTable[id][i].key
                              /\ IsP2p(routeTable'[id][j]))
               PROVE  expiring = [id |-> id, key |-> routeTable[id][i].key] /\ expiring' = None
    OBVIOUS
  <2>1. routeTable[id][i].key \in Gone(id)
    <3>1. CASE id \in DOMAIN routeTable'
      BY <3>1 DEF TableFollows, Follows, DirectKept
    <3>2. CASE id \notin DOMAIN routeTable'
      <4>1. DirectKept(routeTable[id], <<>>, Gone(id))
        BY <3>2 DEF TableFollows, Follows
      <4>2. DOMAIN <<>> = {}
        OBVIOUS
      <4> QED
        BY <4>1, <4>2 DEF DirectKept
    <3> QED
      BY <3>1, <3>2
  <2>2. expiring # None /\ expiring' = None /\ expiring.id = id
        /\ expiring.key = routeTable[id][i].key
    BY <2>1 DEF Gone
  <2>3. expiring \in [id : Ids, key : Keys]
    BY <2>2 DEF IInv, TypeOK
  <2> QED
    BY <2>2, <2>3
<1> QED
  BY <1>1, NextFollows, Inductive, PTL DEF Spec, DirectLostByExpiryOnly

-----------------------------------------------------------------------------
(* The lists as a table of channels.                                       *)

(* The channels of one list, and those of the other addresses.             *)
Chans(id, list) == {ChannelOf(id, list[i]) : i \in DOMAIN list}
Others(id) == {c \in Channels : c.id # id}

LEMMA ChannelFields ==
  ASSUME NEW id, NEW e
  PROVE  LET c == ChannelOf(id, e)
         IN  c.id = id /\ c.key = e.key /\ c.metric = e.metric /\ c.rt = e.rt
BY DEF ChannelOf

LEMMA ChannelsSplit == ASSUME NEW id PROVE Channels = Others(id) \cup Chans(id, List(id))
<1>1. Chans(id, List(id)) \subseteq Channels
  BY DEF Chans, Channels, List
<1>2. ASSUME NEW c \in Channels, c.id = id PROVE c \in Chans(id, List(id))
  <2>1. PICK x \in DOMAIN routeTable : \E i \in DOMAIN routeTable[x] : c = ChannelOf(x, routeTable[x][i])
    BY DEF Channels
  <2>2. PICK i \in DOMAIN routeTable[x] : c = ChannelOf(x, routeTable[x][i])
    BY <2>1
  <2>3. x = id
    BY <1>2, <2>2, ChannelFields
  <2> QED  BY <2>2, <2>3 DEF Chans, List
<1> QED  BY <1>1, <1>2 DEF Others

(* Writing a list changes the channels of its address only.                *)
LEMMA PutChannels ==
  ASSUME NEW id, NEW list, Put(id, list)
  PROVE  Channels' = Others(id) \cup Chans(id, list)
<1>1. /\ DOMAIN routeTable' = DOMAIN routeTable \cup {id}
      /\ \A x \in DOMAIN routeTable' : routeTable'[x] = IF x = id THEN list ELSE routeTable[x]
  BY DEF Put
<1>2. ASSUME NEW c \in Channels' PROVE c \in Others(id) \cup Chans(id, list)
  <2>1. PICK x \in DOMAIN routeTable' :
             \E i \in DOMAIN routeTable'[x] : c = ChannelOf(x, routeTable'[x][i])
    BY DEF Channels
  <2>2. CASE x = id
    BY <1>1, <2>1, <2>2 DEF Chans
  <2>3. CASE x # id
    <3>1. x \in DOMAIN routeTable /\ routeTable'[x] = routeTable[x]
      BY <1>1, <2>3
    <3>2. c \in Channels
      BY <2>1, <3>1 DEF Channels
    <3>3. c.id = x
      BY <2>1, ChannelFields
    <3> QED  BY <2>3, <3>2, <3>3 DEF Others
  <2> QED  BY <2>2, <2>3
<1>3. ASSUME NEW c \in Chans(id, list) PROVE c \in Channels'
  BY <1>1 DEF Chans, Channels
<1>4. ASSUME NEW c \in Others(id) PROVE c \in Channels'
  <2>1. PICK x \in DOMAIN routeTable : \E i \in DOMAIN routeTable[x] : c = ChannelOf(x, routeTable[x][i])
    BY DEF Channels, Others
  <2>2. x # id
    BY <2>1, ChannelFields DEF Others
  <2>3. x \in DOMAIN routeTable' /\ routeTable'[x] = routeTable[x]
    BY <1>1, <2>2
  <2> QED  BY <2>1, <2>3 DEF Channels
<1> QED  BY <1>2, <1>3, <1>4

(* A channel that is pushed is an insertion.                               *)
LEMMA PushInserts ==
  ASSUME IInv, NEW id \in Ids, NEW route \in Route, ~HasKey(List(id), route.key),
         ~Longer(List(id), route),
         NEW new \in Pushed(List(id), route), Put(id, new)
  PROVE  Table!Insert(ChannelOf(id, NewEntry(route)))
<1> DEFINE list == List(id)
           kept == {i \in DOMAIN list : ~firstLatency /\ IsP2p(route) => IsP2p(list[i])}
           e == NewEntry(route)
           c == ChannelOf(id, e)
<1>0. list \in Seq(Entry)
  BY ListFacts
<1>1. PICK s \in SortedByRt(list, kept) : new = Append(s, e)
  BY DEF Pushed
<1>2. kept \in SUBSET DOMAIN list
  OBVIOUS
<1>3. /\ s \in Seq(Entry)
      /\ \E p \in Injection(DOMAIN s, kept) : \A n \in DOMAIN s : s[n] = list[p[n]]
      /\ \A i \in kept : \E n \in DOMAIN s : s[n] = list[i]
  BY <1>0, <1>1, <1>2, SortedFacts, SortedOnto
<1>4. \A n \in DOMAIN s : \E i \in kept : s[n] = list[i]
  BY <1>3 DEF Injection
<1>5. /\ DOMAIN new = 1..(Len(s) + 1) /\ DOMAIN s = 1..Len(s) /\ Len(s) \in Nat
      /\ \A i \in DOMAIN s : new[i] = s[i]
      /\ new[Len(s) + 1] = e
  <2>1. e \in Entry
    BY RouteTableAssumption DEF NewEntry, Route, Entry
  <2> QED  BY <1>1, <1>3, <2>1
<1>6. c.id = id /\ c.key = route.key /\ c.metric = route.metric
  BY ChannelFields DEF NewEntry
<1>7. \A d \in Channels : d.id = id => \E i \in DOMAIN list : d = ChannelOf(id, list[i])
  BY ChannelsSplit DEF Others, Chans
<1> HIDE DEF c, e, list, kept
<1>8. \A d \in Channels : d.id = id => \E i \in DOMAIN list :
          d = ChannelOf(id, list[i]) /\ d.key = list[i].key /\ d.metric = list[i].metric
  BY <1>7, ChannelFields
<1>9. \A d \in Channels : ~Table!SameChannel(c, d)
  BY <1>6, <1>8 DEF HasKey, Table!SameChannel, list
<1>10. ~firstLatency => \A d \in Channels : d.id = c.id => c.metric <= d.metric
  <2> SUFFICES ASSUME ~firstLatency, NEW i \in DOMAIN list PROVE route.metric <= list[i].metric
    BY <1>6, <1>8
  <2>1. \A j \in 1..(i - 1) : j \in DOMAIN list
    BY <1>0
  <2>2. ~(list[i].metric < route.metric)
    BY <2>1 DEF Longer, HasKey, list
  <2>3. list[i].metric \in Nat /\ route.metric \in Nat
    BY <1>0, MetricFacts
  <2> QED  BY <2>2, <2>3
<1>11. Chans(id, new) = {ChannelOf(id, list[i]) : i \in kept} \cup {c}
  <2>1. \A j \in DOMAIN new : j \in DOMAIN s \/ new[j] = e
    BY <1>5
  <2>2. ASSUME NEW d \in Chans(id, new) PROVE d \in {ChannelOf(id, list[i]) : i \in kept} \cup {c}
    <3>1. PICK j \in DOMAIN new : d = ChannelOf(id, new[j])
      BY DEF Chans
    <3>2. CASE j \in DOMAIN s
      BY <1>4, <1>5, <3>1, <3>2
    <3>3. CASE new[j] = e
      BY <3>1, <3>3 DEF c
    <3> QED  BY <2>1, <3>2, <3>3
  <2>3. c \in Chans(id, new)
    <3>1. Len(s) + 1 \in DOMAIN new
      BY <1>5
    <3> QED  BY <1>5, <3>1 DEF Chans, c
  <2>4. ASSUME NEW i \in kept PROVE ChannelOf(id, list[i]) \in Chans(id, new)
    <3>1. PICK n \in DOMAIN s : s[n] = list[i]
      BY <1>3
    <3>2. n \in DOMAIN new /\ new[n] = list[i]
      BY <1>5, <3>1
    <3> QED  BY <3>2 DEF Chans
  <2> QED  BY <2>2, <2>3, <2>4
<1>12. Channels' = Others(id) \cup {ChannelOf(id, list[i]) : i \in kept} \cup {c}
  BY <1>11, PutChannels
<1> DEFINE away == {d \in Channels : ~firstLatency /\ c.metric = 1 /\ d.id = c.id /\ d.metric # 1}
<1>13. Others(id) \cup {ChannelOf(id, list[i]) : i \in kept} = Channels \ away
  <2>1. ASSUME NEW d \in Others(id) PROVE d \in Channels \ away
    BY <1>6, <2>1 DEF Others
  <2>2. ASSUME NEW i \in kept PROVE ChannelOf(id, list[i]) \in Channels \ away
    <3>1. ChannelOf(id, list[i]) \in Channels
      BY <1>2, ChannelsSplit DEF Chans, list
    <3>2. ChannelOf(id, list[i]).metric = list[i].metric
      BY ChannelFields
    <3> QED  BY <1>6, <3>1, <3>2 DEF kept, IsP2p
  <2>3. ASSUME NEW d \in Channels \ away
        PROVE  d \in Others(id) \cup {ChannelOf(id, list[i]) : i \in kept}
    <3>1. CASE d.id # id
      BY <3>1 DEF Others
    <3>2. CASE d.id = id
      <4>1. PICK i \in DOMAIN list : d = ChannelOf(id, list[i]) /\ d.metric = list[i].metric
        BY <1>8, <3>2
      <4>2. i \in kept
        BY <1>6, <2>3, <3>2, <4>1 DEF kept, IsP2p
      <4> QED  BY <4>1, <4>2
    <3> QED  BY <3>1, <3>2
  <2> QED  BY <2>1, <2>2, <2>3
<1>14. Channels' = (Channels \ away) \cup {c}
  BY <1>12, <1>13
<1> QED  BY <1>9, <1>10, <1>14 DEF Table!Insert, c, e

(* A channel that is refreshed is a measurement.                           *)
LEMMA RefreshMeasures ==
  ASSUME IInv, NEW id \in Ids, NEW route \in Route, HasKey(List(id), route.key),
         ~Longer(List(id), route), route.rt \in Rts,
         NEW new \in SortedByRt(Refreshed(List(id), route), DOMAIN Refreshed(List(id), route)),
         Put(id, new)
  PROVE  Table!Measure(ChannelOf(id, NewEntry(route)))
<1> DEFINE list == List(id)
           r == Refreshed(list, route)
           e == NewEntry(route)
           c == ChannelOf(id, e)
<1>0. list \in Seq(Entry) /\ ListOK(list)
  BY ListFacts DEF HasKey
<1>1. \A i, j \in DOMAIN list : list[i].key = list[j].key => i = j
  BY <1>0 DEF ListOK
<1>2. PICK k \in DOMAIN list : list[k].key = route.key
  BY DEF HasKey
<1>3. \A j \in 1..(k - 1) : j \in DOMAIN list /\ list[j].key # route.key
  BY <1>0, <1>1, <1>2
<1>4. /\ DOMAIN r = DOMAIN list /\ r[k] = e
      /\ \A i \in DOMAIN list : i # k => r[i] = list[i]
  BY <1>1, <1>2, <1>3 DEF Refreshed
<1>5. e \in Entry /\ e.key = route.key /\ e.metric = route.metric /\ e.rt = route.rt
  BY RouteTableAssumption DEF Entry, Route, NewEntry
<1>6. r \in Seq(Entry)
  <2>1. \A i \in DOMAIN list : r[i] \in Entry
    BY <1>0, <1>4, <1>5
  <2>2. DOMAIN list = 1..Len(list) /\ Len(list) \in Nat
    BY <1>0
  <2>3. r = [i \in 1..Len(list) |-> r[i]]
    BY <2>2 DEF Refreshed
  <2> QED  BY <2>1, <2>2, <2>3
<1>7. /\ \A n \in DOMAIN new : \E i \in DOMAIN r : new[n] = r[i]
      /\ \A i \in DOMAIN r : \E n \in DOMAIN new : new[n] = r[i]
  <2>1. DOMAIN r \in SUBSET DOMAIN r
    OBVIOUS
  <2>2. \E p \in Injection(DOMAIN new, DOMAIN r) : \A n \in DOMAIN new : new[n] = r[p[n]]
    BY <1>6, <2>1, SortedFacts
  <2>3. \A i \in DOMAIN r : \E n \in DOMAIN new : new[n] = r[i]
    BY <1>6, <2>1, SortedOnto
  <2> QED  BY <2>2, <2>3 DEF Injection
<1>8. ~firstLatency => route.metric <= list[k].metric
  <2>1. list[k].metric \in Nat /\ route.metric \in Nat
    BY <1>0, <1>2, MetricFacts
  <2> QED  BY <1>2, <1>3, <2>1 DEF Longer
<1> DEFINE d == ChannelOf(id, list[k])
<1>9. /\ c.id = id /\ c.key = route.key /\ c.metric = route.metric /\ c.rt = route.rt
      /\ d.id = id /\ d.key = route.key /\ d.metric = list[k].metric
  BY <1>2, <1>5, ChannelFields
<1>10. d \in Channels
  BY <1>2, ChannelsSplit DEF Chans
<1> HIDE DEF c, d, e, r, list
<1>11. Chans(id, new) = {ChannelOf(id, list[i]) : i \in DOMAIN list \ {k}} \cup {c}
  <2>1. ASSUME NEW x \in Chans(id, new)
        PROVE  x \in {ChannelOf(id, list[i]) : i \in DOMAIN list \ {k}} \cup {c}
    <3>1. PICK n \in DOMAIN new : x = ChannelOf(id, new[n])
      BY DEF Chans
    <3>2. PICK i \in DOMAIN list : new[n] = r[i]
      BY <1>4, <1>7
    <3> QED  BY <1>4, <3>1, <3>2 DEF c
  <2>2. c \in Chans(id, new)
    BY <1>2, <1>4, <1>7 DEF Chans, c
  <2>3. ASSUME NEW i \in DOMAIN list \ {k} PROVE ChannelOf(id, list[i]) \in Chans(id, new)
    <3>1. PICK n \in DOMAIN new : new[n] = r[i]
      BY <1>4, <1>7
    <3> QED  BY <1>4, <3>1 DEF Chans
  <2> QED  BY <2>1, <2>2, <2>3
<1>12. \A i \in DOMAIN list \ {k} : ChannelOf(id, list[i]) # d
  <2>1. \A i \in DOMAIN list \ {k} : list[i].key # list[k].key
    BY <1>1, <1>2
  <2>2. \A i \in DOMAIN list : ChannelOf(id, list[i]).key = list[i].key
    BY ChannelFields
  <2> QED  BY <1>2, <2>1, <2>2 DEF d
<1>13. Channels \ {d} = Others(id) \cup {ChannelOf(id, list[i]) : i \in DOMAIN list \ {k}}
  <2>1. Channels = Others(id) \cup {ChannelOf(id, list[i]) : i \in DOMAIN list}
    BY ChannelsSplit DEF Chans, list
  <2>2. d \notin Others(id)
    BY <1>9 DEF Others
  <2> QED  BY <1>2, <1>12, <2>1, <2>2 DEF d
<1>14. Channels' = (Channels \ {d}) \cup {c}
  BY <1>11, <1>13, PutChannels
<1> QED  BY <1>8, <1>9, <1>10, <1>14 DEF Table!Measure, Table!SameChannel, c, e

(* The channel that is removed expires, if it is still there.              *)
LEMMA RemoveExpires ==
  ASSUME IInv, NEW id \in Ids, NEW key \in Keys, RemoveRoute(id, key)
  PROVE  \/ Channels' = Channels
         \/ \E c \in Channels : c.id = id /\ c.key = key /\ Table!Expire(c)
<1> DEFINE list == List(id)
           pos == {i \in DOMAIN list : list[i].key # key}
<1>1. CASE id \notin DOMAIN routeTable
  BY <1>1 DEF RemoveRoute, Channels
<1>2. CASE id \in DOMAIN routeTable
  <2>0. list \in Seq(Entry) /\ ListOK(list) /\ pos \in SUBSET DOMAIN list
    BY <1>2 DEF IInv, TypeOK, List
  <2>1. Channels' = Others(id) \cup {ChannelOf(id, list[i]) : i \in pos}
    <3>1. CASE pos = {}
      <4>1. routeTable' = [x \in DOMAIN routeTable \ {id} |-> routeTable[x]]
        BY <1>2, <3>1 DEF RemoveRoute, Restrict
      <4>2. Channels' = Others(id)
        <5>1. ASSUME NEW c \in Channels' PROVE c \in Others(id)
          <6>1. PICK x \in DOMAIN routeTable' :
                     \E i \in DOMAIN routeTable'[x] : c = ChannelOf(x, routeTable'[x][i])
            BY DEF Channels
          <6>2. x \in DOMAIN routeTable /\ x # id /\ routeTable'[x] = routeTable[x]
            BY <4>1, <6>1
          <6>3. c \in Channels /\ c.id = x
            BY <6>1, <6>2, ChannelFields DEF Channels
          <6> QED  BY <6>2, <6>3 DEF Others
        <5>2. ASSUME NEW c \in Others(id) PROVE c \in Channels'
          <6>1. PICK x \in DOMAIN routeTable :
                     \E i \in DOMAIN routeTable[x] : c = ChannelOf(x, routeTable[x][i])
            BY DEF Channels, Others
          <6>2. x # id
            BY <6>1, ChannelFields DEF Others
          <6>3. x \in DOMAIN routeTable' /\ routeTable'[x] = routeTable[x]
            BY <4>1, <6>2
          <6> QED  BY <6>1, <6>3 DEF Channels
        <5> QED  BY <5>1, <5>2
      <4> QED  BY <3>1, <4>2
    <3>2. CASE pos # {}
      <4>1. PICK new \in Retained(list, pos) : Put(id, new)
        BY <1>2, <3>2 DEF RemoveRoute
      <4>2. /\ \A j \in DOMAIN new : \E i \in pos : new[j] = list[i]
            /\ \A i \in pos : \E j \in DOMAIN new : new[j] = list[i]
        BY <2>0, <4>1, RetainedFacts, RetainedOnto
      <4> HIDE DEF pos, list
      <4>3. Chans(id, new) = {ChannelOf(id, list[i]) : i \in pos}
        BY <4>2 DEF Chans
      <4> QED  BY <4>1, <4>3, PutChannels
    <3> QED  BY <3>1, <3>2
  <2>2. Channels = Others(id) \cup {ChannelOf(id, list[i]) : i \in DOMAIN list}
    BY ChannelsSplit DEF Chans
  <2>3. CASE pos = DOMAIN list
    BY <2>1, <2>2, <2>3
  <2>4. CASE pos # DOMAIN list
    <3>1. PICK k \in DOMAIN list : list[k].key = key
      BY <2>4
    <3>2. pos = DOMAIN list \ {k}
      BY <2>0, <3>1 DEF ListOK
    <3> DEFINE d == ChannelOf(id, list[k])
    <3>3. d.id = id /\ d.key = key
      BY <3>1, ChannelFields
    <3>4. \A i \in DOMAIN list : ChannelOf(id, list[i]).key = list[i].key
      BY ChannelFields
    <3>5. \A i \in pos : ChannelOf(id, list[i]) # d
      BY <3>3, <3>4
    <3>6. d \notin Others(id) /\ d \in Channels
      BY <2>2, <3>1, <3>3 DEF Others
    <3>7. Channels' = Channels \ {d}
      BY <2>1, <2>2, <3>2, <3>5, <3>6
    <3> QED  BY <3>3, <3>6, <3>7 DEF Table!Expire
  <2> QED  BY <2>3, <2>4
<1> QED  BY <1>1, <1>2

LEMMA ReadKeepsChannels ==
  ASSUME IInv, NEW id \in Ids, NEW key \in Keys, UpdateReadTime(id, key)
  PROVE  Channels' = Channels
<1> DEFINE list == routeTable[id]
           new == [i \in DOMAIN list |->
                     IF list[i].key = key /\ \A j \in 1..(i - 1) : list[j].key # key
                     THEN [list[i] EXCEPT !.age = 0] ELSE list[i]]
<1>1. id \in DOMAIN routeTable /\ list = List(id)
  BY DEF UpdateReadTime, HasKey, List
<1>2. Put(id, new)
  BY <1>1 DEF UpdateReadTime, Put
<1>3. \A i \in DOMAIN list : list[i] \in Entry
  BY <1>1 DEF IInv, TypeOK
<1>4. DOMAIN new = DOMAIN list /\ \A i \in DOMAIN list : ChannelOf(id, new[i]) = ChannelOf(id, list[i])
  BY <1>3 DEF Entry, ChannelOf
<1> HIDE DEF new, list
<1>5. Chans(id, new) = Chans(id, list)
  BY <1>4 DEF Chans
<1> QED  BY <1>1, <1>2, <1>5, PutChannels, ChannelsSplit

LEMMA TickKeepsChannels == ASSUME IInv, Tick PROVE Channels' = Channels
<1>1. DOMAIN routeTable' = DOMAIN routeTable
  BY DEF Tick
<1>2. ASSUME NEW id \in DOMAIN routeTable
      PROVE  /\ DOMAIN routeTable'[id] = DOMAIN routeTable[id]
             /\ \A i \in DOMAIN routeTable[id] :
                   ChannelOf(id, routeTable'[id][i]) = ChannelOf(id, routeTable[id][i])
  <2>1. \A i \in DOMAIN routeTable[id] : routeTable[id][i] \in Entry
    BY DEF IInv, TypeOK
  <2>2. routeTable'[id] = [i \in DOMAIN routeTable[id] |->
                  [routeTable[id][i] EXCEPT !.age = IF @ < ReadIdle THEN @ + 1 ELSE @]]
    BY DEF Tick
  <2> QED  BY <2>1, <2>2 DEF Entry, ChannelOf
<1> QED  BY <1>1, <1>2 DEF Channels

(* add_route_, whatever it decides.                                        *)
LEMMA AddActs ==
  ASSUME IInv, NEW id \in Ids, NEW route \in Route, NEW b \in BOOLEAN, b \/ route.rt \in Rts,
         UNCHANGED firstLatency,
         NEW list \in AddRoute_(List(id), route, b), Put(id, list)
  PROVE  [Table!Next]_(Table!vars)
<1>1. ChannelOf(id, NewEntry(route)) \in Table!Channel
  BY DEF Route, ChannelOf, NewEntry, Table!Channel
<1>2. CASE list = List(id)
  BY <1>2, PutChannels, ChannelsSplit DEF Table!vars
<1>3. CASE ~Longer(List(id), route) /\ ~HasKey(List(id), route.key)
  <2>1. list \in Pushed(List(id), route)
    BY <1>3 DEF AddRoute_
  <2>2. Table!Insert(ChannelOf(id, NewEntry(route)))
    BY <1>3, <2>1, PushInserts
  <2> QED  BY <1>1, <2>2 DEF Table!Next
<1>4. CASE ~Longer(List(id), route) /\ HasKey(List(id), route.key) /\ ~b
  <2>1. list \in SortedByRt(Refreshed(List(id), route), DOMAIN Refreshed(List(id), route))
    BY <1>4 DEF AddRoute_
  <2>2. Table!Measure(ChannelOf(id, NewEntry(route)))
    BY <1>4, <2>1, RefreshMeasures
  <2> QED  BY <1>1, <2>2 DEF Table!Next
<1> QED  BY <1>2, <1>3, <1>4 DEF AddRoute_

LEMMA ChannelsTyped == ASSUME IInv PROVE Channels \subseteq Table!Channel
<1> SUFFICES ASSUME NEW id \in DOMAIN routeTable, NEW i \in DOMAIN routeTable[id]
             PROVE  ChannelOf(id, routeTable[id][i]) \in Table!Channel
  BY DEF Channels
<1>1. id \in Ids /\ routeTable[id][i] \in Entry
  BY DEF IInv, TypeOK
<1> QED  BY <1>1 DEF Entry, ChannelOf, Table!Channel

LEMMA TableStep == ASSUME IInv, [Next]_vars PROVE [Table!Next]_(Table!vars)
<1>0. UNCHANGED firstLatency
  BY DEF Next, vars, config, AddRoute, CheckAbsent, InsertAbsent, UpdateReadTime, NextIdle,
     IdleRoute, Tick
<1>1. ASSUME NEW id \in Ids, NEW key \in Keys, NEW m \in Metrics, NEW rt \in Rts,
             AddRoute(id, [key |-> key, metric |-> m, rt |-> rt])
      PROVE  [Table!Next]_(Table!vars)
  <2> DEFINE route == [key |-> key, metric |-> m, rt |-> rt]
  <2>1. route \in Route /\ route.rt \in Rts
    BY DEF Route
  <2>2. PICK list \in AddRoute_(List(id), route, FALSE) : Put(id, list)
    BY <1>1 DEF AddRoute
  <2> HIDE DEF route
  <2> QED  BY <1>0, <2>1, <2>2, AddActs
<1>2. ASSUME NEW r \in Receivers, InsertAbsent(r) PROVE [Table!Next]_(Table!vars)
  <2>1. inserting[r].id \in Ids /\ inserting[r].route \in Route
    BY <1>2 DEF IInv, TypeOK, InsertAbsent
  <2>2. PICK list \in AddRoute_(List(inserting[r].id), inserting[r].route, TRUE) :
            Put(inserting[r].id, list)
    BY <1>2 DEF InsertAbsent
  <2> QED  BY <1>0, <2>1, <2>2, AddActs
<1>3. CASE IdleRoute
  <2>1. expiring.id \in Ids /\ expiring.key \in Keys /\ RemoveRoute(expiring.id, expiring.key)
    BY <1>3 DEF IInv, TypeOK, IdleRoute
  <2>2. Channels' = Channels \/ \E c \in Channels : Table!Expire(c)
    BY <2>1, RemoveExpires
  <2> QED  BY <1>0, <2>2, ChannelsTyped DEF Table!Next, Table!vars
<1>4. ASSUME Channels' = Channels PROVE [Table!Next]_(Table!vars)
  BY <1>0, <1>4 DEF Table!vars
<1>5. ASSUME UNCHANGED routeTable PROVE Channels' = Channels
  BY <1>5 DEF Channels
<1> QED
  BY <1>1, <1>2, <1>3, <1>4, <1>5, ReadKeepsChannels, TickKeepsChannels
     DEF Next, vars, CheckAbsent, NextIdle

(* Receive threads that look and insert under two locks, and a scheduler   *)
(* that picks and removes under two, leave a table that changes by one     *)
(* insertion, measurement or expiry at a time.                             *)
THEOREM ListsActAsTable == Spec => ActsAsTable
<1>1. Init => Table!Init
  BY DEF Init, Channels, Table!Init
<1>2. IInv /\ [Next]_vars => [Table!Next]_(Table!vars)
  BY TableStep
<1> QED
  BY <1>1, <1>2, Inductive, PTL DEF Spec, ActsAsTable, Table!Spec
=============================================================================
