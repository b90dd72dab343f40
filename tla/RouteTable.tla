----------------------------- MODULE RouteTable -----------------------------
(***************************************************************************)
(* The routing table of a client (vnt/src/channel/context.rs, RouteTable): *)
(* for every virtual address an ordered list of the channels it can be     *)
(* reached through.  The receive threads add and refresh routes, the       *)
(* scheduler thread expires them (channel/idle.rs, maintain/idle.rs).      *)
(*                                                                         *)
(* add_route_if_absent takes the read lock, releases it and then takes the *)
(* write lock, so it is two steps here; the scheduler picks a timed-out    *)
(* route under the read lock and removes it under the write lock, two      *)
(* steps as well.                                                          *)
(***************************************************************************)
EXTENDS Integers, Sequences, FiniteSets, Functions

CONSTANTS
    Ids,             \* virtual addresses
    Keys,            \* RouteKeys: protocol, socket index and remote address
    Metrics,         \* hop counts a received packet can show, from 1 up
    Rts,             \* measured round-trip times, other than DEFAULT_RT (9999 ms)
    DEFAULT_RT,      \* placeholder of a route that was never measured
    ReadIdle,        \* silence, in ticks, after which a route expires
    Receivers,       \* receive threads
    None             \* absent value

ASSUME RouteTableAssumption ==
    /\ Metrics \subseteq Nat \ {0}
    /\ Rts \subseteq Nat
    /\ DEFAULT_RT \in Nat \ Rts
    /\ ReadIdle \in Nat \ {0}
    /\ None \notin [id : Ids, route : [key : Keys, metric : Metrics,
                                       rt : Rts \cup {DEFAULT_RT}]]
    /\ None \notin [id : Ids, key : Keys]

VARIABLES
    firstLatency,    \* --first-latency
    useChannelType,  \* --use-channel
    routeTable,      \* id -> list of routes, each with the age of its last packet
    inserting,       \* receive thread -> add_route_if_absent between its two locks
    expiring         \* the timed-out route the scheduler is about to remove

config == <<firstLatency, useChannelType>>
vars == <<config, routeTable, inserting, expiring>>

ChannelTypes == {"Relay", "P2p", "All"}

Route == [key : Keys, metric : Metrics, rt : Rts \cup {DEFAULT_RT}]
Entry == [key : Keys, metric : Metrics, rt : Rts \cup {DEFAULT_RT},
          age : 0..ReadIdle]

IsP2p(r) == r.metric = 1

List(id) == IF id \in DOMAIN routeTable THEN routeTable[id] ELSE <<>>

HasKey(list, key) == \E i \in DOMAIN list : list[i].key = key

-----------------------------------------------------------------------------
(* Arrangements of a list: the elements at the positions Pos, in the order *)
(* that Before prescribes.  Before is a strict total order on positions,   *)
(* so there is exactly one; Vec::retain keeps the order of the positions,  *)
(* sort_by_key is the stable sort by round-trip time.                      *)

Arranged(list, Pos, Before(_, _)) ==
    {[n \in 1..Cardinality(Pos) |-> list[p[n]]] :
        p \in {q \in Bijection(1..Cardinality(Pos), Pos) :
                 \A m, n \in 1..Cardinality(Pos) : m < n => Before(q[m], q[n])}}

SortedByRt(list, Pos) ==
    Arranged(list, Pos,
             LAMBDA i, j : \/ list[i].rt < list[j].rt
                           \/ list[i].rt = list[j].rt /\ i < j)

Retained(list, Pos) == Arranged(list, Pos, LAMBDA i, j : i < j)

-----------------------------------------------------------------------------
(* add_route_.  The loop over the list stops at the first entry with the   *)
(* route's key; until then a shorter path rejects the route.               *)

(* Mutant: a known channel is exempt from the comparison.                  *)
Longer_KeyFirst(list, route) ==
    /\ ~firstLatency
    /\ ~HasKey(list, route.key)
    /\ \E i \in DOMAIN list : list[i].metric < route.metric

Longer(list, route) ==
    /\ ~firstLatency
    /\ \E i \in DOMAIN list :
          /\ list[i].metric < route.metric
          /\ \A j \in 1..(i - 1) : list[j].key # route.key

NewEntry(route) ==
    [key |-> route.key, metric |-> route.metric, rt |-> route.rt, age |-> 0]

Refreshed(list, route) ==
    [i \in DOMAIN list |->
        IF list[i].key = route.key /\ \A j \in 1..(i - 1) : list[j].key # route.key
        THEN NewEntry(route) ELSE list[i]]

(* Mutant: a direct route clears the list.                                 *)
Pushed_Clears(list, route) ==
    LET kept == {i \in DOMAIN list : firstLatency \/ ~IsP2p(route)}
    IN  {Append(s, NewEntry(route)) : s \in SortedByRt(list, kept)}

(* A direct route drops the relayed ones, then the list is sorted, then    *)
(* the new route goes to its end.                                          *)
Pushed(list, route) ==
    LET kept == {i \in DOMAIN list :
                    ~firstLatency /\ IsP2p(route) => IsP2p(list[i])}
    IN  {Append(s, NewEntry(route)) : s \in SortedByRt(list, kept)}

(* Mutant: an existing route is overwritten also if only_if_absent.        *)
AddRoute_Overwrites(list, route, onlyIfAbsent) ==
    IF Longer(list, route) THEN {list}
    ELSE IF ~HasKey(list, route.key) THEN Pushed(list, route)
    ELSE LET new == Refreshed(list, route) IN SortedByRt(new, DOMAIN new)

(* The lists add_route_ may leave behind once it holds the write lock.     *)
AddRoute_(list, route, onlyIfAbsent) ==
    IF Longer(list, route) THEN {list}
    ELSE IF ~HasKey(list, route.key) THEN Pushed(list, route)
    ELSE IF onlyIfAbsent THEN {list}
    ELSE LET new == Refreshed(list, route) IN SortedByRt(new, DOMAIN new)

(* UseChannelType::P2p admits direct routes only.                          *)
Admitted(route) == useChannelType = "P2p" => IsP2p(route)

Put(id, list) ==
    routeTable' = [x \in DOMAIN routeTable \cup {id} |->
                      IF x = id THEN list ELSE routeTable[x]]

-----------------------------------------------------------------------------
Init ==
    /\ firstLatency \in BOOLEAN
    /\ useChannelType \in ChannelTypes
    /\ routeTable = [id \in {} |-> <<>>]
    /\ inserting = [r \in Receivers |-> None]
    /\ expiring = None

(* add_route: a Pong measured the channel.                                 *)
AddRoute(id, route) ==
    /\ Admitted(route)
    /\ \E list \in AddRoute_(List(id), route, FALSE) : Put(id, list)
    /\ UNCHANGED <<config, inserting, expiring>>

(* add_route_if_absent, first lock: a channel that is there already is     *)
(* left alone.                                                             *)
CheckAbsent(r, id, route) ==
    /\ inserting[r] = None
    /\ Admitted(route)
    /\ ~HasKey(List(id), route.key)
    /\ inserting' = [inserting EXCEPT ![r] = [id |-> id, route |-> route]]
    /\ UNCHANGED <<config, routeTable, expiring>>

(* Mutant: the second lock does not look for the channel again.            *)
InsertAbsent_Blind(r) ==
    /\ inserting[r] # None
    /\ \E list \in Pushed(List(inserting[r].id), inserting[r].route) :
          Put(inserting[r].id, list)
    /\ inserting' = [inserting EXCEPT ![r] = None]
    /\ UNCHANGED <<config, expiring>>

(* add_route_if_absent, second lock.                                       *)
InsertAbsent(r) ==
    /\ inserting[r] # None
    /\ \E list \in AddRoute_(List(inserting[r].id), inserting[r].route, TRUE) :
          Put(inserting[r].id, list)
    /\ inserting' = [inserting EXCEPT ![r] = None]
    /\ UNCHANGED <<config, expiring>>

(* update_read_time: a packet from id arrived over key.                    *)
UpdateReadTime(id, key) ==
    /\ HasKey(List(id), key)
    /\ routeTable' =
          [routeTable EXCEPT ![id] =
              [i \in DOMAIN @ |->
                  IF @[i].key = key /\ \A j \in 1..(i - 1) : @[j].key # key
                  THEN [@[i] EXCEPT !.age = 0] ELSE @[i]]]
    /\ UNCHANGED <<config, inserting, expiring>>

(* Idle::next_idle found a route that was silent for read_idle.            *)
NextIdle(id, key) ==
    /\ expiring = None
    /\ \E i \in DOMAIN List(id) :
          List(id)[i].key = key /\ List(id)[i].age >= ReadIdle
    /\ expiring' = [id |-> id, key |-> key]
    /\ UNCHANGED <<config, routeTable, inserting>>

(* Mutant: only an address's last route goes.                              *)
RemoveRoute_LastOnly(id, key) ==
    IF id \in DOMAIN routeTable /\ Len(List(id)) = 1
    THEN routeTable' = Restrict(routeTable, DOMAIN routeTable \ {id})
    ELSE UNCHANGED routeTable

(* remove_route by key; an address without routes leaves the table.        *)
RemoveRoute(id, key) ==
    LET pos == {i \in DOMAIN List(id) : List(id)[i].key # key} IN
    IF id \notin DOMAIN routeTable THEN UNCHANGED routeTable
    ELSE IF pos = {} THEN routeTable' = Restrict(routeTable, DOMAIN routeTable \ {id})
    ELSE \E list \in Retained(List(id), pos) : Put(id, list)

IdleRoute ==
    /\ expiring # None
    /\ RemoveRoute(expiring.id, expiring.key)
    /\ expiring' = None
    /\ UNCHANGED <<config, inserting>>

(* Time passes; ages beyond read_idle are alike.                           *)
Tick ==
    /\ routeTable' =
          [id \in DOMAIN routeTable |->
              [i \in DOMAIN routeTable[id] |->
                  [routeTable[id][i] EXCEPT
                      !.age = IF @ < ReadIdle THEN @ + 1 ELSE @]]]
    /\ UNCHANGED <<config, inserting, expiring>>

Next ==
    \/ \E id \in Ids, key \in Keys, m \in Metrics, rt \in Rts :
          AddRoute(id, [key |-> key, metric |-> m, rt |-> rt])
    \/ \E r \in Receivers, id \in Ids, key \in Keys, m \in Metrics :
          CheckAbsent(r, id, [key |-> key, metric |-> m, rt |-> DEFAULT_RT])
    \/ \E r \in Receivers : InsertAbsent(r)
    \/ \E id \in Ids, key \in Keys : UpdateReadTime(id, key)
    \/ \E id \in Ids, key \in Keys : NextIdle(id, key)
    \/ IdleRoute
    \/ Tick

Spec == Init /\ [][Next]_vars

(* The scheduler thread keeps running and time keeps passing.  A route     *)
(* that stays timed out is picked in the end whatever the iteration order  *)
(* of the map: each pick removes the route, another needs read_idle (10 s) *)
(* to time out again, and the scheduler looks again after 100 ms.          *)
FairSpec ==
    /\ Spec
    /\ WF_vars(Tick)
    /\ WF_vars(IdleRoute)
    /\ \A id \in Ids, key \in Keys : SF_vars(NextIdle(id, key))

-----------------------------------------------------------------------------
TypeOK ==
    /\ firstLatency \in BOOLEAN
    /\ useChannelType \in ChannelTypes
    /\ DOMAIN routeTable \subseteq Ids
    /\ routeTable \in [DOMAIN routeTable -> Seq(Entry)]
    /\ inserting \in [Receivers -> {None} \cup [id : Ids, route : Route]]
    /\ expiring \in {None} \cup [id : Ids, key : Keys]

(* A channel is listed once per address, although add_route_if_absent      *)
(* looks for it under one lock and inserts it under another.               *)
UniqueKeys ==
    \A id \in DOMAIN routeTable : \A i, j \in DOMAIN routeTable[id] :
        routeTable[id][i].key = routeTable[id][j].key => i = j

(* An address in the table has a route: neither a rejected insertion nor   *)
(* a removal leaves an empty list behind, so next_idle's is_empty test and *)
(* first() agree on whether the address is reachable.                      *)
NoEmptyLists == \A id \in DOMAIN routeTable : routeTable[id] # <<>>

(* Sorting happens before the push, so every list is ordered by round-trip *)
(* time except possibly its last element; retain and removal keep that.    *)
SortedButLast ==
    \A id \in DOMAIN routeTable :
        \A i, j \in 1..(Len(routeTable[id]) - 1) :
            i < j => routeTable[id][i].rt <= routeTable[id][j].rt

(* With --use-channel p2p no relayed route ever enters the table, also not *)
(* through the second half of an insertion begun earlier.                  *)
OnlyDirectRoutes ==
    useChannelType = "P2p" =>
        \A id \in DOMAIN routeTable : \A i \in DOMAIN routeTable[id] :
            IsP2p(routeTable[id][i])

(* Without --first-latency a channel in the table never becomes longer:    *)
(* add_route_ compares the metric before it compares the key.              *)
NeverLonger ==
    [][~firstLatency =>
        \A id \in DOMAIN routeTable \cap DOMAIN routeTable' :
            \A i \in DOMAIN routeTable[id], j \in DOMAIN routeTable'[id] :
                routeTable[id][i].key = routeTable'[id][j].key =>
                    routeTable'[id][j].metric <= routeTable[id][i].metric]_vars

(* A round-trip time that was measured is not replaced by the placeholder  *)
(* again while the channel stays: an insertion that overlaps with a Pong   *)
(* must not undo the measurement.                                          *)
StaysMeasured ==
    [][\A id \in DOMAIN routeTable \cap DOMAIN routeTable' :
            \A i \in DOMAIN routeTable[id], j \in DOMAIN routeTable'[id] :
                /\ routeTable[id][i].key = routeTable'[id][j].key
                /\ routeTable[id][i].rt # DEFAULT_RT
                => routeTable'[id][j].rt # DEFAULT_RT]_vars

(* Without --first-latency a direct channel is lost to its expiry only: no *)
(* insertion, refresh or sort of another route drops or demotes it.        *)
DirectLostByExpiryOnly ==
    [][~firstLatency =>
        \A id \in DOMAIN routeTable : \A i \in DOMAIN routeTable[id] :
            IsP2p(routeTable[id][i]) =>
                \/ /\ expiring = [id |-> id, key |-> routeTable[id][i].key]
                   /\ expiring' = None
                \/ /\ id \in DOMAIN routeTable'
                   /\ \E j \in DOMAIN routeTable'[id] :
                         /\ routeTable'[id][j].key = routeTable[id][i].key
                         /\ IsP2p(routeTable'[id][j])]_vars

(* A channel nobody hears from any more leaves the table: if from some     *)
(* moment on its age never falls and it is not inserted again, it is       *)
(* removed, whatever happens to the other routes.                          *)
AgeOf(id, key) ==
    IF HasKey(List(id), key)
    THEN List(id)[CHOOSE i \in DOMAIN List(id) : List(id)[i].key = key].age
    ELSE ReadIdle + 1

SilentRouteExpires ==
    \A id \in Ids, key \in Keys :
        <>[][AgeOf(id, key)' >= AgeOf(id, key)]_vars
            => <>[](~HasKey(List(id), key))

(* The entries of all lists as the channels of a table.                    *)
ChannelOf(id, e) == [id |-> id, key |-> e.key, metric |-> e.metric, rt |-> e.rt]

Channels ==
    UNION {{ChannelOf(id, routeTable[id][i]) : i \in DOMAIN routeTable[id]} :
              id \in DOMAIN routeTable}

Table == INSTANCE ChannelTable WITH table <- Channels

(* Lists that are searched, sorted, pushed to and retained from, with      *)
(* locks released in between, are a table of channels that changes by one  *)
(* insertion, measurement or expiry at a time.                             *)
ActsAsTable == Table!Spec
=============================================================================
