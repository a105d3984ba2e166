----------------------------- MODULE HttpAdapter -----------------------------
(***************************************************************************)
(* HttpAdapterServer (httpadapter/http_server.go), which turns HTTP        *)
(* requests into requests to backends: the tables of backends, of routes   *)
(* with regular expressions and of route functions, each with a lock of    *)
(* its own, changed while requests are routed.  A route function is a      *)
(* JsonExpRoute (jsonexp_route.go): one dictionary for all requests.       *)
(*                                                                         *)
(* A request stands for its own URI.  What an expression matches and what  *)
(* the JSON configuration makes of a query are constants; the HTTP server, *)
(* reading the body and the load balancing client are external: a request  *)
(* that has its backend succeeds or fails.                                 *)
(***************************************************************************)
EXTENDS Integers, FiniteSets, SequencesExt

CONSTANTS
  Requests,    \* the HTTP requests, each served once
  HostOf,      \* the host each is for
  Hosts,
  Aliases,     \* of backends
  Exps,        \* the regular expressions
  Routes,      \* the pairs of an expression and an alias that are registered
  Matches(_, _),  \* how one matches a request's URI: "full", "part" or "no"
  Decides(_),  \* the alias the JSON configuration gives for a request's query
  Configured,  \* the tables of routes the server may start with
  MaxPushes,   \* bound on the routes that are pushed later
  Null         \* the empty alias, nil

ASSUME AdapterAssumption ==
  /\ HostOf \in [Requests -> Hosts]
  /\ Null \notin Requests \cup Aliases
  /\ Routes \subseteq [exp : Exps, alias : Aliases]
  /\ \A r \in Requests : Decides(r) \in Aliases \cup {Null}
  /\ IsFiniteSet(Hosts) /\ Configured \subseteq [Hosts -> Seq(Routes)]
  /\ Null \notin [host : Hosts, exp : Exps, list : Seq(Routes), before : Seq(Routes), hosts : Nat]

VARIABLES
  routes,    \* the list of routes of each host
  removing,  \* the call of RemoveRoute that holds routeLock, or Null
  pushes,    \* the number of routes pushed so far
  funcs,     \* the hosts with a route function
  backends,  \* the aliases with a backend
  query,     \* the request whose parameters the dictionary has as $query
  req,       \* where each request is
  alias,     \* the alias found for it
  aborted    \* the program was ended by a concurrent map access

tables == <<routes, removing, pushes, funcs, backends>>
serving == <<query, req, alias, aborted>>
adapterVars == <<tables, serving>>

AdapterInit ==
  /\ routes \in Configured /\ removing = Null /\ pushes = 0
  /\ funcs = {} /\ backends = {}
  /\ query = Null
  /\ req = [r \in Requests |-> "new"] /\ alias = [r \in Requests |-> Null]
  /\ aborted = FALSE
-----------------------------------------------------------------------------
(* The tables.                                                             *)

RegisterBackend(a) ==
  /\ a \notin backends
  /\ backends' = backends \cup {a}
  /\ UNCHANGED <<routes, removing, pushes, funcs, serving>>

\* With CloseAll of its load balancing client.
AdapterRemoveBackend(a) ==
  /\ a \in backends
  /\ backends' = backends \ {a}
  /\ UNCHANGED <<routes, removing, pushes, funcs, serving>>

\* With nil for the function it is taken away.  The lock waits for the
\* requests in findFuncRoute.
RegisterRouteFunc(h) ==
  /\ \A r \in Requests : req[r] \notin {"fill", "execute"}
  /\ funcs' \in {funcs \cup {h}, funcs \ {h}}
  /\ UNCHANGED <<routes, removing, pushes, backends, serving>>

\* PushRouteTail and PushRouteHead.
PushRoute(h, route) ==
  /\ removing = Null /\ pushes < MaxPushes
  /\ pushes' = pushes + 1
  /\ \E list \in {Append(routes[h], route), <<route>> \o routes[h]} :
       routes' = [routes EXCEPT ![h] = list]
  /\ UNCHANGED <<removing, funcs, backends, serving>>
-----------------------------------------------------------------------------
(* RemoveRoute, which holds routeLock all the time.                        *)

\* removing.list is hostRoute, removing.hosts is len(m.routes).
RemoveBegin(h, e) ==
  /\ removing = Null /\ routes[h] # <<>>
  /\ removing' = [host |-> h, exp |-> e, list |-> routes[h], before |-> routes[h],
                  hosts |-> Cardinality({g \in Hosts : routes[g] # <<>>})]
  /\ UNCHANGED <<routes, pushes, funcs, backends, serving>>

Found == {i \in DOMAIN removing.list : removing.list[i].exp = removing.exp}
First == CHOOSE i \in Found : \A j \in Found : i <= j

\* hostRoute[:i] with hostRoute[i+1:] appended: the elements move down in the
\* array that hostRoute shares, whose length stays.
Shifted(list, i) ==
  [j \in DOMAIN list |-> IF j >= i /\ j < Len(list) THEN list[j + 1] ELSE list[j]]

\* Fault: every round starts from the same elements.
RemoveRoundCopies ==
  /\ removing # Null
  /\ Found # {}
  /\ routes' = [routes EXCEPT ![removing.host] = RemoveAt(removing.list, First)]
  /\ UNCHANGED removing

\* A round of the loop that finds the expression.  The condition looks at the
\* number of hosts, not of this host's routes.
RemoveRound ==
  /\ removing # Null
  /\ Found # {}
  /\ IF First < removing.hosts
       THEN LET list == Shifted(removing.list, First) IN
              /\ removing' = [removing EXCEPT !.list = list]
              /\ routes' = [routes EXCEPT ![removing.host] = Front(list)]
       ELSE /\ UNCHANGED removing
            /\ routes' = [routes EXCEPT ![removing.host] =
                                          SubSeq(removing.list, 1, First - 1)]

\* Fault: the first match is the last.
RemoveReturnEarly ==
  /\ removing # Null
  /\ Found = {} \/ removing.list # removing.before
  /\ removing' = Null
  /\ UNCHANGED routes

\* The last round, which does not.
RemoveReturn ==
  /\ removing # Null
  /\ Found = {}
  /\ removing' = Null
  /\ UNCHANGED routes

RemoveStep ==
  /\ RemoveRound \/ RemoveReturn
  /\ UNCHANGED <<pushes, funcs, backends, serving>>
-----------------------------------------------------------------------------
(* ServeHTTP.                                                              *)

\* findFuncRoute with JsonExpRoute.GetBackendAlias: the parameters become the
\* $query of the dictionary, empty at first, unless the URI cannot be parsed.
\* Without a function findBackend goes on to the expressions.
Route(r) ==
  /\ req[r] = "new"
  /\ \/ /\ HostOf[r] \notin funcs
        /\ req' = [req EXCEPT ![r] = "expressions"]
        /\ UNCHANGED query
     \/ /\ HostOf[r] \in funcs
        /\ req' = [req EXCEPT ![r] = "fill"]
        /\ query' = r
     \/ /\ HostOf[r] \in funcs
        /\ req' = [req EXCEPT ![r] = "execute"]
        /\ UNCHANGED query
  /\ UNCHANGED <<tables, alias, aborted>>

Fill(r) ==
  /\ req[r] = "fill"
  /\ req' = [req EXCEPT ![r] = "execute"]
  /\ UNCHANGED <<tables, query, alias, aborted>>

\* g.Execute goes by the $query it finds.  If that is being filled by another
\* request it may read any part of it, or end the program.
Execute(r) ==
  /\ req[r] = "execute"
  /\ IF query # Null /\ req[query] = "fill"
       THEN /\ \E a \in Aliases \cup {Null} : alias' = [alias EXCEPT ![r] = a]
            /\ aborted' \in BOOLEAN
       ELSE /\ alias' = [alias EXCEPT ![r] = IF query = Null THEN Null ELSE Decides(query)]
            /\ UNCHANGED aborted
  /\ req' = [req EXCEPT ![r] = IF alias'[r] = Null THEN "expressions" ELSE "backend"]
  /\ UNCHANGED <<tables, query>>

\* findRegExpRoute, looking at some places of the list: the first route that
\* matches all of the URI, or else the first that matches a part.
FindAmong(list, places, r) ==
  LET Matching(ways) == {i \in places : Matches(list[i].exp, r) \in ways}
      best == IF Matching({"full"}) # {} THEN Matching({"full"}) ELSE Matching({"full", "part"})
  IN  IF best = {} THEN Null ELSE list[Min(best)].alias
FindRegExpRoute(list, r) == FindAmong(list, DOMAIN list, r)

Expressions(r) ==
  /\ req[r] = "expressions" /\ removing = Null
  /\ alias' = [alias EXCEPT ![r] = FindRegExpRoute(routes[HostOf[r]], r)]
  /\ req' = [req EXCEPT ![r] = IF alias'[r] = Null THEN "refused" ELSE "backend"]
  /\ UNCHANGED <<tables, query, aborted>>

\* getBackend: without a backend the request is refused, with status 501.
\* Otherwise it is sent to the backend, which may be removed by then, and
\* answered with status 200 or 500.
GetBackend(r) ==
  /\ req[r] = "backend"
  /\ req' = [req EXCEPT ![r] = IF alias[r] \in backends THEN "served" ELSE "refused"]
  /\ alias' = [alias EXCEPT ![r] = Null]
  /\ UNCHANGED <<tables, query, aborted>>

\* A request from findFuncRoute on.
RouteOn(r) == Fill(r) \/ Execute(r) \/ Expressions(r) \/ GetBackend(r)
ServeHTTP(r) == Route(r) \/ RouteOn(r)
-----------------------------------------------------------------------------
AdapterNext ==
  /\ ~aborted
  /\ \/ \E a \in Aliases : RegisterBackend(a) \/ AdapterRemoveBackend(a)
     \/ \E r \in Requests : RegisterRouteFunc(HostOf[r]) \/ ServeHTTP(r)
     \/ \E h \in Hosts : \/ \E route \in Routes : PushRoute(h, route)
                         \/ \E e \in Exps : RemoveBegin(h, e)
     \/ RemoveStep

AdapterSpec == AdapterInit /\ [][AdapterNext]_adapterVars

\* RemoveRoute goes on, and so do the requests that have come; none has to
\* come.  Locks are strongly fair: a request that waits for routeLock gets it
\* before the next writer.  Each request takes a few steps only, so that it is
\* enough to say so of all of them together.
FairAdapterSpec ==
  /\ AdapterSpec
  /\ WF_adapterVars(~aborted /\ RemoveStep)
  /\ SF_adapterVars(~aborted /\ \E r \in Requests : RouteOn(r))
-----------------------------------------------------------------------------
(* Properties.                                                             *)

\* If RemoveRoute returns, every request is routed as if all routes with the
\* expression had been taken out and the others left in their order, although
\* the loop moves elements in place and leaves copies of the last one.
RemovedExactly ==
  [][(removing # Null /\ removing' = Null) =>
       \A r \in Requests :
         FindRegExpRoute(routes'[removing.host], r) =
           FindAmong(removing.before,
                     {i \in DOMAIN removing.before : removing.before[i].exp # removing.exp},
                     r)]_adapterVars

\* The loop of RemoveRoute makes no progress: the expression is in the last
\* place, which is never overwritten, or its index is not below the number of
\* hosts, less one.
Stuck ==
  /\ removing # Null
  /\ \/ Last(removing.list).exp = removing.exp
     \/ Found # {} /\ First >= removing.hosts

\* Again and again nobody is waiting: RemoveRoute has returned and every
\* request that came has been answered, whatever is registered and removed
\* meanwhile.  The one exception is a RemoveRoute that is stuck, which never
\* gives the lock back.
ComesToRest ==
  []<>(\/ Stuck \/ aborted
       \/ removing = Null /\ \A r \in Requests : req[r] \in {"new", "served", "refused"})
=============================================================================
