------------------------------ MODULE Registry ------------------------------
(***************************************************************************)
(* The backends of a LoadBalanceClient (lbclient.go): the list             *)
(* activeClients, from which requests choose, and activeClientMap, by      *)
(* which RemoveBackend and the JsonExp method find a backend.              *)
(* NewLoadBalanceClient fills the list only; a server with weight w is in  *)
(* it w times with the same alias.  AddBackend looks at the map before it  *)
(* holds clientsLock.  Requests hold clientsLock for reading while they    *)
(* choose, so that they see the list between these steps (LoadBalance).    *)
(***************************************************************************)
EXTENDS Integers, Sequences, FiniteSets, SequencesExt

CONSTANTS
  Servers,  \* the server list: a sequence of [alias, weight]
  Added,    \* the calls of AddBackend, each makes one backend
  Names,    \* the aliases they use, perhaps one of the server list
  Nil

ASSUME RegistryAssumption ==
  /\ Len(Servers) \in Nat
  /\ \A i \in DOMAIN Servers : Servers[i].weight \in 1 .. 100
  /\ Nil \notin Names \cup Added

VARIABLES
  activeClients,    \* m.activeClients: records [backend, alias]
  activeClientMap,  \* m.activeClientMap
  adding,           \* where each AddBackend is
  given,            \* the alias it was given
  doubled,          \* history: aliases that were in the list twice
  panicked          \* RemoveBackend sliced out of range

registryVars == <<activeClients, activeClientMap, adding, given, doubled, panicked>>

\* The loops of NewLoadBalanceClient, at most 100 rounds through the servers: a
\* server with weight left gets another entry.  After[k] is the list after k
\* turns of the inner loop.
InitialList ==
  LET m == Len(Servers)
      After[k \in 0 .. 100 * m] ==
        IF k = 0 THEN <<>>
        ELSE LET server == Servers[((k - 1) % m) + 1] IN
               IF server.weight > (k - 1) \div m
                 THEN Append(After[k - 1], [backend |-> Nil, alias |-> server.alias])
                 ELSE After[k - 1]
  IN  After[100 * m]

With(list, a) == {i \in DOMAIN list : list[i].alias = a}
Doubled(list) == {a \in Names : Cardinality(With(list, a)) > 1}

RegistryInit ==
  /\ activeClients = InitialList
  /\ activeClientMap = [a \in Names |-> Nil]
  /\ adding = [b \in Added |-> "new"] /\ given = [b \in Added |-> Nil]
  /\ doubled = Doubled(InitialList)
  /\ panicked = FALSE
-----------------------------------------------------------------------------
\* AddBackend: the look at the map, without the lock, and NewClient.
AddCheck(b, a) ==
  /\ adding[b] = "new"
  /\ activeClientMap[a] = Nil
  /\ adding' = [adding EXCEPT ![b] = "checked"]
  /\ given' = [given EXCEPT ![b] = a]
  /\ UNCHANGED <<activeClients, activeClientMap, doubled, panicked>>

\* Fault: the backend is not entered in the map.
AddInsertNoMap(b) ==
  /\ adding[b] = "checked"
  /\ adding' = [adding EXCEPT ![b] = "added"]
  /\ activeClients' = Append(activeClients, [backend |-> b, alias |-> given[b]])
  /\ doubled' = doubled \cup Doubled(activeClients')
  /\ UNCHANGED <<activeClientMap, given, panicked>>

\* The rest of it, under the lock.
AddInsert(b) ==
  /\ adding[b] = "checked"
  /\ adding' = [adding EXCEPT ![b] = "added"]
  /\ activeClients' = Append(activeClients, [backend |-> b, alias |-> given[b]])
  /\ activeClientMap' = [activeClientMap EXCEPT ![given[b]] = b]
  /\ doubled' = doubled \cup Doubled(activeClients')
  /\ UNCHANGED <<given, panicked>>

\* Fault: the two halves are put together the wrong way round.
RemovedSwapped(list, len, i) ==
  SubSeq(list, i + 1, len) \o SubSeq(list, 1, i - 1)
    \o SubSeq(list, len, Len(list))

\* activeClients[:i] with activeClients[i+1:] appended moves the elements
\* behind place i, up to the current length, down in the shared array.
Removed(list, len, i) ==
  [j \in DOMAIN list |-> IF j \in i .. len - 1 THEN list[j + 1] ELSE list[j]]

\* activeClients[i+1:] panics; for the last place it is left out.
OutOfRange(i, len) == i > len

\* The loop of RemoveBackend.  It ranges over the places of the list as it
\* was, and goes on after a match: cells is the array, len the length of
\* activeClients, bad a slice out of range.
Rounds(a) ==
  LET n == Len(activeClients)
      Round[i \in 0 .. n] ==
        IF i = 0 THEN [cells |-> activeClients, len |-> n, bad |-> FALSE]
        ELSE LET r == Round[i - 1] IN
               IF r.bad \/ r.cells[i].alias # a THEN r
               ELSE IF OutOfRange(i, r.len) THEN [r EXCEPT !.bad = TRUE]
               ELSE [r EXCEPT !.cells = Removed(r.cells, r.len, i), !.len = @ - 1]
  IN  Round[n]

RemoveBackend(a) ==
  /\ activeClientMap[a] # Nil
  /\ activeClientMap' = [activeClientMap EXCEPT ![a] = Nil]
  /\ activeClients' = SubSeq(Rounds(a).cells, 1, Rounds(a).len)
  /\ panicked' = Rounds(a).bad
  /\ UNCHANGED <<adding, given, doubled>>

RegistryNext ==
  /\ ~panicked
  /\ \/ \E b \in Added : AddInsert(b) \/ \E a \in Names : AddCheck(b, a)
     \/ \E a \in Names : RemoveBackend(a)

RegistrySpec == RegistryInit /\ [][RegistryNext]_registryVars
-----------------------------------------------------------------------------
(* Properties.                                                             *)

\* The map has exactly the backends that AddBackend put in the list, except
\* for an alias that was in the list twice, by two AddBackends at a time or
\* by one that took the alias of a server in the list.
MapMatchesList ==
  ~panicked =>
    \A a \in Names \ doubled :
      {activeClients[i].backend : i \in With(activeClients, a)} \ {Nil} =
        {activeClientMap[a]} \ {Nil}

\* new is old with nothing but entries of alias a taken out: every other entry
\* is moved down by so many places, and none past another.
TakenOut(old, new, a) ==
  \E moved \in [DOMAIN new -> 0 .. Len(old) - Len(new)] :
    /\ \A j, k \in DOMAIN new : j < k => moved[j] <= moved[k]
    /\ \A j \in DOMAIN new : new[j] = old[j + moved[j]]
    /\ \A i \in DOMAIN old : old[i].alias # a => \E j \in DOMAIN new : i = j + moved[j]

\* RemoveBackend slices out of range exactly when the alias is in the list
\* twice and the last entry has it.  Otherwise, although it shortens the list
\* it ranges over, it never takes out a backend with another alias, leaves the
\* order as it was, and takes out all with the alias unless there were two.
RemovesOnly ==
  [][\A a \in Names :
       (activeClientMap[a] # Nil /\ activeClientMap'[a] = Nil) =>
         /\ panicked' <=> /\ a \in Doubled(activeClients)
                          /\ Last(activeClients).alias = a
         /\ ~panicked' => /\ TakenOut(activeClients, activeClients', a)
                          /\ a \in doubled \/ With(activeClients', a) = {}]_registryVars
=============================================================================
