# A TLA+ model of iip

iip (`src/`) multiplexes request/response traffic over TCP: a client opens
connections, opens channels on them, and sends requests on a channel; the
server answers the requests of a channel in their order. This directory holds
TLA+ modules for the protocol and the components around it, the TLC
configurations that check them and TLAPS proofs about all of them.

## The system

| part | state | operations | talks to |
|---|---|---|---|
| ClientChannel (client.go) | `uncompletedRequestQueue`, `sendRequestLock` | `DoRequest`, `DoStreamRequest`, `Close` | pushes onto the queue, then hands the packet to its Channel; waits on a notify channel |
| Channel (protocol.go) | `receivedQueue`, `packetStatus`, `err`, `closedMark`, `closeNotify` | `SendPacket`, `handleClientLoop`, `handleServerLoop`, `Close` | puts packets into the Connection's `tcpWriteQueue`, gets them from its read loop |
| Connection (protocol.go) | `Channels`, `FreeChannleId`, `MaxChannelId`, `tcpWriteQueue`, `closedMark` | `newChannel`, `removeChannel`, `writeLoop`, `clientReadLoop`, `serverReadLoop`, `Close` | TCP; tells Client or Server when it closes |
| notify channels (utils.go) | `responseNotifyChanPool` | `acquireNotifyChan`, `releaseNotifyChan` | shared by all calls and by the handle loops |
| handlers (handle.go) | maps from path to handler | `serverHandler.Handle`, `clientHandler.Handle` | called by the handle loops; `/sys/new_channel` and `/sys/delete_channel` change the Connection |
| Client (client.go) | `connections`, `connCount` | `NewChannel`, `newConnection`, `removeConnection`, `Close` | dials; opens channels through channel 0 |
| Server (server.go) | `connections`, listener, counters by path | `Serve`, `acceptConn`, `removeConn`, `Stop` | one Connection per accepted socket |
| LoadBalanceClient (lbclient.go) | backends with weights, pending requests, paused marks | `DoRequest`, `AddBackend`, `RemoveBackend`, health check | one Client per backend |
| Measure, Count (statis.go) | ring of seconds, totals | `Add`, `String`, `Json` | updated by all loops |
| HTTP adapter (httpadapter) | backends by alias, routes and route functions by host, one expression dictionary | `RegisterBackend`, `RemoveBackend`, `PushRouteTail`, `PushRouteHead`, `RemoveRoute`, `RegisterRouteFunc`, `ServeHTTP` | LoadBalanceClient |

Every Connection has two goroutines (read loop, write loop), every Channel one
(handle loop), every call of `DoRequest` is a goroutine of the application.
They share the queues above. What is hard in this code:

* **pairing**. Responses carry no request id. A response belongs to the oldest
  entry of `uncompletedRequestQueue`, so the order of the queue must be the
  order in which packets travel, through time-outs, failed sends and full
  queues;
* **late responses**. Notify channels are pooled and reused, channel ids too;
* **ids**. Both sides number channels on their own;
* **bounded queues** in a cycle, each with a goroutine that blocks on it;
* **closing**, from any goroutine, in several unsynchronised steps;
* **check, then act**: limits are checked long before the thing is added.

What makes the parts correct: a call gets the response of its own request, or
an error; a path handler sees a response with its request; messages are merged
from exactly their packets; a channel's id is its own on both sides; calls
return and requests are answered; limits hold. `PROJECT.json` lists the
hazards line by line, with the properties that are about each.

## Modules

### Exchange

One channel of one connection, both sides, with messages of one packet.
A packet is named by the request it carries or answers.

* *State.* `pc`, `reply`, `sendRequestLock`: the callers. `uncompleted`: the
  queue. `respChan`, `buf`, `pool`: `CtxResponseChan` of each request, the
  content of each notify channel, the pool. `cWriteQ, c2s, sRecvQ, sHand,
  sWriteQ, s2c, cRecvQ, cHand`: the way of a packet, queue by queue. `loop`,
  `notifyChan`, `notifyData`: `handleClientLoop`. `cOpen`, `sOpen`, `chOpen`:
  closed marks. `callback` and `dropped` are history variables.
* *Actions.* `Begin`, `Push`, `SendCheck`, `Enqueue`, `EnqueueTimeout`,
  `Timeout`, `Receive` are the steps of `DoRequest` and `DoStreamRequest`
  between shared accesses; `ClientWrite`, `ServerRead`, `ServerWrite`,
  `ClientRead` the loops of the connections; `ServerHandle`, `ServerRespond`,
  `ServerRespondTimeout` the server's handle loop; `LoopTake`, `LoopHandle`,
  `LoopNotify`, `LoopPut`, `LoopExit` the client's, where reading the notify
  channel from the request, looking into it and sending on it are separate
  steps, as in the code; `ClientConnFails`, `ServerConnFails`, `ChannelClose`
  what can go wrong at any time.
* *Abstractions.* A loop moves a packet in one step. Data, paths and counters
  are left out. What is written to a peer that is gone is lost. Connection.Close
  is one step.

`ExchangeProofs` has the theorems, `MCExchange` the symmetry for TLC. The same
names go with the other modules: `XProofs`, `MCX`. ConnClose and Service have no
proofs of their own. The proofs about Registry and
HttpAdapter are in `LoadBalanceProofs`, which extends both beside LoadBalance:
they are the parts before and behind the load balancing client.

Two more MC modules put components into one run that have no variable in common:
`MCTraffic` Channels, Framing and Measure, `MCBalancing` LoadBalance and Registry.
`part` says which of them moves in a behaviour, the others stay where they begin.
So a property of one component holds of the whole exactly when it holds of the
component alone, and the states are the sum, not the product. Therefore the
specifications are `FramingSpec`, `MeasureSpec`, `RegistrySpec` and `AdapterSpec`
beside the `Spec` of the others, and `HttpAdapterServer.RemoveBackend` is
`AdapterRemoveBackend`.

### Service

What a ClientChannel promises, without queues, loops or locks: requests are
answered in the order asked (`Ask`, `Answer`), the path handler sees a response
with its request, `DoRequest` returns it only afterwards (`Return`), and a
request is taken back only once the channel is closed (`Withdraw`). The promise
is void from the first lost packet (`Lose`) on, and for the results of
`DoRequest` from the first call that gives up (`GiveUp`) on. Exchange implements
it: `Promise` is the INSTANCE, with `uncompletedRequestQueue` for the
outstanding requests, `callback` and `reply` for what the handler and the
callers got. `KeepsPromise` is checked as a property of the run and proved in
`ExchangeProofs`.

### ConnClose

The end of a connection in the steps the code takes. `close` is how far
`Connection.Close` is: `"remove"` (marked; to be taken off the pool), `"range"`
(over Channels, without the lock; `at` is the channel whose Close it is in),
`"forget"` (closeNotify is closed), `"drain"` (the field is nil), `"nil"` (the
socket is closed), `"done"` (tcpConn is nil). `chan` is the same for each
`Channel.Close`. A select evaluates closeNotify when it is entered, so a loop
that enters it too late is `"deaf"`: a handle loop still has its ticker, the
write loop has not. `Race` is Go's check for concurrent map access, which may or
may not end the program; `CallOnClosed` the nil `err` of `DoRequest`; `WriteUse`
the nil `tcpConn`. `NewChannel` may come at any time: it does not ask whether
the connection is closed. Received packets are counted, not told apart.

### Server

The accept loop (`LoopSelect`, `Accept`, `AcceptFails`, `Refuse`, `Enter`),
`Connection.Close` as the Server sees it (`Fail`, `RemoveConn`, `CloseSocket`),
and `Stop`, called by the application or by the loop (`StopNotify` to
`StopDone`; the look at `tcpConn` and its use are two steps). `Reset` lets a peer
go away unnoticed, so that its address may come again. A temporary error of
Accept, and `Stop` before `Serve`, are left out.

### Registry

The list and the map of backends. `InitialList` is what `NewLoadBalanceClient`
makes of servers and weights (in the list only), `AddCheck` and `AddInsert` are
`AddBackend` before and after it takes the lock, `RemoveBackend` is the loop
that ranges over the list it shortens in place (`Rounds`, on the array Go shares).
The parsing of the server list is left out: servers with a wrong weight do not
appear.

### HttpAdapter

The tables of `HttpAdapterServer`, and requests that are routed while the tables
change. `RemoveBegin`, `RemoveRound`, `RemoveReturn` are `RemoveRoute`, which
holds `routeLock` and searches a slice that its removals shift but do not
shorten; `Route`, `Fill`, `Execute` are a route function (`JsonExpRoute`), whose
dictionary has one `$query` for all requests; `Expressions` and `GetBackend` the
rest of `ServeHTTP`; `FindAmong` is the search for a route, in some places of a
list. Requests that overlap may get each other's `$query`: nothing in the code or
its comments says otherwise, so no property is about it. What an expression matches, and which alias the JSON
configuration chooses, are constants, and the load balancing client is external.

### Measure

The ring of seconds. A counter is the set of the Adds it has counted. `Tick`,
`TickRequests`, `TickTimeCount` are `tickTack`, `AddBegin`, `AddRequests`,
`AddTimeCount` are `Add`; `Elapse` is time, which may run ahead of `tickTack`.
`StringBegin` and the rounds `StringRound` are `String`, which shares the read lock
with Adds, so that they count and `tickTack` clears and moves on between any two
rounds; `req5` keeps what each round added. One call of String, at any time, is
modelled: it writes nothing. The ranges of durations and the text are left out.

### Channels

All the channels of one connection. `AskPush`, `AskSend`, `AskTimeout`,
`AskReceive`, `MakeId`, `Register` are `Client.NewChannel`: the request on
channel 0, the wait for the response, and `Connection.newChannel` in its two
lock sections. `Send` is a request (or `/sys/delete_channel`) on a channel;
`CloseRemove`, `CloseSetErr` are `Channel.Close`, which frees the id before it
sets `err`. `ClientRead`, `ServerRead` route by id and close the connection for
an id they do not know; `SysHandle`, `Handle`, `Serve` are the handle loops.
`MakeNewChannelId` takes any free id (Go's map order), else the next, else 0.
`deleted`, `untidy`, `wrapped`, `mixed` are history variables.

Requests are sent in one step and queues are unbounded here: Exchange has those
interleavings, and only ids can go wrong in this module. Both ends close
together.

### Framing

One direction of one channel with messages of several packets. `role` is the
receiver's. The sender is this code (`SendPacket`, `Write`) or a foreign peer
that sends any packet (`ForeignSend`): the read loops check what they get.
`CheckPacketStatus` is `CheckServerPacketStatus` and `CheckClientPacketStatus`
(they differ by the number 4), `Acceptable` the checks of the read loops, `Take`,
`ClientHandled` and `ServerHandled` the handle loops with the merge, PopHead and
PushHead. `Queued` is what each round of `sendPacket`'s loop puts into the queue:
not the chunk that it has just computed but the message.

### ConnPool

The connections of one Client. `balanced` says whether the application calls
`NewChannel` or a LoadBalanceClient calls `getTaskChannel` through the
EvaluatedClients of one address (`Evals`, as many as the weight; they share the
Client but each has its own `getChannelLock` and `connIndex`).

* *State.* `heap`, `size`: `m.connections` as Go has it, a length and an array
  that `removeConnection` shifts in place and `append` replaces when it is full.
  `heap` has a second, older array only while `Client.Close` ranges over it.
  `connCount`; `mark`: how far `Connection.Close` of each connection has got;
  `channels`: the number of its channels; `lblChannel`: the connections with
  `CtxLblClientChannel`. `early` and `opened` are history variables.
* *Actions.* `CheckLimit`, `DialFails`, `Dial`, `AppendConn`, `CountConn` are
  `newConnection` between its lock sections; `NoChannel0`, `NewChannelDone`,
  `NewChannelFails`, `CloseRemoved` are `newChannel` and what `getTaskChannel`
  does when it fails; `GetFreeConnection`, `GetTaskChannel`, `PickConnection`
  choose a connection; `Fail`, `CloseRemove`, `CloseChannels` are
  `Connection.Close`, by whatever goroutine; `Close`, `CloseNext`,
  `CloseReturns`, `CloseDone` are `Client.Close`, which may be called again, as
  `LoadBalanceClient.CloseAll` does for a Client with several EvaluatedClients
  (`CloseAll` itself, a loop over the backends, is not modelled). A nil dereference or an index
  out of range is the step `"panic"`, after which nothing happens.
* *Abstractions.* Opening a channel is one step (Channels has the others).
  `Client.Close` reads pointer and length of the slice at once, although it
  takes no lock.

### LoadBalance

How `DoRequest` (`GetTaskClient`) and `DoRequest2` (`SelectBackend`) choose a
backend, and what they note afterwards. `Load`, then `Choose` or `ChooseNone`,
`Begin`, `GotChannel` or `NoChannel`, `Answered`, and `NoteSuccess`, `NoteError`
(`DoRequest`), `NoteHealthy`, `NoteUnhealthy` (`DoRequest2`) are the steps of a
call; `ReadCount` is the read of a counter that is written back unguarded.
`recent` lists the backends with a request in the last five seconds, oldest
first, and `Elapse` takes off the head: only the order of the times matters.
The list of backends, `Clients`, does not change here, a program uses one of the two calls,
and the loop of a choice is one step.

## Runs

| run | result | shows |
|---|---|---|
| `Exchange_calls` | passes | pairing, with 3 requests (one a stream), 2 notify channels, queues of capacity 1: `PairedUnlessDropped`, `ResponseHasRequest`, `CallbackPaired`; `KeepsPromise`: it implements Service; and `CallsReturn`, `RequestsAnswered` under `FairSpec` |
| `Exchange_late` | violated | `OwnReplyUnlessDropped`: a pooled notify channel carries the late response of another call |
| `Traffic_parts` | passes | Channels: `TypeOK`, `IdsPartitioned`, `ServerKnowsIds`, `TidyUseIsSafe`, 3 channels, ids 0..2 so that they run out; Framing: `MergedMessages`, `ArriveAsSent`, `PartsFindRequest`, `SmallMessagesPass`; Measure: `WindowKept`, `JsonAgrees`, `CountedOnce` |
| `ConnClose_loops` | passes | `ClosesDown`, `ReaderGetsOn` under `FairSpec`: one channel and a late one, queues of capacity 1 |
| `ConnPool_pool` | passes | `PoolExact`, `CountMatches`, `PickFindsChannel`: 3 connections, 2 callers, 2 EvaluatedClients |
| `ConnPool_limit` | violated | `WithinMaximum`: three connections with a maximum of two |
| `ConnPool_close` | violated | `ClosesAll`: `Client.Close` leaves one of three connections open |
| `Server_conns` | passes | `StopFindsSockets`, `OpenIsListed`, `AtMostOneSurvives`, and `LoopEnds` under `FairSpec`: 3 connections, 3 addresses, limit 2 |
| `Balancing_parts` | passes | LoadBalance: `PendingExact`, and `DoRequestGoesRound` under its fairness, 2 backends, 2 callers; Registry: `MapMatchesList`, `RemovesOnly`, servers of weight 2 and 1, 4 AddBackends, 4 aliases |
| `LoadBalance_starving` | violated | `WorkGoesRound`: after one failed health check `DoRequest2` never chooses a backend again |
| `HttpAdapter_routes` | passes | `RemovedExactly`, and `ComesToRest` under `FairAdapterSpec`: 2 requests, 2 hosts, 2 expressions |
| `Measure_report` | violated | `CountsWindow`: String leaves out a slot of the window |

The violated runs state what a comment, a message or a test of the repository
says; the findings in `PROJECT.json` quote it. What does hold beside them:

* `Exchange_late`: calls get their own response while no call times out
  (`KeepsPromise`).
* `LoadBalance_starving`: `DoRequest` goes round all backends
  (`DoRequestGoesRound`).
* `ConnPool_limit`: each concurrent caller exceeds the limit by one at most,
  behind `getTaskChannel` each EvaluatedClient beyond the first (theorem
  `LimitsHold`).
* `ConnPool_close`: never more than half of the connections stay open (theorem
  `CloseMissesAtMostHalf`).
* `Measure_report`: what String does count it counts once, and in time
  (`CountedOnce`).

What else the code does that its comments do not say, and the exception that a
passing property makes of it:

* A request that `packetToSendQueue` gave up on (protocol.go:256) stays in
  `uncompletedRequestQueue`, and later responses are paired with the request
  before their own: `~dropped` in `PairedUnlessDropped`, `lost` in Service.
* A channel that reuses the id of one closed with requests outstanding gets its
  responses: `~untidy` in `TidyUseIsSafe`.
* A message above `MaxPacketSize` ends the connection: `sendPacket` queues the
  message in each round of its loop and not the chunk (protocol.go:313), against
  handle.go:144. `SmallMessagesPass` is about messages of at most one packet.
* Each part of a request in several parts may be answered, against client.go:79.
  Only a foreign client sends one, since this code's requests are `DontChunk`
  (client.go:328).
* A pool that has `serverKeepConns` connections never grows, however many calls
  wait, against lbclient.go:524: `GetTaskChannel` opens none.
* `NewChannel` dereferences `Channels[0]` of a connection that has been closed
  meanwhile (client.go:165): action `NoChannel0`.
* `DoRequest` dereferences a nil `err` on a channel whose Close has marked it and
  not yet set `err` (client.go:313): action `CallOnClosed`, an end in `ClosesDown`.
* A write loop may stay for ever in a select with a nil closeNotify, a read loop
  in front of a full queue whose loop has ended: the exceptions of `ClosesDown`.
* `Stop` while the accept loop is in Accept makes Accept fail, the loop calls
  `Stop` again and closes a closed channel: `~Running` in `LoopEnds`. One accepted
  connection may outlive `Stop`, and more when an address is used again too early
  (`reused`).
* `RemoveBackend` slices out of range when two backends share the alias and the
  last entry is one of them: `RemovesOnly` has the exact condition.
* `RemoveRoute` never returns when the expression is that of the last route, or
  stands at a place not below the number of hosts (http_server.go:168): `Stuck` in
  `ComesToRest`. When it does return, it has removed the right routes
  (`RemovedExactly`).
* The averages of "all timecount" are made of the durations of the last five
  minutes and the counts of all time (statis.go:309-316), which the model leaves
  out.

The client ignores the id in the answer to `/sys/new_channel` (client.go:180)
and numbers the channel itself, so the two ends may have different ids for what
was one call; `ServerKnowsIds` shows why that does no harm by itself.

`TypeOK` is checked where it is proved or has a limit in it (Exchange, Channels,
Server: queues, ids, `MaxConnections`).

*Bounds.* In Exchange two requests are enough to exchange responses and a third
to see the shift continue; capacity 1 makes every queue full and empty, and two
notify channels make the pool run dry and be reused. In Channels the third
channel reuses an id while the second is open, and one request per channel
makes the late response. In Framing five packets make a message of three parts
next to others, `MaxPacketSize = 2` has sizes below, at and above a multiple,
and `WireCap = 1` lets a foreign peer choose each packet when it is read.
In `ConnPool_pool` `MaxConnections = 1` is exceeded by the second caller, or the
second EvaluatedClient; with `ServerKeepConns = 2` the round robin has two
connections to go round, and loses one or both. Larger limits do not fit the time
a run has, but the proofs have none. The violated runs have a pool of three:
`ConnPool_limit` with both limits 2, so that two callers that pass the check
together make a third; `ConnPool_close` with limits of 3 and one EvaluatedClient.
Three connections make Go's array grow twice. In LoadBalance
`PauseErrors = 1` stands for 5: the second error in a row pauses; `MaxFails`
bounds the health checks in the state, and the counts of two concurrent failures
exceed it.
In ConnClose one channel is there from the start and one comes at any time,
before, during or after Close; capacity 1 makes the read loop wait. In Server
three connections exceed the limit of two, and three addresses let each be a new
one or a former one. In Registry four AddBackends make an alias three times in
the list and one behind it, next to a server with two entries. In HttpAdapter the
run starts with three routes for one host, an expression twice in front of
another, and one for a second host (`MCConfigured`): RemoveRoute can succeed in
two rounds or be stuck at once. One more route may be pushed at either end. In Measure four seconds turn a ring of
three slots once and bring it back to slots that were counted in, String has two
rounds, and a minute of two seconds lets `tickTack` miss it altogether;
`Measure_report` has four slots, five seconds and three rounds.
Each run's deadlock check is off: the system may come to rest when the calls
are done, the connection is closed, or the program has ended in a panic.

*Fairness.* `FairSpec` is weak fairness of each call after its first step, each
loop of both sides and the loops' time-outs: goroutines that can run are run,
path handlers return, timers fire. In LoadBalance it is weak fairness of a call
after its first step and of time: every call returns by `ConnPool`'s and
Exchange's steps or a time-out. The first step of a call, failing connections
and closing the channel are not fair: nothing forces them. In ConnClose
each goroutine that can go on does and a read fails once the socket is closed; no
packet or call has to come. In Server the accept loop (with what it waits for: once
it has been told, or the listener is closed) and a `Stop` that has begun go on; no
connection has to come or to get through its `Close`. In HttpAdapter RemoveRoute
goes on, and the requests that have come are strongly fair together: one that waits
for `routeLock` gets it although other writers come and go, as sync.RWMutex
guarantees to a waiting reader. No request has to come.

## Proofs

Every theorem holds for all values of the constants that the module's ASSUME
allows: any sets of requests, callers, channels, connections or addresses, any
capacities and limits. Each module of proofs has an inductive invariant (`IInv`;
`RInv` for the refinement, `TInv` for tidy use, `SysInv`, `Sweep`, `MInv`, `RegInv`,
`RouteInv`, `Passes`, `Reading` for single properties), a lemma for each action or group
of actions, and the theorems, which follow from it. No run lists the inductive
invariants: they are proved.

| module | theorem | property |
|---|---|---|
| `ExchangeProofs` | `TypeCorrect` | `TypeOK`, with the capacities of the queues |
| | `ResponseFindsRequest` | `ResponseHasRequest` |
| | `QueueMatchesWay` | `PairedUnlessDropped` |
| | `CallbacksPaired` | `CallbackPaired` |
| | `ExchangeImplementsService` | `KeepsPromise`: Exchange implements Service |
| `ChannelsProofs` | `TypeCorrect` | `TypeOK`, also with ids exhausted |
| | `IdsArePartitioned` | `IdsPartitioned` |
| | `ServerKnowsEveryId` | `ServerKnowsIds` |
| | `TidyUseKeepsPairs` | `TidyUseIsSafe` |
| `FramingProofs` | `MessagesMergeRight` | `MergedMessages` |
| | `MessagesArriveAsSent` | `ArriveAsSent` |
| | `PartsMatchRequests` | `PartsFindRequest` |
| | `ConnectionStaysOpen` | `SmallMessagesPass` |
| `ServerProofs` | `TypeCorrect` | `TypeOK`, with `MaxConnections` |
| | `StopIsSafe` | `StopFindsSockets` |
| | `LimitCoversOpen` | `OpenIsListed` |
| | `StopLeavesOne` | `AtMostOneSurvives` |
| `ConnPoolProofs` | `PoolIsExact` | `PoolExact` |
| | `CountIsExact` | `CountMatches` |
| | `LimitsHold` | by how much the limits may be exceeded at most (`LimitsKept`) |
| | `PickIsSafe` | `PickFindsChannel` |
| | `CloseMissesAtMostHalf` | how many connections `Client.Close` may leave open at most (`ClosesHalf`) |
| `LoadBalanceProofs` | `PendingIsExact` | `PendingExact` |
| | `MapHasTheList` | `MapMatchesList` of Registry |
| | `RemovesOnlyTheAlias` | `RemovesOnly` of Registry |
| | `RoutesRemovedExactly` | `RemovedExactly` of HttpAdapter |
| `MeasureProofs` | `WindowIsKept` | `WindowKept` |
| | `JsonIsConsistent` | `JsonAgrees` |
| | `ReportsOnce` | `CountedOnce` |

**Exchange.** `IInv` is `TypeOK` with five more parts. `HoldsChan`: a
waiting `DoRequest` has its notify channel (without it `Receive` could not be
typed). `LockHeld`: who is between PushTail and the end of the send holds
`sendRequestLock`, so at most one request is pushed and unsent. `Counted`: the
queue has an entry for each packet on the way. `Paired`: without a drop,
`uncompleted = Replies \o rest \o Unsent` for some `rest`, and `rest = Ahead`
while both ends are open. `rest` is needed because a failing connection loses
what is ahead but not the entries. `CallbackPaired` follows at `LoopHandle` from
`Paired`. Each action then is a regrouping of a concatenation; those are the
lemmas `PacketMoves`, `Forwards`, `AcrossMoves`, `EndMoves`, `LossMoves`,
`HeadMoves`, over an opaque `Cat`.

**The refinement.** `RInv` adds to `IInv` who owns the notify channels: a
notify channel belongs to one call or to the pool (`Owned`); a request is in the
queue once, from PushTail to its response (`Queued`); and until a packet is
dropped or a call times out, a notify channel, and the handle loop on its way to
one, carries the response of its owner and nothing else (`Delivered`). Then each
step of Exchange is a step of Service: PushTail is `Ask`, PopTail is `Withdraw`,
`LoopHandle` is `Answer`, `Receive` is `Return`, a time-out is `GiveUp`, a drop is
`Lose`, and every other step changes nothing Service knows of. `Delivered` is the
part that fails after a time-out, which is what `Exchange_late` shows.

**Channels.** `ClientIds` and `ServerIds` are the two halves of
`IdsPartitioned`, the former with the fact that channel 0 stays with `Sys`.
`ServerKnowsIds` is about two counters that never meet, and is proved by
counting: the client makes at most one id for each caller that came that far
(`Counted`: `cMax <= Cardinality(Makers)`), those were all granted a channel, and
the server has made an id for each grant and for each answer that waits in the
queue of channel 0 (`Answers`); the answers under way carry ids beyond that
number, in increasing order, so the bound survives when the next one is read.
`NotFreed` says that without `/sys/delete_channel` the server frees nothing, so
its ids are `0 .. sMax`; `Used` that the client sends on ids up to `cMax` only.

`TidyUseIsSafe` has an invariant of its own on top, `TInv`, that follows the
requests of a channel by their numbers. `Queue`: `uncompletedRequestQueue` holds
the last numbers sent. While channels are closed tidily, only an open channel has
requests outstanding (`Outstanding`); its `receivedQueue` holds the first of them,
one after the other (`Received`); every packet elsewhere is a later one and
carries the id its channel has now (`AllFresh`, so an id that is given to a
channel anew has no packet under way); packets of a channel do not overtake each
other from `c2s` over the server's queue to `s2c` (`InOrder`); and none is missing
(`Covered`). The last two give that the packet clientReadLoop takes is the next
one of its channel, which keeps `Received`, and with it the pairing.

`TypeOK` is about the queue of channel 0: `PopHead` must find a call for every
answer. `SysInv` counts: the questions and answers of channel 0 that are in
`c2s`, the server's queue, `s2c` and `cRecv`, together with the calls that are
pushed and not sent, are no more than the entries of `sysQueue` (`SysCounted`).
That ends when ids are exhausted and a channel is registered as number 0 in place
of `Sys`: then packets of any kind come under id 0, but none of them goes to
`cRecv[Sys]` any more, and what is there still finds its call (`SysFindsCall`).

**Framing.** A handler's step is one of three things to the packets taken
(`Handled`), whatever the role. `Merge`: packets taken and packets queued are
those accepted. `Chain`: the accepted ones follow on one another as
CheckPacketStatus wants. `Begun`: what the loop has merged so far is the beginning
of a message, all of it uncompleted once the loop is back at its select. Together
they give that a completed one is a message. For `ArriveAsSent`, `OwnPackets` says
that a packet of this code is a whole message, numbered by its place on the way,
until one is too long; so the handle loop merges nothing (`OnePacket`). With
`Passes` (what is on the way is small enough, the status read last is that of a
whole message, and there are no more responses than requests) nothing that the
read loop or the handle loop closes the connection for can happen.

**Server.** `Keyed` (a connection in the map is under its own address and before
removeConn) gives `StopFindsSockets`, with `Locked` for the connections Stop has
before it. `OpenIsListed` and `AtMostOneSurvives` need what Stop has not reached
yet: `AllListed`, `StillAhead`, `OneLeft`, and `Stopping`, that one Stop gets past
the close of `closeNotify` and has closed the listener before it goes over the map.

**ConnPool.** The slice first (`SliceOK`, `Distinct`): what `Appended` and
`Removed` do to the cells, and that the shift in place takes out one cell and
keeps the others. `Own` says that a connection before the append is in one
caller's hand only. `Room` is `LimitsKept` with the callers past a check and
before the append counted as connections to come; the lock of an EvaluatedClient
(`Locks`) lets at most one through, so that they are at most as many as `Evals`,
a pigeonhole argument (`FS_Injection`).

`ClosesHalf` rests on `Sweep`, about the array that `Client.Close` ranges over
while `removeConnection` shifts it. A connection is passed over only when a
removal moves it to a place the range has passed, and each removal moves one:
those behind the range are no more than those that left the pool (`PaidFor`).
Connections that came later are behind the others (`OldFirst`). Once `append` has
moved the slice to a new array, the range goes on in the old one (`Ahead`), which
no removal shifts any more.

**LoadBalance.** `pending` is the weight times the number of calls under way;
only finitely many are, although the set of callers may be infinite.

**Registry.** `LoopInv` is what is known of RemoveBackend's loop after each
round: entries have moved down, none past another, and only those of the alias
are lost (`Shifts`); the places given up hold copies of the last entry, unless
that has the alias (`LastKept`); so the loop slices out of range only if it has
removed an entry and the last one has the alias, and then it does
(`BadIfTwice`). `RegInv` then is `MapMatchesList` with the fact that an alias that
was never doubled has one place.

**HttpAdapter.** `RouteInv` is about the loop of RemoveRoute: the route in each
place of the array comes from a place at or behind it, in the same order, from
every place whose route is to stay, and the last place keeps its route (`Moves`).
The host's routes are the array without its last place, whose route is then in the
place before, too, unless the loop can never end (`HostRoutes`). `RoutedAlike`:
such a list routes every request as the original does without the removed routes.

**Measure.** `NotAhead` and `NotBehind` relate the distance the ring has moved on
since an Add read its slot to the seconds that have passed: at most one more, and
no less while tickTack sees every second. Since the window is shorter than the
ring, a recent request's slot is not cleared (`Kept`), and one that is
about to be overtaken is being cleared (`Expires`). `Agree` is `JsonAgrees` for
the one slot a request can be in (`Stored`). `CountedOnce`
rests on `Reading`: the rounds of String go on from the slot it began with, through
slots that are all different (`RoundSlots`), and what a round found there was in
that slot alone (`Stored`), so no later round can find it again; that it is not
outdated is `WindowKept` at the time of the round.

**Recursion.** `FlattenSeq`, `InitialList` and the `Rounds` of Registry are
recursive functions, so each is a CHOOSE. The proofs show first that
a function with the equation exists and then what it returns, each time from the
least number for which that would be wrong (`LeastNumber`, from the theorem that
`<` on Nat is well-founded), which takes the place of an induction rule.

*Only model-checked.* The liveness properties: `CallsReturn`, `RequestsAnswered`,
`ClosesDown`, `ReaderGetsOn`, `LoopEnds`, `DoRequestGoesRound`, `ComesToRest`.
Fairness and ENABLED are beyond the prover. Every invariant, action property and
refinement that a passing run checks is proved.

## What could follow

All components of the inventory that keep state of their own are modelled. Beyond
what is here: the limits that Exchange and ConnClose share (a queue that is full
while the connection closes) in one module, with the steps of `Connection.Close`
inside Exchange.

## Not modelled

Bytes (the encoding of a packet is a record here), TLS, logging, the text and
the ranges of the statistics and the counters of `Count`, HTTP itself, the
regular expressions, the expressions of `MethodJsonExp` and of `JsonExpRoute`
(external libraries), the parsing of the server list, a Client made by
`NewClientTLS` (which lacks the defaults of `NewClient`), the registries of path
handlers (maps under a lock, filled before use), the example programs and `iq`
(I/O on top of the library, without protocol state).
