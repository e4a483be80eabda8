# A specification of gogochat

TLA+ modules of gogochat - its connections and hubs, the cached histories, groups,
contacts, sessions, accounts, and how its services find each other -, the TLC
configurations that check them on small instances, and proofs, checked by TLAPS,
of every safety property that holds: of connections and hubs for any number of
users, connections and messages, of the rest for any number of requests, users and
starts. Liveness is model-checked.

`TLC`: `tlc -config <run>.cfg <MC module>`. `TLAPS`: `tlapm <module with proofs>.tla`.

## 1. The system

gogochat is an instant messenger in Go: three services behind a gateway (traefik,
which checks the token), a MySQL database that all three share, a Redis cache
that they share too, etcd for finding each other, and Kafka as an alternative way
of carrying messages. The repository has no tests; what it says of itself is in
its README and in its comments.

| Component | State | Operations | Depends on |
|---|---|---|---|
| WebSocket connections (`chat/client.go`) | a `Client` per connection: socket, channels `SendTo` and `SendBack`, `HeartBeatDone`; goroutines `Read`, `Write`, `Heartbeat` | `NewClientInit`, `Read`, `Write`, `Heartbeat`, `ClientLogout` | the hub (registry, channels, mutex), the message table |
| Channel hub (`chat/server.go`) | registry `Clients`, channels `Login`, `Logout`, `Transmit` of 100 elements, one mutex | `Start` (one goroutine), `validateMessage`, `sendMessageToClient`, `SendClientTo...`, `GetClient` | user and session services by gRPC, message and group tables, cache |
| Kafka hub (`chat/kafka_server.go`, `common/kafka`) | registry `Clients`, unbuffered `Login` and `Logout`, one mutex, the topic | `Start` (a loop and a consumer) | Kafka, message and group tables, cache |
| Message history (`message_service.go`) | cached histories `message_list_<a>_<b>`, `group_messagelist_<g>` for one minute | `GetMessageList`, `GetGroupMessageList`, uploads | message table, cache; the hubs append to the same keys |
| Chat rooms (`chatroom_service.go`) | a map nothing ever writes | one lookup | |
| Sessions (`session_service`) | session rows, cached session and session lists | create, open, list, delete, `CheckOpenSessionAllowed` | user service by gRPC |
| Contacts (`user_contact_service.go`) | a contact row per direction, application rows | apply, pass, refuse, delete, black, unblack, status | session service by gRPC, cache |
| Groups (`group_info_service.go`) | group rows with a JSON member list and a count | create, enter, leave, dismiss, remove members, update | session service by gRPC, cache |
| User accounts (`user_info_service.go`) | user rows, verification codes in the cache | register, login, update, enable, disable, delete | session service by gRPC, SMS |
| gRPC clients (`common/clients`) | one global client per service, `sync.Once` | initialise, call | etcd, the services |
| Service discovery (`common/etcd`) | keys without a lease | register, discover | etcd |
| Cache (`common/cache`) | none of its own | get, set with expiry, delete by key or pattern | Redis |
| Start-up (`*/cmd/main.go`) | | retry loops until the other services are found | all of the above |

What is hard in it:

* **Threads.** A connection is served by three goroutines and the HTTP handler
  that starts them, and all of them meet the hub at one mutex. Senders to the
  hub's channels hold that mutex *while they wait for room*, and the hub needs it
  to make room; it also sends on the connections' channels while it holds it.
* **Connections outlive and replace each other.** The registry is keyed by user.
  `ClientLogout` closes the connection that it *finds registered for the user*,
  which after a reconnection is another one than the failing one.
* **Panics.** A send on a closed channel, a nil `Conn` after a failed upgrade, a
  nil response after a failed call, a nil connection of a sender who has left:
  which goroutine meets them decides whether the process, one goroutine, or
  nothing ends, and whether the mutex stays locked.
* **Failures that are only logged**: the upgrade, database writes, reads of the
  group, Kafka reads and writes.
* **Records in three places.** Who is in a group is in the group's row, in the
  contact rows and in the sessions of another service, and requests that overlap
  read, change and save whole rows.
* **Caches** are filled from what was read some statements ago, and appended to by
  the hub between a read and a write of its own. Some are deleted by the wrong
  side, or by nobody.
* **Check-then-act**: a session, an application, a telephone are looked for and then
  created; nothing in the tables makes them unique.
* **Whole rows are saved** that were read earlier, so that a change made in between,
  or a deletion, is undone.
* **One-time initialisation** meets retry loops, and addresses that nobody takes back.

What makes each component correct:

* *Connections and hub*: the mutex excludes and is given back; each connection is
  registered at most once, closed at most once, and removed once closed; it does
  not return; a message is handled once and one at a time, kept from those it is
  not for and from everybody when it is refused, and shown once; a queued message
  is handled and a lost peer's connection cleaned up.
* *Kafka hub*: the same for its mutex and registry; nothing is handled twice
  across a restart; the order of a connection is kept.
* *History*: a reader who asks later sees what was delivered before.
* *Sessions*: one session per pair and direction; list and key agree with it; a
  deletion or leaving takes it away.
* *Contacts*: the two directions agree; who was deleted or blacked cannot send.
* *Groups*: the member list, its count, the contact rows and the sessions agree.
* *Accounts*: one account per telephone, one registration per code.
* *Discovery*: a service that is up is found in the end, one that is not is not.

`PROJECT.json` lists the hazards of this code with their lines, and for each the
property that covers it, or why there is none.

## 2. The plan

Done, in this order:

1. `ChatClient`, `ChatServer`: connections and hub in mode `channel` (the default).
2. `MessageLifecycle`: the abstract life of a message, which `ChatServer` implements.
3. `ChatServerProofs`: types, mutex, registry, messages, and the refinement of
   `MessageLifecycle`. What it shares with the other hub is in `ChatClientProofs`.
4. `KafkaChatServer`: connections and hub in mode `kafka`, and `KafkaChatServerProofs`.
5. `GroupService`: member list, count, contact rows and sessions of a group under
   concurrent requests, each a sequence of statements; and `GroupServiceProofs`.
6. `MessageCache`: the cache-aside reads of `message_service.go` against the hub's
   appends to the same keys, with expiry, failures and restarts; and
   `MessageCacheProofs`.
7. `ServiceDiscovery`: `sync.Once`, the retry loops and the keys of dead instances; and
   `ServiceDiscoveryProofs`.
8. `SessionService` and `ContactService`, composed: the two directions of a contact,
   the applications, and the sessions that the one service deletes in the other; and
   `ContactServiceProofs`.
9. `UserAccount`: code, telephone, account, and the cached answer about it, and
   `UserAccountProofs`.

## 3. The modules

    ChatClient ──┬── ChatServer ──┬── MCChatServer ── ChatServer_*.cfg
     (extends)   │                └── INSTANCE MessageLifecycle
                 ├── KafkaChatServer ── MCKafkaChatServer ── KafkaChatServer_kafka.cfg
                 └── ChatClientProofs ──┬── ChatServerProofs (with ChatServer)
                                        └── KafkaChatServerProofs (with KafkaChatServer)

    Lists ──┬── GroupService ──┬── MCGroupService ── GroupService_*.cfg
            │                  └── GroupServiceProofs
            └── MessageCache ──┬── MCMessageCache ── MessageCache_history.cfg
                               └── MessageCacheProofs
    ServiceDiscovery ──┬── MCServiceDiscovery ── ServiceDiscovery_discovery.cfg
                       └── ServiceDiscoveryProofs
    SessionService ── ContactService ──┬── MCContactService ── ContactService_contacts.cfg
                                       └── ContactServiceProofs
    UserAccount ──┬── MCUserAccount ── UserAccount_accounts.cfg
                  └── UserAccountProofs

**ChatClient** is the part of `client.go` that does not depend on the message
mode. `pc[t]` says where each goroutine of each connection stands; `<<"read", c>>`
stands for the handler `NewClientInit` and then for the goroutine `Read` that it
starts last. `Clients` is the registry, `sock[c]` the WebSocket (`nil` after a
failed upgrade, `gone` once its peer is lost, `closed` after `Conn.Close`),
`SendBack[c]` the channel of the same name, `shut[c]` that `ClientLogout` has
closed the three channels, `status[m]` the row of a message, `wire[c]` what the
peer has received. Actions: `Dial`, `LoginLock` and `Started` (`NewClientInit`);
`Incoming` and `ReadFails` (`Read`); `Write`, `WriteError`, `WriteEnd`
(`Write`); `PingFails`, `HeartBeatDone` (`Heartbeat`); `GetClient`,
`LogoutLock`, `CloseConn`, `CloseChans` (`ClientLogout`); `PeerGone` is the
outside. `up` becomes FALSE when a panic ends the process.

**ChatServer** adds the hub of `server.go` and the part of `Read` that feeds it.
`hubAt` is where `Start` stands: `select`; `register` and `unregister` once a
connection is taken; `validate`, `reject`, `deliver`, `lock`, `fan` for a message.
`TakeTransmit` is everything up to the first use of the mutex or of a service,
`Validate` the call of the user service, `Deliver` the two non-blocking sends,
`FanLock`, `FanSend`, `FanDone` the blocking sends to a group or a called user.
`ReadMessage`, `Flush`, `Choose`, `TransmitLock`, `FlushSend`, `DirectSend` are
`client.go:50-86`: the two looks at the length of `Transmit`, without the mutex,
and what happens in between.

**KafkaChatServer** replaces the hub by the loop and the consumer of
`kafka_server.go`, and `Transmit` by a topic of one partition, of which it keeps
the messages behind the consumer's position. `Restart` loses what is in memory.

**MessageLifecycle** is the promise: a message goes from its peer through a
reader's hands, its stash and the queue to the hub, or is lost before it is
queued; the hub handles one at a time, each once; a message is shown only after
the hub took it, and only to its audience. `ChatServer!Lifecycle` maps the
channels to these stages.

**Lists** has `Select`, the loop that filters a list (who stays in a group, which
messages are of a history), as a recursive function that proofs can unfold.

**GroupService** is one group. `row` is its row in `group_info` (member list, count,
not deleted), `contact[u]` the number of live `user_contact` rows of a user with
it, `apply[u]` his application, `sess[u]` his session, `cached` the value of
`group_memberlist_<id>`, `client` whether the client of the session service is
there. A request `r` is `req[r]` and stands at a statement `pc[r]` of
`Program[op]`, which lists the statements of each handler in the order of the
code. `ReadGroup` is the read of the row with the checks and the computation of
the new row (`Accepts`, `NewRow`), which the request keeps in `mine[r]`; `Write`
the statements that write in a transaction, which take the locks `held[r]`;
`DeleteSession`, `SessionFails` and `NoClient` the calls of the session service
and their error paths; `Commit` and `Uncache` the end. `Find`, `Agree`,
`CreateContact` and `WriteGroup` are `PassContactApply` (and `Agree` the end of
`ApplyContact`), which has no transaction; `OpenSession` is the route of that name,
which anybody may call; `SessionGone` is a session's row deleted; `GetMemberList`
the cache-aside read. `guests` is a history variable: who opened the session that
he has while he had no contact row.

**MessageCache** is what `ChatServer` leaves out: the table of messages, and the
histories cached from it. `table` is the rows in the order of `created_at`,
`cached` the keys that exist, `list[k]` what is under a key. The hub stands at
`hubAt`, one call of the outside after the other: `Store` (the row, a failure of
which is only logged), `Validate`, `HubGet`, `HubSet` (`server.go:179-316`, and the
same in `kafka_server.go`). A request `r` is `GetMessageList` or
`GetGroupMessageList`: `Get` misses, `Fetch` queries, `Put` fills. `Expire` is
Redis, `Restart` loses the hub and the requests. `torn` records that the hub and
a request overlapped or that a call failed.

**ServiceDiscovery** is the three `main.go`, `etcd/*.go` and `clients/*.go`. A link
`<<p, s>>` is a goroutine of process `p` that looks for service `s`: `loop` is
where it stands, `found` the address it looked up, `once` its `sync.Once`,
`client` what it stored. `Register` adds a key that nothing removes;
`GetServiceAddr` takes the first of the sorted keys; `InitClient` runs the
initialisation if it is the first, and otherwise nothing, with success. Only the
session client dials before it is stored (`Blocking`).

**SessionService** has the statements of `session_service.go` for two users: the
rows per sender, in the order of their ids and never removed (`deleted_at`), the
cached session, the cached list. **ContactService** extends it by the contact and
application rows, and by the requests that run through both: `pc[r]` is the next
statement of request `r`, `req[r]` what it is. `FindApply`, `CreateApply`,
`SaveApply` are `ApplyContact`, `PassContactApply`, `RefuseContactApply` and
`BlackApply`; `Own`, `Other` the two contact rows, which passing creates,
blacking and deleting update; `DeleteSessions` and `SessionFails` the RPC,
before them for a deletion and after them for a blacking; `DeleteApplies` the
transaction of `DeleteContact`, `Uncache` the end; `FindBlack` and `SaveContact`
are `CancelBlackContact`; `GetUserList` the cached list. `OpenSession`, `Keep`,
`CreateSession` and `Unlist` are the route `openSession`, which checks nothing, and the
hub's `CreateSessionIfNotExist`, before which `Check` asks `GetContactStatus`
(`server.go:84-108`). `torn` says that requests
overlapped or that one stopped halfway, and is taken back by a deletion that does
neither: it is what a user would repeat. `loose` says that a session may be
there that should not.

**UserAccount** is the rows of one telephone number, `code` the verification code,
`ties[i]` what the user of row `i` still has, `info[i]` the cached answer about him,
`verdict[i]` what an administrator said last. `CompareCode`, `BurnCode`,
`FindPhone`, `CreateAccount` are `Register` and, in another order, `SmsLogin`;
`ReadAccount` and `SaveAccount` are `UpdateUserInfo` and `SetAdmin`; `SetStatus` is
`AbleUsers` and `DisableUsers`; `Erase` and `DropTies` are `DeleteUser`.

The modules whose names end in **Proofs**: section 6.

### Abstractions

* *Data.* A message is a number with a sender, a target, and a kind: `post` (text
  or file), `call` (an audio/video proposal, stored), `signal` (audio/video,
  not stored), `voice` (a type no branch handles), `badPath` (the avatar makes
  `normalizePath` slice from -1). Contents and JSON are left out.
* *Peers* are honest in one respect: a message names as its sender the user whose
  connection it came from. A user sends its messages in order of their numbers.
* *Channel sends.* Locking the mutex, a send that finds room, and unlocking are
  one step; only holders of the mutex send, so room seen at the lock is there at
  the send. A send that has to wait is two steps, and holds the mutex in between.
* *Failing reads and pings* last, so they are one step with the lookup they lead
  to. The three closes of `ClientLogout` are one step: each channel has readers
  of its own.
* *A write to a WebSocket* is one step. gorilla's panic on concurrent writers of
  one connection is therefore not in the model; nothing in the code excludes it.
* *The user and session services* are a verdict (`Verdicts`) in `Validate`.
* *MySQL* works at its default level, REPEATABLE READ: a read is of what is
  committed and locks nothing, a write locks its rows until the transaction ends,
  its effect is seen at the commit, and a wait for a lock may be given up. A lock
  is on the group's row or on the contact or application rows of a user.
* *Groups*: requesters are who they say, and owner operations come from the owner
  (the checks for others change nothing). Names, avatars, notices and join modes
  are left out. Redis does not fail. The cached session of `OpenSession` is a
  choice: it may be there, even when the session was deleted.
* *Contacts, sessions, accounts*: a miss in the cache and the query after it are
  one step, and Redis does not fail (in `MessageCache` they are two, and it does).
  A call of the other service is one step there, as is the transaction of
  `DeleteContact`. A `Save` writes
  every column of the row that was read, `deleted_at` included. Whether the other
  user is disabled, which `PassContactApply` looks at, is a choice. A request
  brings the code that was sent. Administrators handle one user at a time. That
  banning a user deletes his cached list of contacts is left out.
* `CheckOpenSessionAllowed` is left out: it is a route of its own, which only reads.
  Its answer is for the client to heed; `OpenSession` neither calls it nor knows
  whether it was called.
* *Discovery*: etcd does not lose keys. A service runs once at a time.
* *Not in the model*: the length limit and the wording of notices; `Close` and
  `RemoveClient`, which have no callers; `WsLogout`, to which no route leads; the
  caches `my_joined_group_list_`, `contact_mygroup_list_`, `group_info_` and
  `group_session_list_`, each filled and deleted like those that are.

## 4. The runs

All instances of the chat service have two users, `u1` with the connections `c1` and `c3`, `u2` with
`c2`, and a group of both. Channels have one or two elements instead of 100: every
condition in the code compares a length with the capacity, and the cases are
empty, full and in between. A `Mortal` connection is one whose peer may be lost;
`Faults` names the calls that may fail.

| Run | Instance | Result |
|---|---|---|
| `registry` | `c1`, `c3` of one user, `c1` mortal, one message, capacity 1, upgrades fail | `TypeOK`, `MutexInv`, `RegistryInv` (with `ClosedOnce`, `ShutIsLeaving`), `NeverReturns` hold; 705,472 states |
| `messages` | `c1`, `c2`, three messages (a group post among them) of both users, capacity 1, `c2` mortal, group loads fail, refusals | `MessageInv` (with the next two), `RefusedIsNotDelivered`, `ShownToItsAudience`, `ShownOnce`, `ImplementsLifecycle` hold; 646,848 states |
| `live` | `c1`, `c2`, a call and a text, capacity 2, `c2` mortal, stores fail, nil responses; `FairSpec` | `QueuedIsHandled`, `ShutIsRemoved`, `BeatingIsClosed` hold; 65,070 states |
| `wedge` | capacity 1, two messages, both peers mortal | `HubIsNotWedged` is violated |
| `reconnect` | `c1`, `c3` of one user, both mortal; `FairSpec` | `BeatingIsClosed` is violated |
| `kafka` | `c1`, `c2`, two messages of `u1`, `c1` mortal, capacity 1, upgrades, group loads, Kafka reads and writes fail, one restart; `FairSpec` | `TypeOK`, `MutexInv`, `ShutIsLeaving`, `HandledOnce`, `InOrder`, `QueuedIsConsumed` hold; 192,792 states |
| `groups` | `u1` owns the group, `u2` has joined, `u3` has not; three requests of any operation; statements and calls fail | `TypeOK`, `CountIsLen`, `OwnerStays`, `SerialAgree` hold; 2,404,480 states up to the symmetry of the requests |
| `overwrite` | two requests to enter, nothing fails | `EntersAreKept` is violated |
| `history` | two users and a group, four messages (one a call), two of the histories asked for, one request at a time, every call may fail, restarts; `Spec` is fair | `TypeOK`, `CachedInOrder`, `OwnPostsAreCached`, `HistoryCatchesUp` hold; 723,128 states |
| `discovery` | the three services with their four links, the session service at two addresses, each started twice at most | `TypeOK`, `ComesToBeUsable` hold; 90,466 states |
| `contacts` | two users who are strangers, applicants, contacts, or blacked; three requests of any operation, of which two may overlap (`Loose`); statements and calls fail | `TypeOK`, `BothSides`, `ListedIsContact`, `SessionsAgree`, `NoWayBack`, `DeletionLeavesNothing` hold; 773,955 states up to symmetry |
| `accounts` | no account or one, four requests of any operation; statements and calls fail | `TypeOK`, `OneAccount`, `VerdictStands`, `InfoIsFresh` hold; 537,623 states up to symmetry |

Why these sizes: a reconnection needs two connections of a user, and three
threads (reader, heartbeat, and a thread of the other connection) suffice for
every race of `ClientLogout`s, which meet at one entry of the registry; overtaking
and stashing need one message in `Transmit`, one in the stash and one in hand,
which are three; a wait cycle needs one full channel. In `live` the channels hold
all the messages there are, because liveness fails without that (`wedge`):
the run shows that the full channel is the only way to stop the hub. A second
restart adds nothing a first one does not show, since nothing survives one but
the rows, the topic and the peers' messages.

For groups, an owner, a member and somebody outside are the three roles there are,
and a user's records are touched on their own. Three requests are enough for two
that overlap with a third that changed the row before or in between, and for the
sequences that matter without overlap: a failed request, a repetition of it, and
one that meets what it left. `CountIsLen` and `OwnerStays` are checked for all
interleavings; that the records agree holds only as long as requests do not
overlap (`torn`), and `overwrite` shows why.

For histories four messages are two posts in one direction, an answer between
them, and a group post, so that a slow request can be overtaken by an append, and
an append by a later one. The hub is one thread, and a second request beside the
first would only be another late `Put`. In `discovery` two starts are a restart, and
two addresses a redeployment. What goes wrong between two users takes a request
that left something, one that builds on it, and one that asks; the initial
states stand for the sequences that lead to them (applying, passing, opening,
blacking). `BothSides` and its companions speak of requests that do not overlap,
since overlapping ones do break them (section 5), and of the state after a
deletion that sets it right. For accounts four requests are a code, a
registration, a deletion, and one that meets what they left; or a change, a ban,
and two that ask.

What the properties do not say, because the code does not keep it:

* `QueuedIsHandled` allows that the process dies, and `QueuedIsConsumed` that the
  consumer stops in one of the three ways of `Stopped`. They show that the mutex is
  given back on every path and that nothing else holds up the hub; the panics and
  the wait between loop and handler are in the model, and are not excluded.
* `BothSides`, `ListedIsContact`, `DeletionLeavesNothing`, `NoWayBack`, `OneAccount` and
  `VerdictStands` (`torn`), `SessionsAgree` (`loose`), `InfoIsFresh` (`mixed`),
  `SerialAgree` and `OwnPostsAreCached` (`torn`) are about requests one after the other.
  Two that overlap may break each of them, as section 5 tells; for those there are
  `CountIsLen`, `OwnerStays`, `CachedInOrder` and `HistoryCatchesUp`, which hold
  however steps interleave.
* `SerialAgree` allows a member without a session, and a session that somebody opened
  who is not in the group; it forbids that leaving leaves one behind.
* `ComesToBeUsable` excludes a link whose `sync.Once` is used up, and a service that
  moved.

Deadlock is not checked (`CHECK_DEADLOCK FALSE`) since the model really stops: the
messages are sent and handled, the process is dead, or the hub is wedged; in
`groups`, `contacts` and `accounts`, the requests are over; in `discovery`, everybody
has been found. `history` is checked for deadlock: it can always ask again.

### Fairness

Each goroutine is weakly fair, and nothing else is assumed: Go's scheduler is
preemptive, and its mutex hands over to a waiter that has starved for a
millisecond. The loss of a peer is noticed because `NewClientInit` sets a read
deadline and `Heartbeat` pings. Nothing obliges peers to connect, send or be lost,
Kafka to fail, or the process to restart. The disjuncts of one goroutine share
one fairness condition, so the hub's `select` may prefer any ready case.

`HistoryCatchesUp` needs that the hub and a request go on, which are goroutines
whose calls return, and that a key expires: every `SetKeyEx` gives it a minute. It
does not need that anybody asks. `ComesToBeUsable` needs that a started service
comes to serve and that the loops go on asking (`main.go` sleeps and repeats, for
ever); not that a service is started or stays up, which is its premise.

## 5. Where the code does not do what is said of it

* `wedge`: `server.go:545` and `client.go:79` mean that a full channel blocks
  nobody. A reader that saw room in `Transmit` waits for it with the mutex held
  after another one was faster, and the hub, which needs the mutex before it can
  take the next message, waits for the reader. The group and call branches wait
  for room in the `SendBack` of a connection whose writer may be gone.
* `reconnect`: `README.md:12` says that the heartbeat cleans up invalid
  connections. After a reconnection the failing connection's heartbeat closes the
  live connection and ends; the dead one is left open.
* `overwrite`: `group_info_service.go:491` says that the row is locked for update,
  so that users who enter at the same time do not overwrite each other's member
  list. The option `gorm:query_option` is of GORM 1; GORM 2, which `go.mod` asks
  for, ignores it. Two users read the same list, and the second `Save` removes the
  first user, who was told that he is in.

Other things that the models show and that are no runs, because no line of the
repository says the opposite or because a run would repeat one above.

Of the chat service:

* `client.go:75` means a message to be sent directly only when the stash is empty.
  The condition looks at `Transmit` alone, and `Transmit` drains between the two
  looks: the message passes those stashed before it.
* `client.go:110` takes a successful write for a delivery. The write may be the
  echo to the sender, the notice of a refusal, or to a lost peer.
* `kafka_server.go:138` says that the sender is surely online. He may have left, or
  not be registered yet; the consumer panics with the mutex locked.
* `README.md:75` says that Kafka keeps messages from being lost. No offset is ever
  committed (`kafka_service.go:45` multiplies a number of seconds, already a
  duration, by a second), and a new consumer starts at the end of the topic. So a
  message is lost at a restart, or else handled once: that is `HandledOnce`.
* Stashed messages move on only when the next message of the same connection is
  read. Those of a user who stops writing, or logs out, stay.
* A refused message is stored before it is checked, and is in both users' histories
  from then on.
* The hub appends to the sender's key only; the receiver's history lacks what was
  sent to him until his key expires. A history filled between the store and the
  append shows the message twice, one queried before the store and put after the
  append lacks it, and a message whose store failed is shown until the key expires.

Of groups:

* A `Save` that was computed before a dissolution inserts the group's row anew, with
  `deleted_at` empty: the group is back, without contact rows.
* `DismissGroup` and the others delete sessions by RPC in the middle of their
  transaction; when a later statement fails the rows are rolled back and the
  sessions stay deleted (compare the comment on `group_info_service.go:322`).
* A failed call of the session service returns a nil response, which panics; the
  deferred function rolls back, and the handler returns its zero values, an empty
  text with code 0, which is success (`panicked` in the model).
* Without a client `LeaveGroup` and `RemoveGroupMembers` return without a rollback.
  The transaction stays open; after `LeaveGroup` the group's row stays locked
  (`leaked`).
* A member who never opened a session cannot leave: the code -2 of the session
  service is passed over elsewhere, but ends `LeaveGroup`.
* An application may be approved twice, and puts the user into the list twice; the
  approval deletes no cached member list, and its other key names the group where
  it means the user (`user_contact_service.go:542`).

Of contacts and sessions:

* `CancelBlackContact` resets the canceller's row only: the other one stays blacked in
  his own, and is refused, with no operation but a deletion to change that. And who
  was blacked may black and cancel himself, which makes his row normal.
* An application that was approved can be approved again: two rows per direction, of
  which later updates write both, but `Save` only one.
* `BlackContact` without a session to delete answers -2 after it wrote both rows, and
  leaves the cached list.
* The error paths of `DeleteContact` after the first two updates return without a
  rollback of the transaction they opened (`user_contact_service.go:242-258`).
* Passing deletes the cached list of one user: the other one does not see his new
  contact until his list expires.
* The route `openSession` (`session_service.go:151`) asks nobody: a stranger, somebody
  blacked, or who is not in a group, has a session after one request, unless his
  client asked `CheckOpenSessionAllowed` before and kept to the answer.
* Two requests to open a session make two rows; a deletion removes the first. A
  deleted session is still answered from its key.
* `GetUserInfo` answers 0, and `grpc_server.go:16` of the user service takes only 1 for
  success: its response has neither name nor status, so the sessions that
  `CreateSession` stores have no name, and its check for a disabled user
  (`session_service.go:56`) never fires.
* `GetGroupSessionList` answers 1, which `JsonBack` has no branch for: the response
  is empty.

Of accounts:

* `Register` with a known telephone answers 0, success, without an account; and when the
  query for the telephone fails it goes on and creates one.
* Two requests with one code both register, if both compare before either deletes it.
* A `Save` computed before a ban undoes it, and one computed before a deletion brings
  the account back.
* `DeleteUser` cannot be repeated when it stopped after the row: it finds nobody. It
  deletes only the user's own contact rows; those of his contacts stay.

Of start-up:

* `user_service/cmd/main.go:81` says that a failed initialisation is tried again. It
  is called again, but `sync.Once` is used up, so the second call does nothing and
  returns no error: the loop ends with no client (`Spent`).
* The address of an instance that ended stays in etcd, and the first address is
  taken: a service that moved to a higher one is not found by those who start
  later. `ComesToBeUsable` says what remains true.

## 6. What is proved

The theorems assume of the constants what the modules state of them: connections
belong to users and messages have a sender and a target (`ConnAssumption`,
`MsgAssumption`), members are users and no group is one (`GroupAssumption`),
channels have a capacity of at least one (`SizeAssumption`), and the faults and
verdicts are known ones; a group has an owner, who is not among those who joined
(`OwnerAssumption`); there is a history one can ask for, as there are two users or a
group (`AskedAssumption`); a contact is between two users (`PairAssumption`); addresses
are positive numbers (`ServiceAssumption`). Sets may be infinite. Two theorems have a premise besides,
`DistinctMembers`: no group lists a member twice. It is one because the code does not
keep it (an application approved twice lists its user twice, section 5), and
without it they are false: the fan-out serves each entry of the list.

Each safety property of a passing run is proved, from an invariant that is
inductive. TLC checks those that are part of a run; the others were checked on the
run's instance before they were proved.

What a filtered list has is an induction over the list. There is no induction
theorem here with a formula for a parameter; instead the set of lengths that are
wrong, if there is one, has a least element, by the library's well-founded order on
the natural numbers (`Induction`), and a set may be a parameter. The two modules that
need it state it, and what follows of `Select` (`SelectFacts`), each for itself.

### Connections and channel hub

* `TypeCorrect` (`Spec => []TypeOK`). `TypeOK` is inductive: it says what each
  program point needs of the local variables it uses (a `ClientLogout` past its
  lookup has a connection, a hub past `TakeTransmit` has a message that is routed
  there), and that no channel exceeds its capacity.
* `MutexCorrect` (`Spec => []MutexInv`), inductive given `TypeOK`: each action
  moves at most one thread, and into or out of a section only with the mutex.
* `RegistryCorrect` (`Spec => []RegistryInv`), from which `NoDoubleClose`
  (`ClosedOnce`), `ShutLeaves` (`ShutIsLeaving`) and `ClosedStaysOut`
  (`NeverReturns`) follow.
* `MessageCorrect` (`Spec => []MessageInv`), from which `RefusedStaysBack`
  (`RefusedIsNotDelivered`) and `AudienceOnly` (`ShownToItsAudience`) follow.
* `ServerImplementsLifecycle` (`Spec => ImplementsLifecycle`): the channels, the
  stashes, the readers' variables and the hub implement `MessageLifecycle`.
* `ShownAtMostOnce` (`Spec => []ShownOnce`, given `DistinctMembers`).

`ClosedOnce` and `ShutIsLeaving` are not inductive. That a connection does not
come back into the registry after it was closed rests on its not waiting in
`Login` any more, hence on its being in `Login` at most once and on nothing
holding it before it is registered (`RegisteredOnce`); that a connection with
closed channels is on its way out rests on the order of `ClientLogout`, which
announces before it closes, with the registry possibly still holding it when it
reaches the closes (`AnnouncedBeforeClosed`); and that channels are closed once
rests on `Conn.Close` returning an error the second time, hence on a thread at the
closes having closed the socket itself. `RegistryInv` is the conjunction of the
four. The proof has a lemma for each action that changes what it speaks of; the
others (reads, writes, and all of the hub's work on messages) are one lemma,
`FrameStep`: they leave the registry, `Login`, `Logout`, `shut` and `client`
alone, and move a thread between points the invariant does not tell apart.

Nor do the two properties about messages hold by themselves. That what a peer is
shown agrees with the hub's verdict rests on the verdict being final: it is given
to a message once, because `Transmit` holds a message once and holds none that has
a verdict (`QueuedOnce`), because in turn a reader has a message it passes on at one
place only - in `jsonMessage`, `sendToMessage` or its stash - and no longer in
`Transmit` (`ReaderHolds`). The hub's part is `HubHasVerdict`: what it delivers was
accepted, what it rejects was refused, and the members it has still to serve are
of the message's audience. These and the two properties are `MessageInv`; most
actions touch none of it (`Quiet`), the others have a lemma each.

The refinement needs the same invariant. The mapped stage of a message is a search
through all connections' stashes and hands; by `MessageInv` only the connection that
read the message can have it (`StageByVia`), so a step of one reader cannot change
the stage of another's message. Then each action is a step of the abstract module (a
read, a stash, a push, a loss, the hub's taking, its showing and its finishing)
or leaves every stage and everything shown alone, and the theorem names which.

`ShownOnce` adds what the hub is about to send (`OnceInv`): before the fan-out nobody
has been shown the hub's message, and during it nobody whom it has still to serve;
that is where a member listed twice breaks it.

### Kafka hub

* `TypeCorrect` and `MutexCorrect`, as above. A consumer that panicked holds the
  mutex for good, and `MutexInv` says so.
* `ShutLeaves` (`ShutIsLeaving`), by `RegistryInv` of that module. It is smaller than
  the channel hub's: `Login` and `Logout` are unbuffered, so a connection goes from
  its thread's hands to the loop's in one step, and the thread that closes it has
  handed it over before.
* `OrderKept` (`InOrder`): `OrderInv` says that a user's messages are read in the
  order of their numbers, so that a reader's message is the newest of its
  connection; that the topic has a connection's messages in that order; and that
  what is handled is older than what is in the topic.
* `HandledAtMostOnce` (`HandledOnce`, given `DistinctMembers`), across restarts: a
  message is in a reader's hands, or in the topic once, or handled (`LogInv`), and
  what the consumer has in hand is shown to nobody whom it has still to serve
  (`DeliverInv`). A restart only shortens the topic.

### Contacts and sessions

* `TypeCorrect`, `SidesAgree` (`BothSides`), `ListsAreOfContacts` (`ListedIsContact`),
  `SessionsCorrect` (`SessionsAgree`) and the action properties `BlackedStays`
  (`NoWayBack`) and `DeletionsAreComplete` (`DeletionLeavesNothing`), for any number of
  requests of which any may fail.

The properties are about the moments between requests; the invariants fill in what
lies between. Requests that do not overlap (`~torn`, or for the sessions `~loose`) are
alone (`Alone`), so that what a request has read is what there still is.
`SessionInv` has for each user what `SessionsAgree` says, with one exception: the list
of a request that has changed the rows and is about to delete it; it needs that a
request about to create a session found none in the table *and* none in the cache.
`ContactInv` says what `Stage` the request under way has brought the tables to: that
passing has added a row on one side, blacking changed one side, and that a deletion
leaves, statement by statement, no rows, no applications and no cached lists. A
deletion may start from tables that are not even, since it is what sets them right:
nothing is said of them before it has written both sides. That no status becomes
normal again needs that the one request that writes `normal` over a row, a
cancellation, has found it black. `DeletionInv` ties the two tables together: a
deletion has left no session of its requester after the first call, and none of either
user once it has come to the rows (`Parting`); being alone, nobody opens another one
before it ends.

That there is a first row whenever there are rows (`First`) is the least element of a
set of numbers (`LowestId`), from the library's well-founded order.

### Accounts

* `TypeCorrect`, `AccountsAreOne` (`OneAccount`), `BanStands` (`VerdictStands`) and
  `CacheIsFresh` (`InfoIsFresh`), for any number of requests.

`TypeOK` needs that each request stands at a statement of its own operation
(`Typed`). The others are about requests of which no two that write overlap
(`~torn`), and what they need is `Orderly`, under that condition: one request writes at
a time; one that is about to create an account sees no account in the table; one
that is about to save has in hand the row as it is, but for its own edit, so that
saving it undoes nobody's; and a deletion under way accounts for what a deleted
user still has. Of the cached answer, `Serial` says what is needed when no requests
overlap at all (`~mixed`): what is about to be kept is the row, and an outdated
answer is one that the request under way is about to delete.

### Groups

* `TypeCorrect`, `CountsAreRight` (`CountIsLen`), `OwnersStay` (`OwnerStays`) and
  `RecordsStayInStep` (`SerialAgree`), for any users and any number of requests of which
  any may fail, give up waiting for a lock, or leave its transaction open.

`TypeOK` is not inductive: that a row is locked by one rests on a request holding
locks only inside its transaction (`LocksOK`), which rests on its standing at a
statement of its own operation (`Typed`, `Points`), which is what the lemmas about
each `Program` are for; and that it is answered once on ending once (`EndsOK`).

`CountIsLen` and `OwnerStays` hold however requests overlap, because what is saved was
computed from *some* row of the table: `RowInv` says of the row, and of every row a
request has in hand, that its list has the owner in it and that its count is right.
That removing members keeps the owner is where the loop over the list comes in.

`SerialAgree` speaks of the moments between requests; `SerialInv` fills in what lies
between, as long as requests do not overlap. The one request under way is alone, so
that the row in its hands is what its operation makes of the row as it is; whom it
lets in is not in yet; and once it is past the call of the session service nobody
whom it takes out has a session (`Grounded`). The last is why rolling back is no
disaster for `SerialAgree`, which allows a member without a session, but of the
reverse only the sessions of `guests`. `RecordsAgree` excepts an approval between its contact row and the group's
row, and the cached list of a request that is about to delete it.

### Histories

* `TypeCorrect`, `HistoriesInOrder` (`CachedInOrder`) and `OwnPostsCached`
  (`OwnPostsAreCached`), for any users, groups, messages and requests.

The order needs no condition: calls may fail, requests may be late, the process may
restart. `OrderInv` says that the table, and what a request has read of it, has each
message once in the order in which the hub took them (`Rises`). A cached list is
nearly so: one message may be twice in it, next to itself (`Tidy`). It does not get
worse because the hub appends only the message it is handling, which is the latest,
to a list that has that one at its end at most once and nothing newer
(`EndsLatest`); and after a restart it handles another one.

The posts need `~torn`. `Current` says, while nothing overlaps and no call fails, of
each key and of what the hub and the requests have in hand and will write, that
every delivered and stored post that belongs there is there once, save the one that
the hub is handling, which is in none of them. That it is in no list when it is
appended is the other half of "once".

### Service discovery

* `TypeCorrect`, for any services, links, addresses and number of starts. Besides
  types it says that a process that does not run has neither loops nor clients, and
  that whatever address a loop has found, or a client was made with, is still in
  etcd: nothing takes one back. Its induction needs only that its variables are
  functions of the services and links (`Shape`), and that the first of some addresses
  exists (`LowestAddr`).

### What is only model-checked

Liveness: `QueuedIsHandled`, `ShutIsRemoved` and `BeatingIsClosed` (`live`),
`QueuedIsConsumed` (`kafka`), `HistoryCatchesUp` (`history`) and `ComesToBeUsable`
(`discovery`). They rest on fairness, and so on ENABLED, which is out of the prover's
reach. The three violations of section 5 are behaviours that TLC found.

## 7. What is not modelled

`PROJECT.json` has the list with reasons. Left out for good: the uploads of files and
avatars (file I/O), the HTTP handlers, table definitions, configuration, logging
and TLS (decoding and I/O), SMS, and the chat rooms, which look into a map that
nothing writes.
