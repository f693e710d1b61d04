# A verification of EPI

EPI is a C++ library with which a program takes part in an Erlang system: it
creates a node, opens mailboxes, and exchanges messages with Erlang processes.
This directory holds TLA+ modules that model the library (the parts in which
threads and processes meet, and the terms they exchange), TLC configurations
that check them, and TLAPS proofs.
`PROJECT.json` ties every definition to the lines it models.

## Inventory of the system

| Component | State | Operations | Talks to | What is hard |
|---|---|---|---|---|
| `GenericQueue` | list of pointers, one mutex, one condition variable | `put`, four `get` (guarded or not, timed or not), `count`, `flush` | under every `MailBox` | one condition variable for receivers that want different elements; timeouts that race `put`; two thread libraries with different `wait` results |
| `EIConnection`, `EIMessageAcceptor` | socket and its mutex, acceptor thread, `mThreadExit` | `start`, `stop`, `close`, `sendBuf`; the thread's loop | reads the socket, calls `Connection::deliver` → receiver | polling against stop, a thread that stops itself, socket deleted by another thread |
| `AutoNode` | maps of mailboxes by pid and by name, map of connections by peer, flush list, three mutexes, accept thread | create / register / unregister / detach mailbox, `sendBuf`, `deliver`, `startAcceptor`, `close`, `ping`, destructor | user threads, accept thread and one acceptor thread per connection enter it concurrently | lookup and use are separate critical sections; removal of dead connections; destruction |
| `MailBox` | a `GenericQueue` of messages, its pid, a sender | `deliver`, `receive*`, `receiveRPC`, `send*`, `RPC` | `AutoNode` both ways | late RPC answers, errors that reach one receiver, undecodable messages |
| Message guards | a pattern or others, a binding | `check`, `match` | called by the queue, under its lock | a guard that rejects must leave the binding alone; errors in a guard are rejections |
| `LocalNode` | counters for pids, serials, ports, references, creations | `createPid`, `createPort`, `createRef`; hands the rest to its transport | used by `AutoNode` | wrap-around, unlocked counters, order of pids as map key |
| Node names | a name, a cookie | `isSameHost`, splitting of names | `AutoNode`, transport | is this node meant? |
| Erlang terms | trees, `VariableBinding` | building, `match`, `subst`, `equals` | guards, `receive`, buffers | a failed match; substitution in lists; index arithmetic of lists |
| Term format parser | – | `ErlTerm::format` | users, tests | must read what `toString()` prints |
| Term buffers | a buffer and positions for writing and reading | read / write terms, reset | mailboxes, connections | round trip of terms; two indexes; writes that fail half way |
| Transport, sockets | a listening socket, a port, ei structures | `connect`, `accept`, publish, unpublish | ei library, epmd | entries left by crashed nodes, ports that are taken, names that are taken |
| Conversions, observers, exceptions, debug | lists, none | `ToMessage`, notify | – | what is not understood must be reported |

How a message travels: a peer writes a frame; the acceptor thread of its
connection polls the socket, builds an `EpiMessage` and calls
`AutoNode::deliver`; the node looks the mailbox up under a mutex, releases it,
and puts the message into the mailbox's queue; a user thread in
`MailBox::receive` takes it from there. Sending between mailboxes of one node
enters at `AutoNode::sendBuf` and takes the same last two steps in the thread
of the sender. What is sent is terms: they are written to a buffer with a
binding, kept as they are for a mailbox of the same node, encoded for a peer,
and decoded and matched at the other end. The addresses are pids that
`LocalNode` makes, or names; the connection to a peer is found by its name with
the help of epmd.

What makes each part correct: the queue loses, doubles and reorders nothing
and does not let a receiver sleep beside its message; the connection hands over
the frames in order, tells of a broken link and stops when asked; the node
gives a message to the mailbox it names, never uses a connection or a mailbox
that is gone, and can be destroyed; identifiers are unique, and the map keyed
on them finds what is in it; terms arrive as they were written, and a guard
takes exactly the messages its pattern matches; a node that was started can be
found by its name, and its name leads to it and nobody else. `PROJECT.json` lists
under "hazards" where in the code each of these is at stake.

The library has two builds: with OpenThreads (`SConstruct`) and with Boost
(`src/src/Makefile`). They differ in what a timed wait returns, in what the
acceptor does on a broken link, and in the handling of thread objects. The
constant `Boost` selects between the first two.

## Modules

- `GenericQueue.tla`: the queue. Each body runs under the mutex from its first
  line to its return or its `wait()`, so that is one action. `pc` says where a
  caller is: about to take the mutex ("entering"), asleep ("waiting"), released
  by a signal ("woken") or by its timeout ("timedOut"). `Signal(p)` chooses the
  sleeper that `signal()` releases. `Enter` and `Resume` are the two ways into
  `Scan`: take the first accepted element (`Take`), or signal when guarded and
  then give up (`GiveUp`) or sleep (`Sleep`). `WaitFailed` is the test of the
  timed wait's value, which differs between the builds. Time is one bit per call:
  `expired[t]`. Pointers are put once each, so an element is an identity.
- `QueueContract.tla`: what the comments of `GenericQueue.hpp` promise: a call
  ends with the oldest element it accepts or, late, with null. `GenericQueue`
  maps `mList`, `req`, `expired`, `result`, `sent` to it (`ImplementsContract`);
  program counters disappear.
- `EIConnection.tla`: one connection; actions of the peer (`Send`, `Break`), of
  the acceptor thread (`Lock` to `Deliver`, one action for what happens between
  two points another thread can see) and of the owner (`Start`, `Stop`, `Close`,
  `Join`, `DeleteSocket`). The socket mutex is held exactly while the acceptor is
  "receiving". A frame that ei or `ToMessage()` cannot read becomes an
  `ErrorMessage` and is treated like any other frame, so frames are model values.
- `ConnectionContract.tla`: a Connection without threads: a stream of frames
  handed over in order, one report of a broken link, at most one frame lost to
  `stop()`, nothing after. `EIConnection` ends with the mapping: the frame in the
  acceptor's hand is still in the stream (`InTransit`), and the mode follows from
  `mAcceptor`, the acceptor's place, the flag and the owner (`Mode`).
- `MailBox.tla`: a mailbox and the remote calls made on it. It stands on
  `QueueContract`: each receive is one call of the queue with the messages its
  guard's `check()` accepts (`Checked`), and `Outcome` is what the method returns or
  throws for the message it got. `own[t]` is the call a thread is to receive the
  answer of, `plan[t]` the second half of `RPC()`. `SendRPC`, `ReceiveRPC`, `Receive`
  enter a method, `Finish` ends it.
- `AutoNode.tla`: the node in the OpenThreads build. A method that locks, works
  and unlocks is one action; every thread has a place `at[t]` and its local
  variables, so another thread may act between a lookup and the use of its
  result. A connection behaves as `ConnectionContract` says, a mailbox is the
  sequence of messages put into its queue. The three mutexes appear through
  `~AutoNode`, the one place that holds them across steps: `node` says how many
  it has, and `RegFree`, `ConnFree`, `BoxFree` are the guards of all others. It
  composes the other two: `Put` is `GenericQueue.Put`, `Receive`, `LinkFailed` and
  `Exit` are the visible steps of `EIConnection`.
- `NodeHistory.tla`: `AutoNode` with a variable that remembers what each thread has
  carried to the node, in order (`Record`). It restricts no step. With it every
  connection of the node can be compared with `ConnectionContract`, and the order
  of the messages in a mailbox with the order in which they were sent.
- `Terms.tla`: terms as values, and the methods of the term classes as operators.
  A result is a record that says what was returned or thrown; "terminate" is an
  exception that leaves a method whose throw specification does not name it,
  "undefined" a read through null or outside an array.
- `TermFormat.tla`: `toString()` and the parser of `format()`, over a text whose
  members are words and marks. `PFormat` and `EFormat` are the two levels of the
  grammar (patterns, and directives such as `~w`).
- `Buffers.tla`: `writeTerm()` and `readTerm()` of the two kinds of buffers. An EI
  buffer is a sequence of tags, one for each call of an `ei_x_encode_*` function,
  and an index is a position in it.
- `TermExchange.tla`: composes these three with the mailbox: a term is parsed or
  built step by step (`Parse`, `New`, `Extend`), written (`Write`), sent on one of
  three ways (`SendBuf`, `Send`: within the node, to a remote node, through a
  connection without a node) or sent by a node of another language (`PeerSends`,
  `PeerExits`), read when the message is constructed (`Message`), and checked by
  guards until one takes it (`Check`, `Receive`). Its own definitions of what
  is meant are independent of the code: `Instance` for substitution, `Fits` and
  `Matches` for matching. `careful` remembers that nothing improper was done; what
  that is, `Proper` lists.
- `LocalNode.tla`: the counters, which nothing locks: a pid or a port is made of
  what the counter is (`CreatePid`, `CreatePort`), and `mPidCount++` is a load and a
  store (`LoadPidCount`, `StorePidCount`) before the test that may reset it
  (`TestPidCount`), and so on with the serial and the ports; any other thread comes in
  between. What a test sees is what the thread stored or what the counter is by
  then (`Tested`). The three words of a reference are advanced in one step
  (`CreateRef`, `AdvanceRef`). Further the ordered map of
  mailboxes as a sequence in the order of its tree (`Assign`, `Erase`,
  `GetMailBox`: any place a descent by `operator<` can end), and `ping()` with answers that
  come late. `NewNode` is the next node of the process under the same name.
- `Transport.tla`: names are split, transports constructed, ports published and
  found again. Nodes are processes that crash (`Crash`); epmd notices at some time
  or never (`Expire`). `StartAcceptor`, `Publish`, `UnPublish` are the attempts of
  `startAcceptor()`; `Connect` and `SendBuf` are given any form of a name: the full
  name of a node, that with another name of its host, or the alive name alone.
  Whether the handshake succeeds is left open, so that cookies need no model.
- `MC*.tla`: values of constants, symmetry sets.
- `*_proofs.tla`: theorems, those of each module in one of their own.
  `SequenceLemmas.tla` holds what they need to know of sequences without
  repetitions, of inserting into and removing from a sequence, and of the least of
  a set of numbers.

Operators whose comment says "Mutant of" are not part of a specification: each
is a plausible bug of the operator it names, and the properties below were
checked to notice it.

## What is checked

All runs switch the deadlock check off, because the system really may stop: a
receiver with no message sleeps for ever, a closed connection and a destroyed
node have nothing left to do, and a program may have ended.

| Run | Instance | Shows |
|---|---|---|
| `QueueOpenThreads` | 3 threads, 3 messages, all overloads, spurious wakeups, timeouts that use up signals | `TypeOK`, `ElementsConserved`, `NoLostWakeup`, `NullOnlyWhenLate`, and `ImplementsContract` |
| `QueueDelivery` | 3 threads, 2 messages, untimed calls, fair | `Delivery`: a queued message reaches a sleeping receiver that accepts it |
| `QueueBoostNull` | Boost build | violated: `get(timeout)` returns null when it is notified |
| `ConnectionOpenThreads` | 3 frames, 2 starts, fair | `TypeOK`, `NoUseAfterDelete`, `ImplementsContract`, `StopReturns`, `FramesArrive`, `LinkErrorReported` |
| `Node` | 1 user, 1 mailbox, 2 names, 1 peer, 2 connections, 2 messages, fair | `TypeOK`, `SendsUseLiveConnections`, `DestroyedMailBoxesAreQuiet`, `LookupsFindLiveMailBoxes`, `MessagesReachTheirMailBox` |
| `NodeDeadConnectionRemoved` | 1 connection | violated: a dead connection stays in the map |
| `NodeDestructorReturns` | 1 connection, fair | violated: the destructor waits for ever |
| `MailBoxCalls` | 2 threads, 2 calls (1 bad), a note, an error, a garbled message, fair | `TypeOK`, `SequentialCallsGetTheirAnswers`, `ErrorsAreNotOvertaken`, `RPCsReturn` |
| `TermExchange` | terms of 2 elements over 4 others, 2 terms to a message, 6 texts, 5 guards, all ways | `TypeOK`, `MessagesCarryWhatWasWritten`, `ProperUseIsSafe`, `FormatReadsWhatToStringPrints`, `GuardsAreExact`, `RejectedMessagesBindNothing` |
| `BufferStartsOver` | the same, 1 term to a message | violated: the buffer of a received message starts after its first term |
| `LocalNode` | 2 threads, 2 mailboxes, pids of 3 ids and 2 serials, ports of 4 counts and 2 ids, 2 nodes | `TypeOK`, `PidsAreUnique`, `EveryMailBoxIsFound`, `DetachedMailBoxesAreForgotten`, `StalePidsFindNothing`, `PortsComeBackLate`, `PongsAreOwn` |
| `Transport` | 3 nodes of 4 descriptions (2 alive names, 2 names of the host, 1 wanted port, 1 unknown protocol), crashes, 3 names to send to | `TypeOK`, `PublishedPortsLeadToTheirNodes`, `StartedNodesAreKnown`, `TakenNamesAreOvercome`, `ConnectionsReachTheNamedNode` |

Bounds, and why they are enough. The queue: with three threads there can be a
sleeper that wants the message, a released receiver that does not, and a third
in between or arriving; three messages, two of them for the same guard, are
needed for overtaking in the middle of the list. The connection: three frames
are one in hand and two on the wire, of which a break may lose one; two starts
let the owner stop and start again. The node: two connections to one peer are
the case in which `addConnection()` overwrites one, two names for one mailbox
the case in which a detach must remove more than one entry and in which a name can
be taken from a mailbox that is still registered under the other; the accept thread
and two acceptor threads work beside the user. There is one mailbox:
two of them meet only in the map, which `LocalNode` checks with two. The mailbox: two calls are enough
for a late answer and for two threads to swap theirs; one message of each other
kind can stand before, between and behind the answers. Terms: with two elements
a tuple can hold one variable twice, a list can have a list, a variable or a
value for its tail, and a pattern can fail at its second element after it
bound its first; two terms in a message tell the index of a buffer from its
start; receivers with and without a bound variable tell a match from a binding; an
empty string stands among the arguments, bindings and elements.
Identifiers: the widths are parameters, and here so small that every counter
wraps and both serials occur; `MaxNodes`, `MaxPorts` and `MaxWord` bound how often.
`Overrun` is how far past its greatest value threads that race can drive a counter: one
more than it is a count that only a race makes. `Narrow` keeps what does not meet
apart: a node makes ports or it makes pids and references, and threads race for pids
when both make mailboxes, in a process with one node (a pid without a mailbox is in
nobody's way, and a new node resets counters and map, so that nothing of the
race but the pid a peer knows would outlive it).
With two mailboxes one can take the place of the other in the map, and two pings
can be under way. Transport: two nodes of one name and a third that wants their
port are enough for an entry that outlives its node and leads elsewhere, and for
two nodes that publish one name in turns; of the three names one is a node's own and
an alias of another's, one is bare.

### What the violations mean

- `GenericQueue.hpp:203` and `286`, Boost build: `timed_wait` returns true when it
  was notified. A timed receiver that is woken for a message returns null and
  leaves the message; as it consumed the signal, an untimed receiver can
  sleep on beside the message until the next `put()`.
- `EpiAutoNode.cpp:300`: the origin of an error is the acceptor, not the
  connection. The dead connection stays in the map and later sends use it.
- `EpiAutoNode.cpp:109`: the destructor joins acceptor threads while it holds
  the mutexes they need to deliver.
- `EIInputBuffer.hpp:54`: `resetIndex()` resets the index of writing. The
  constructor of a message has read the first term, so that a user who takes
  the buffer with `receiveBuf()` reads on from the second, or past the end. In a
  message within the node (`PlainBuffer`) the index is the right one.

What else the models show of the code, and where a property says how far it holds:

- `EpiMailBox.cpp:372`: nothing but the pattern `{rex, _}` ties an answer to a
  call. After a timeout (or a connection error) the answer that comes late is the
  next call's. `SequentialCallsGetTheirAnswers` says when a caller is safe.
- `EIConnection.cpp:176`, Boost build: the `break` on EIO precedes `deliver`, so
  the error message is dropped; `LinkErrorReported` holds in the OpenThreads build.
- `GenericQueue.hpp:199` and `282`: a timed wait that reports its timeout may have
  used up a signal (POSIX allows it of `pthread_cond_timedwait()`). `get()` then
  returns null without another look at the list and without a `signal()`, and a
  second receiver sleeps on beside the message that the signal was for, until the next
  `put()`: "The object at the head of the queue" (75-76) is not returned by the call
  that waits for it, and "null if none arrived in time" (104) is said of a message that did.
  `TimeOut` takes these steps; `NoLostWakeup` excepts them (`swallowed`) until the
  list is empty, and says that a wakeup is lost in no other way.
- `EpiAutoNode.cpp:176`: `close()` sets a flag that only the accept thread looks at.
  `EpiAutoNode.hpp:75-79` and `188-191` promise that it closes all connections and
  that no new messages are delivered; the connections stay open, their acceptor threads go on
  delivering, and `sendBuf()` still connects. `Close` in `AutoNode` is the flag;
  `MessagesReachTheirMailBox` claims nothing of messages after it.
- `EIOutputBuffer.cpp:80`: an `ErlString` that is empty is encoded by EI as the empty
  list and arrives as that from a peer, while within the node it stays a string.
  `Arrived` in `MessagesCarryWhatWasWritten` says so; patterns must expect it.
- `EpiAutoNode.cpp:310`: between `getMailBox()` and `deliver()` the mailbox may be
  detached, and by the documentation of `deattachMailBox()` then deleted.
- `EpiLocalNode.cpp:113`: `PidsAreUnique` is said of nodes whose threads do not
  meet in `createPid()`; where they do, two mailboxes share a pid, and a third
  thread may make one of a count past the test (0x8000 fits the field of an `ErlPid`,
  which has 18 bits). `TypeOK` gives pids the bits of their fields in any case, and the limits
  of the counters where no threads raced.
- `EpiLocalNode.cpp:129`: two threads in `createPort()` get the same port at once,
  although `EpiLocalNode.hpp:85` promises a "unique port". `PortsComeBackLate` is said of
  threads that do not meet there.
- `ErlPid.cpp:97`: `EveryMailBoxIsFound` is said of pids of one serial; beyond the
  first 2^15 pids of a node the map has no order to go by.
- `EpiLocalNode.cpp:131`, `ErlPort.cpp`: the counter of ports has 28 bits, a port
  18 of them: ports come back after 2^18, as `PortsComeBackLate` says.
- `ErlConsList.cpp:284`, `:130`, and the list that `format("[ ]")` makes: lists that
  cannot be substituted, closed or sent. `Proper` excludes them by name, and
  `ProperUseIsSafe` says that nothing else ends a program.
- `EITransport.cpp:99`: a node that does not get the port it asked for does not
  notice; the properties of `Transport` are said of those that got it (`HasItsPort`).
- `EpiNode.cpp:50`: `isSameHost()` is equality of names: the host is appended to both
  of two names that have one. `EpiNode.hpp:42-48` says it compares "with or without
  the hostname". A message sent to the node's own alive name, or to its name with another
  name of the host, is therefore not kept: `sendBuf()` goes to epmd and connects
  the node to itself (or throws, if EI does not take a name without a host).
  `ConnectionsReachTheNamedNode` says that the message arrives at that node all the same,
  and that no connection is made by the full name.
- `EpiAutoNode.cpp:66`, `80`, `95`: the constructors do not declare
  `EpiUnknownProtocol`, so that an identifier with an unknown protocol (such as
  `a@h:3128` without `ei:`) ends the program.
- `EITransport.cpp:153`: `connect(node, cookie)` connects with the cookie of the node
  (seen in reading; cookies are not modelled).
- `EpiAutoNode.cpp:193`: `startAcceptor()` withdraws a name that is taken even if its
  owner lives: `StartedNodesAreKnown` holds unless two living nodes share a name.

`SendsUseLiveConnections` holds for a reason worth knowing: because of line 300
the flush list stays empty, so nothing is ever deleted under a sender. Its
mutant, an origin that is the connection, shows that a repair of line 300 alone
would bring a use of a deleted connection.

### Fairness

- Queue: a runnable thread gets the mutex and the clock runs (weak fairness of
  `Enter`, `Resume`, `Expire`, `TimeOut`). `Delivery` needs in addition that a
  condition variable signalled again and again does not pass over one sleeper
  for ever (`SignalFairness`), which both libraries' implementations over
  pthreads give by queueing waiters, though POSIX does not promise it. Two guarded
  receivers that reject all there is do wake each other again and again
  (`GenericQueue.hpp:233`), so the assumption matters.
- Mailbox: a thread inside a method goes on, and the remote node answers each
  call at some time; nobody has to call anything.
- Connection: the acceptor thread is scheduled, a poll ends after 500 ms, and an
  owner inside `stop()` or `close()` goes on. Nothing is assumed of the peer or
  of calls that were not made.
- Node: the same for each thread and for a destructor that has begun.
- Terms, identifiers and transport: nothing; their properties are safety.

## What is proved

Every safety property of the queue, the connection, the mailbox, the node, its
identifiers and the transport that the runs check is also a theorem, for all
values of the constants. What is assumed of them is said by the named
assumptions of the modules, which TLC evaluates in the runs:

| Assumption | Says | Because |
|---|---|---|
| `RequestsAssumption`, `ModeAssumption`, `ValuesAssumption` (`GenericQueue`) | requests and the build are what they look like; null and "pending" are no elements | data types |
| `ConnectionAssumption` (`EIConnection`) | the same of frames and the build | data types |
| `MailBoxAssumption` (`MailBox`) | a bad call is a call, an unguarded receive accepts every message, and markers are no messages, calls or receives | data types |
| `DestAssumption`, `NoneAssumption`, `AcceptorAssumption` (`AutoNode`) | a message has an address; null is no message, mailbox or connection, and a pointer to an acceptor is neither null nor one to a connection | data types |
| `ThreadsAssumption` (`AutoNode`) | no thread is both a user, an acceptor or the accept thread | distinct threads |
| `WidthsAssumption`, `NullAssumption` (`LocalNode`) | widths are numbers; markers are no pids and no mailboxes | data types |
| `PortsAssumption` (`LocalNode`) | the counter of ports goes round after a multiple of the ids of ports | 2^28 and 2^18 in `EpiLocalNode.cpp:135`, `ErlPort.cpp` |
| `RefsAssumption` (`LocalNode`) | a node makes fewer references than the first two words tell apart | a bound of the model: 2^50 in the code |
| `NamesAssumption` (`Transport`) | names are sequences of words, marks among them | data types |

`NoBoostTimeouts` is no assumption on the constants but a hypothesis of three theorems: it
holds of the OpenThreads build, and of the Boost build when no call has a timeout.
Without it the run `QueueBoostNull` refutes `NullIsLate`, and with that the other two lose
what they rest on.

An invariant is seldom inductive as it stands. Each module of proofs begins with
the one that is; its steps are one lemma or one step for each action, and what
cannot be seen from the action alone is a lemma about the operator it calls.

`GenericQueue_proofs`: `TypeCorrect`, `Conservation`, in both builds;
`NullIsLate` and `QueueImplementsContract` under `NoBoostTimeouts`. The type
invariant contains the few facts that tie a caller's fields together (only a
timed call expires, a caller in a call has no result) and is inductive.
`ElementsConserved` is inductive above it; `RemoveAtToSet`, about removing an element
from a list without repetitions, carries the step `Take`. For the refinement every step of the
queue is a step of the contract or none: a `Take` is `Serve`, a `GiveUp` is `Refuse`,
sleeping and waking are nothing.

Its second part proves `NoWakeupIsLost`, under `NoBoostTimeouts`. `NoLostWakeup` is not
inductive: a released thread may take an element and use up the last signal
while another element waits for a sleeper. It never does, because `put()`
signals once per element, so the inductive invariant `SignalsCover` counts. Let
seen[w] be the set of elements that the sleeper w found in the list and refused.
However many of them the released threads could take, one each, there are at
least as many released threads as those elements and the elements that came
after them together. "As many as" is an injection (`Fits`, `Matches`), so nothing
need be finite. `Put` adds an element and releases a thread; `Take` uses one of
each; a guarded receiver that rejects passes its release on before it sleeps. A released
thread whose wait reports its timeout instead would break the count, which therefore is
kept while nothing is `swallowed`.

`EIConnection_proofs`: `ConnectionTypes`, `SocketOutlivesAcceptor` and
`ConnectionImplementsContract`, in both builds. `NoUseAfterDelete` is strengthened by
`Phases`, which says that the owner that waits in a join has an acceptor object, one
past it has none, and the socket is deleted only by an owner that has closed. For
the refinement `HandInv` adds that the thread has something in hand only between a
receive and what it does about it, that a broken link is what it reads last, and who
has asked it to stop when `mThreadExit` is set; `PeerImplements`,
`AcceptorImplements` and `OwnerImplements` take the three actors one by one.

`MailBox_proofs`: `MailBoxTypes`, `SequentialAnswers` and `ErrorsComeFirst`.
`SequentialCallsGetTheirAnswers` speaks of one step and needs the past: `SequentialInv`
says that while the calls come one after the other one thread at most waits for an
answer, and that the answers to all other calls have come and left the queue. The
queue beneath is `QueueContract`, of which `GenericQueue_proofs` shows that the queue
implements it.

`AutoNode_proofs`: `NodeTypes`, `SendsAreLive`, `QuietMailBoxes`, `LookupsAreLive` and
`MessagesArriveOnce`.
`Inv` adds to the types that the flush list is empty, that a connection in the map or in
hand was opened and is closed only by `~AutoNode` under the mutexes, that no
connection in the map has a message in hand once the mailboxes are destroyed, and that
mailboxes are in the map by pids while attached, and in that by names until they are
detached. `MessagesArriveOnce` is said of no run: it is the safety that belongs to
`MessagesReachTheirMailBox`, and rests on `OnePlace` (a message is on one wire, in one
thread's hands or in one queue, never in two of these) and `RightBox`.

`NodeHistory_proofs`: `ConnectionsKeepToTheContract`, `MessagesInOrder` and
`MessagesWithoutGaps`, for any number of users, peers, connections and mailboxes.
The first says of any one connection of the node that it implements
`ConnectionContract`, as `EIConnection` does: the brief model of a connection in the node
and the detailed one are held to the same promise. (That they have the same
behaviours is not said.) A connection is
"shut" while its acceptor has not run, "ended" once it was asked to stop or stopped
itself, and "open" in between; `ConnectionSteps` says what a step of anybody means for a
connection, `ContractStep` what that is in the contract. It needs `AcceptorsStartOnce`: the
thread that opened a connection is the only one to hold it until it has started its
acceptor, although `addConnection()` publishes it before. `MessagesKeepTheirOrder` needs
`Carries`: what a thread has in hand is what it took last, and it takes no message
twice. So a message it puts last into a queue comes after all it had carried before.
`MessagesLeaveNoGaps` rests on `GapsAreFinal`: when a mailbox has got a message of a thread,
a later one for its pid misses it only when it is detached already, and `deliver()` finds no detached mailbox by its pid, so
that nothing for that pid follows. Of names the like is not true, because a name can be
given to another mailbox and back. No run states these three: the history multiplies the states of
`Node`, and with its liveness properties the run would take too long. Apart
from the runs, TLC agrees with the first two and their inductive invariants on that instance
without its liveness (1.9 million states), and with the third on an instance with one mailbox and
three messages, where it also reaches states in which a message missed its mailbox.

`LocalNode_proofs`: `NodeTypes`, `UniquePids`, `LatePorts`, `MailBoxesAreFound`,
`ForgottenMailBoxes`, `StalePids`, `OwnPongs`, for counters of any width and any number
of threads and mailboxes. `PidsAreUnique` is not inductive: two pids differ
because the counters had been advanced between them. The inductive invariant
`Inv` adds `Given` (as long as no threads raced and the serial has not come
round, every pid that a mailbox has is earlier than the counters, or stands at them
while a thread has yet to advance them or to carry)
and `InHand` (a thread alone in `createPid()` knows the counters: it steps them by one,
and one is past its greatest value only between the store and the test). `CountingInv`
goes through its steps. `Numbered` gives, while threads do not meet in `createPort()`,
the i-th port as a remainder of i, and says where a thread there stands with the counter;
`LatePorts` follows from it. The map has three lemmas:
`LessTellsPidsApart` (of one serial, `operator<` orders the pids of a node),
`OrderedMapFinds` (in an ordered sequence every descent ends where the key is, or
would be) and `FoundIsKey`; `GetMailBoxEffect`, `AssignEffect` and `EraseEffect` draw from
them what the operations do, in order or not. `Mapped` is the invariant of the map,
`Created` dates it by creations, `Asked` and `Referred` follow a question and its answer:
the answer in a mailbox has the pid of its call, and references in use are earlier than
the counter unless two threads raced for one.

`Transport_proofs`: `TransportTypes`, `PublishedPorts`, `StartedNodes`, `TakenNames` and
`Connections`, for any nodes, names and ports. The invariant ties a node's stage to
what it has done: who is in epmd is there under its own name and port and listens if it
lives (`Located`), two nodes that listen have different ports (`ListenersApart`), a name has
one living node unless there was a duel (`NamesApart`), and a node that finds its name
taken at its second attempt has a rival (`TakenByRivals`). `PositionIsFirst`,
`BeforeAndAfter` and `PartsOfNames` are about the splitting of names, of which the alive name
holds no host; `FullTellsApart` and `AliveOfFull` about putting them together.
`KeptIsOwn` draws from them that what a node keeps is named by its own full name, so that
epmd, asked for that name, would have told of the same node.

### What is only model-checked

- Liveness: `Delivery`, `StopReturns`, `FramesArrive`, `LinkErrorReported`,
  `MessagesReachTheirMailBox`, `RPCsReturn`. TLAPS does not prove liveness under fairness.
- Everything about terms: `MessagesCarryWhatWasWritten`, `ProperUseIsSafe`,
  `FormatReadsWhatToStringPrints`, `GuardsAreExact`, `RejectedMessagesBindNothing` and the
  types of `TermExchange`. Matching, substitution, codec and grammar are recursive over
  terms: what they compute for every term is an induction over data, which the provers
  at hand cannot carry out. The types too depend on what they return.
- What the violated runs refute.

## Not modelled, and the plan

Not modelled, with the reasons:

- Reference counts of terms (`ErlTermPtr.hpp`): lifetime of C++ objects rather
  than control. Terms are values, so that a term shared by two threads of
  one node, whose count is not atomic, is outside the models.
- The Boost build of `AutoNode` and of the thread object of a connection: races on
  the objects themselves, whose outcome C++ does not define.
- What a thread does to a node, mailbox or connection that has been freed: the
  models stop at the first step that would need it.
- Sockets below `bind`, `listen` and `accept`, and the bytes of the external term
  format: the ei library and the operating system.
- The spelling of words in the format parser; commands of guards (code of the
  user); exceptions and debugging (no state); observers (nobody in the library
  observes); the sample programs.

What could follow: the Boost build of `AutoNode`, once its outcome is defined; and terms of any
depth, with a prover that can do induction over them. That an error is received
before what came after it (`ErrorsAreNotOvertaken`) is a matter of a mailbox alone:
`AutoNode::deliver` drops a connection for an error and puts nothing into a mailbox, so only a
mailbox that a connection knows without a node between them gets one.
