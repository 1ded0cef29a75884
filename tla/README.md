# Verification of the chat

TLA+ models of the chat in this repository (a C server, a C terminal client, a
Node bridge and a React page), the TLC runs that check them on small instances,
and proofs that hold for every instance. Paths below are relative to the
repository's root; `PROJECT.json` maps every definition to its lines.

## The system

| Part | Code | State it keeps | Operations |
|---|---|---|---|
| Wire protocol | `src/protocolo.h` | none | one packet of 1024 bytes: command, length, sender, target, payload |
| Client table | `src/server/client_list.c` | `lista[100]`, `num_clientes`, `mutex_lista` | `cl_add`, `cl_remove`, `cl_find_by_name`, `cl_find_by_fd`, `cl_set_status`, `cl_touch`, `cl_build_list`, `cl_get_info` |
| Main thread | `src/server/servidor.c` `main` | the connection it is registering | accept, read the first packet, register, start a thread or close |
| Client threads | `client_thread`, `src/server/server_handlers.c` | one packet, the socket, `username` | broadcast, direct, status, list, info, logout; cleanup and notice |
| Inactivity thread | `inactivity_thread` | `now`, its place in the loop | every 10 s mark and tell users idle for 60 s |
| Terminal client | `src/client/*.c` | `running`, a line, a packet | register, read lines, show packets, leave |
| Bridge | `chat-frontend/bridge/bridge.js` | per page: a TCP socket, its buffer, `tcpConnected` | connect, relay both ways, cut the stream into packets, close |
| Web client | `chat-frontend/frontend/src/useChat.js` | refs and React state | connect, the packet handler, the poll, requests, logout |
| Pages, styles, images, build files | `App.js`, css, Docker, nginx, Makefile | none of the chat's own | not modelled |

How they interact. The threads of the server share the table, its mutex, the
process's descriptors and the sockets: any thread may write to any client's
socket. Clients and server exchange packets over TCP; the two threads of the
terminal client share `running`, the socket and a signal; the page and the
bridge exchange JSON over a WebSocket, and the bridge speaks the packet protocol
with the server, so all its users have one address.

What is hard here:

* *Concurrency.* A slot is visible before its user is answered; a broadcast is a
  loop of blocking sends under the mutex; status changes are made under the mutex
  and announced after it; the name of who left is freed before others are told.
* *Reuse.* Slots, descriptors and names are all reused while packets for their
  last holder may be under way.
* *Limits.* `num_clientes` is a high-water mark, names are cut to 31 bytes, the
  list to 957.
* *Failure.* A client may vanish at any step, stop reading, reset its connection
  with requests unread, or say nothing at all while `main` waits for it.
* *Waiting.* `fgets` and a signal, `recv` and `close`, `pthread_join`.
* *Pieces.* The server's stream reaches the bridge in pieces of any length, and
  what the page sends before the TCP connection is up is dropped.
* *Late callbacks.* A socket of the page closes some time after `close()`, and
  its `onclose` works on the same refs as the next login's; a timer fires on
  whatever socket is current.
* *Views.* The page shows a status before the server has it, and a list that was
  made before a notice that overtook it.

What makes each part correct:

* table: no two members share a name, an address or a descriptor; a slot stands
  for a live session and a session for a slot;
* mutex: its holder is inside a critical section, and the slot it is using stays;
* delivery: one order of broadcasts for everybody, nobody skipped, a direct
  message to its target or nobody, nothing to who is not registered;
* status: an idle user is marked, and no other; a user knows its status;
* departure: the name becomes free, everybody else is told, once per session;
* terminal client: packets shown in order, one session on the wire, no false
  alarm, and the process ends;
* bridge: each direction an ordered pipe that loses nothing while the connection
  is up; a page first hears that the connection is made or why it is not; neither
  side outlives the other (a server that ends later gives a close without words);
* web client: one live socket, a chat shown exactly while its session lasts, the
  true reason on the form, and a view that comes to agree with the table.

`PROJECT.json` lists under `hazards` where each of these could go wrong.

## Modules

| Module | Models | Built on |
|---|---|---|
| `ChatProtocol` | commands, statuses, packets | |
| `ClientList` | the table: one operator per `cl_` function, with the lock it takes | `ChatProtocol` |
| `ChatServer` | all server threads, the descriptor table, sockets, peers, time | `ClientList` |
| `Presence` | abstract: who is a member, with which status | |
| `ChatServerProps` | properties, and the refinement mapping to `Presence` | `ChatServer`, `Presence` |
| `ChatServerClaims` | statements of docs and comments that the code breaks | `ChatServerProps` |
| `ChatServerProofs` | theorems: types, descriptors, the monitor's marks | `ChatServerProps` |
| `ChatServerTableProofs` | theorems: the mutex, slots and sessions | `ChatServerProofs` |
| `ChatServerDeliveryProofs` | theorems: who is given which packets | `ChatServerTableProofs` |
| `ChatServerPresenceProofs` | theorem: the server implements `Presence` | `ChatServerDeliveryProofs` |
| `ChatServerHistoryProofs` | theorems: notices, the order of broadcasts, the status told | `ChatServerPresenceProofs` |
| `MCChatServer` | small instances | `ChatServerClaims` |
| `TerminalClient` | both threads of the client, the user, any server | `ChatProtocol` |
| `TerminalClientProps`, `MCTerminalClient` | its properties, its instances | `TerminalClient` |
| `TerminalClientProofs` | theorems: types, the alarm, the wire, the screen | `TerminalClientProps` |
| `Pipe` | abstract: an ordered pipe that may break | |
| `Bridge` | the callbacks of one page's two sockets, a page, a server | |
| `BridgeProps` | properties, two refinement mappings to `Pipe` | `Bridge`, `Pipe` |
| `BridgeProofs` | theorems: packets are whole and in order, types, the order of what a page hears, a pipe each way | `BridgeProps` |
| `WebClient` | the hook: its state, refs, sockets and timers; bridge and server | |
| `WebClientProps` | what the page should show | `WebClient` |
| `WebClientProofs` | theorems: every invariant of the web client | `WebClientProps` |

### The server

State and code: `lista`, `num_clientes`, `mutex_lista` are the globals of
`client_list.c`. `descr` is the process's descriptor table (which connection a
number stands for), `acc`, `th[c]` and `mon` are the program counters and locals
of the main thread, the thread of connection `c` and the monitor. `inq[c]` holds
packets not read yet, `delivered[c]` everything written to `c`, in order.
`cli`, `sent` and `full` are the peers' side, `clock` is `time(NULL)` in units
of the monitor's sleep.

Grain. A critical section without a send is one step, since nothing else can be
seen inside it; its action needs the mutex free. One with sends takes the mutex
in one action, makes one step per send and releases it in another, as a send may
wait for the peer. The steps between two critical sections, the answers and the
cleanup are separate, in the order of the code. `accept` and `close` use the
lowest free descriptor, as POSIX requires, so numbers are reused at once.

Data. A name, an address, a text and the answers to LIST and INFO are atoms. The
cut of a name to 31 bytes is the constant function `Clip`: what is stored and
sent is `Clip[name]`, what is compared in `cl_add`, `cl_find_by_name` and
`cl_set_status` is the name in the packet, as in the code.

Environment. A connection is made once. A client registers at once, goes on when
it was answered, and makes `Budget` requests, each any of `Offers`, a second
REGISTER among them; after LOGOUT it is silent. A stranger (`Strangers`) may send
LIST first, or nothing. A leaver may close at any time, and unread requests may be
lost with it; a stallable peer may stop reading and go on later. Clients put their
own name into `sender`, as both clients of the repository do: the server never
compares it with the slot (`server_handlers.c:76`, `:94`, `:138`, `servidor.c:58`),
so this is an assumption about clients and not a property of the server.
`Punctual` says that a handler takes less than a tick of 10 s; it restricts `Tick`
only, and nothing but handlers: the monitor may wait for the mutex over any number
of ticks and then judges by the time it read before. At `MaxTime` the last tick
stands for all that follow: the clock stays, and the monitor goes on waking as
long as it finds somebody to mark.

### The terminal client

`main` and `rec` are the program counters of the two threads. The test of
`running`, the prompt and the wait in `fgets` are separate steps, so are the
failed `recv`, the second test of `running`, the alarm and the signal: all the
places where the other thread can come between. The signal has an effect only on
a main thread that waits. `close` does not wake a receiver that waits in `recv`;
`pthread_cancel` does. The server is any process that accepts, sends what it
likes and closes when it likes; the user types lines and may end the input.
Blanks, usage texts, colours and the loop that upper-cases a status are left out:
`Request` gives the packet a line becomes, or none.

### The bridge

`ws`, `tcp`, `tcpConnected` and `tcpBuffer` are bridge.js's variables and the
states of its two sockets, `handler` says whether the next message of the page
meets `ws.once` or `ws.on`. A callback is one action, with the loop that cuts the
buffer: Node runs one at a time. `up` and `down` are the WebSocket's frames under
way, `stream` and `toServer` the TCP connection's. A unit stands for a part of a
packet, and a piece of the stream is any number of units, so a packet may come in
pieces and several in one. `sendWs` drops what a closing socket cannot take.
Node reports the server's end (`TcpEnd`) before its `close` (`TcpClose`), and in
between a write fails. The page may send before it has read `tcp_ok`, close, or
vanish without a close frame; the server may write, read and close, and the
network may refuse or reset the connection. Pages share nothing in the bridge, so
one page is enough. JSON, the fields of a packet, the logging and the HTTP server
are left out.

### The web client

The variables are the hook's state and refs, under their names; `readyState`,
`up` and `down` are the page's sockets, and one callback, timer or user action is
one action. `Closed` is what `close()` does to a socket: the browser gives the
page no more of its messages, and its `onclose` comes later. `handlePacket` has a
disjunct per branch; React's state is set at once, as no callback reads a state
it has just set. The interval of 15 s is abstracted to an order: it may fire
whenever the greeting of 200 ms has fired and the last LIST was answered.

The server's side is one session per socket: dialling, connected, a member, gone.
It drops what comes before `tcp_ok`, refuses a second session (every page comes
from the bridge's address, and `cl_add` takes one user per address), and announces
a departure after the entry is gone. `bob` stands for everybody else. A request
takes two steps: `Serve` makes of `cl_touch`, its notice and the change or look
into the table one step, and `Reply` sends what the handler sends, so that a notice
can come between a list and its delivery; module `ChatServer` has every step apart,
and `StatusToldIsStatusHeld` is what makes the merged ones a fair picture. A
broadcast comes back to its sender too, and the page ignores the echo.

`hurried` records a user who logs in before the last socket has closed or within
200 ms of a welcome, or asks for a second user's data before the first answer.
What such a user meets is in the model, and the properties that do not hold for
him say so.

## Runs

| Run | Instance | Shows |
|---|---|---|
| `Membership` | 3 connections, 2 descriptors, 2 slots; one pair shares the address, one the name, one name is too long | slots, sessions, descriptors and the mutex correspond in every order of arrivals and departures, by LOGOUT or by hanging up; nothing reaches who is not registered; a departure is announced once; `Presence` is implemented |
| `Messages` | 3 users, 2 of them send and leave, one may stop reading | one order of broadcasts, nobody skipped, direct messages to their target only |
| `Requests` | 2 users, all requests and a second REGISTER, a stranger, a monitor that may be late, 2 ticks | a user's own STATUS never fails, the status told is the status held, the idle are marked and nobody else, `Presence` is implemented |
| `Progress` | 3 users, a LOGOUT, 2 that hang up, one that may stop reading, a silent stranger, fair threads | unless a peer holds the server up for good, a client is answered, a departure frees the name, everybody left is told |
| `Terminal` | 2 lines, 2 packets, fair threads | order on the screen, one session on the wire, true alarms, the client exits |
| `Bridge` | 2 and a half packets of 2 units, 2 messages of the page | both directions are ordered pipes that lose nothing while up, packets stay whole, an error comes before the close it explains and nothing after it, neither side outlives the other |
| `WebClient` | 2 logins, 2 events of the user, bob, the monitor or a failure | one live socket, chat and session agree, the form says why, messages are of this session, data are of the user named, the view settles, nobody is stuck |
| `Welcome` | violation | a broadcast can reach a newcomer before its welcome (`cliente.c:75` expects the answer first) |
| `Full` | violation | after `MAX_CLIENTS` slots were used, "Servidor lleno" with an empty table (`client_list.h:28`) |
| `Reactivation` | violation | LIST is handled while its sender stays INACTIVE, although `README.md:123` says any command reactivates |
| `LongNames` | violation | two users with one name, if the names are 32 bytes long (`client_list.h:28`) |
| `LostSignal` | violation | the signal that should end `fgets` can come too early (`cliente.c:47`) |

Bounds and why they are enough. The table's operations compare pairs of slots
and look for one hole, so two slots and a third connection that reuses a slot, a
descriptor and a name reach every case; the loops over slots treat each alone.
Two broadcasts are enough for an order, a third user for somebody who joins or
leaves meanwhile. Two ticks with a timeout of one reach: not yet idle, idle,
marked, reactivated, idle again. Two lines and two packets let the client be
stopped in every state of its loop and once more after it. Five units of a
packet of two give two packets and a part: pieces end inside a packet, at its end
and beyond it, and something is left over. Two logins let the sockets of two
sessions overlap, and nothing in the hook reaches further back than the socket
before; two events are a change and what overtakes it (a status and the monitor's
notice, a departure and a return, a request and a failure), and the poll comes on
top of them without a bound. No symmetry is used: the users differ by what they
share.

Why a property is not stronger. `UniqueMembers` and `OwnStatusAccepted` need
names that fit in 31 bytes (`LongNames` shows why; `Membership` keeps one long
name, which is harmless). `StatusToldIsStatusHeld` holds while handlers are
punctual: with a handler that sleeps a minute between `cl_touch` and its notice
the monitor's notice comes first. `OwnStatusAccepted` is about users who give
their own name, as above. `AnyCommandReactivates` is about the step in which a
command's handler begins, so a mark the monitor sets later does not count against
it, and a server that called `cl_touch` for LIST as well would keep it.
`AlarmIsTrue` says the connection was closed,
not that the user did not ask for it: after LOGOUT the server's close can be
seen before the main thread clears `running`. `SessionAgreement`, `ReasonShown`
and `InfoLabelled` leave out a user in a hurry: the `onclose` of the socket before
does not ask whose it is and takes a new session's page back to the form
(`useChat.js:223`), the timer of 200 ms may send LIST as the first packet of the
next session, which the server refuses (`useChat.js:87`), and the answer to INFO
does not say whom it is about (`useChat.js:176`). `OneLiveSocket` and
`MessagesOfSession` hold for him too. `ReasonShown` lets the form stay without
words when a connection ends before the welcome without an ERROR: the code says
nothing then.

Fairness. Every thread that can go on does at some time: the scheduler starves
none, a POSIX mutex that is free again and again is got in the end, because the
traffic of an instance is finite. No fairness is given to the peers or the user.
In `Bridge` the callbacks of ready sockets run, an attempt to connect
ends, and browser and server read: that is what Node's and the browser's loops
do. Nobody has to send or to close. In `WebClient` every socket's callbacks, the
timers and the server's threads are fair; the user, bob, the monitor and failures
are not.
In `Progress` a peer that stops reading makes a thread wait in `send` with the
mutex held, and a silent stranger makes the main thread wait in `recv`; nobody is
served meanwhile, and nothing in the code ends it. So the properties of this run
are about behaviours in which that comes to an end: `Runs == <>[]~HeldUp`, where
`HeldUp` names the places of the code in which a peer is being waited for. They
show that the server gets over each such wait, wherever it was caught. In
`WebClient` the silent first connection of another program is left out: while it
lasts, the page's login waits, which `NeverStuck` does not cover (`servidor.c:175`).

`CHECK_DEADLOCK` is turned off in `WebClient` only: a page at its form with all
logins used up has nothing to do. `NeverStuck` says what may not get stuck there.
In the other runs `Over`, `Exited` and `Done` say explicitly where an instance may
end, with every thread at rest and the mutex free, or both sockets closed.

## Proofs

The theorems hold for every set of connections and names, every size of the
table, of a packet and of a stream, every timeout and every choice of the other
constants allowed by the assumptions named in the modules: `NamesAssumption`,
`ListAssumption`, `ClipAssumption` (what a slot keeps of a name is a name),
`ServerAssumption`, `ClientAssumption`, `BridgeAssumption`, `WebClientAssumption`. TLC
evaluates each on the runs.

| Theorem | Module | States |
|---|---|---|
| `TypeCorrect` | `ChatServerProofs` | `Spec => []TypeOK` |
| `DescriptorsHaveOneOwner` | | `Spec => []DescriptorsOwned` |
| `OnlyTheIdleAreMarked` | | `Spec => MarksOnlyIdle` (an action property) |
| `MutexProtected` | `ChatServerTableProofs` | `Spec => []MutexProtects` |
| `EntriesOwnSockets` | | `Spec => []EntryOwnsSocket` |
| `SessionsHaveEntries` | | `Spec => []SessionHasEntry` |
| `MembersUnique` | | `Spec => [](NamesFit => UniqueMembers)` |
| `DirectMessagesReachTheirTarget` | `ChatServerDeliveryProofs` | `Spec => []DirectReachesTarget` |
| `RefusedHearOnlyTheError` | | `Spec => []RefusedGetOnlyError` |
| `LoopsSkipNobody` | | `Spec => NobodySkipped` (an action property) |
| `OwnStatusIsAccepted` | | `Spec => [](NamesFit /\ TextsApart => OwnStatusAccepted)` |
| `ServerKeepsPresence` | `ChatServerPresenceProofs` | `NamesFit` proves `Spec => ImplementsPresence` |
| `DeparturesAreToldOnce` | `ChatServerHistoryProofs` | `Spec => []NoticeOnce` |
| `BroadcastsInOneOrder` | | `Spec => []SameOrder` |
| `StatusToldIsHeld` | | `Spec => [](Punctual /\ NamesFit => StatusToldIsStatusHeld)` |
| `ClientTypes` | `TerminalClientProofs` | `Spec => []TypeOK` |
| `AlarmsAreTrue` | | `Spec => []AlarmIsTrue` |
| `SessionsAreOrderly` | | `Spec => []SessionOnTheWire` |
| `PacketsAreShownInOrder` | | `Spec => []ShownInOrder` |
| `PacketsAreWhole` | `BridgeProofs` | `Spec => []WholePackets` |
| `BridgeTypes` | | `Spec => []TypeOK` |
| `ConversationsAreOrderly` | | `Spec => []ConversationInOrder` |
| `PageHasAPipe` | | `Spec => ToPage!Safe` |
| `ServerHasAPipe` | | `Spec => ToServer!Safe` |
| `LastSocketLives` | `WebClientProofs` | `Spec => []OneLiveSocket` |
| `ChatsStartEmpty` | | `Spec => []MessagesOfSession` |
| `ChatsFollowSessions` | | `Spec => []SessionAgreement` |
| `PageTypes` | | `Spec => []TypeOK` |
| `FormSaysWhy` | | `Spec => []ReasonShown` |
| `DataBearTheirName` | | `Spec => []InfoLabelled` |

**The server.** The first inductive invariant is `BasicInv == Basics /\ MonitorAtSlot`, where
`Basics` is the conjunction of `TypeOK`, `OwnRequests` and `DescriptorsOwned`, and
`MonitorAtSlot` says that the slot the monitor is about to announce is one of the
table. `OwnRequests` carries the assumption about clients along (a packet in a
thread's hand is one its client may have sent); it is no result. None of the three
is inductive alone: that a thread's packet is a request needs the type
of the queue it comes from; that the main thread's connection has no thread needs
that a queued connection has none and is queued once; that `close` frees the
right descriptor needs that a thread's descriptor is its own. Lemmas about `Min`,
the first match of a search and the table's operations stand first; then there is
one lemma per process and part of the invariant, with a case for each action.
`MonitorBehind` (the time the monitor judges by has passed) adds what
`OnlyTheIdleAreMarked` needs: who is idle by an old time, and has the time of its
last activity in a slot the monitor now holds the mutex for, is idle by the clock.

The second is `TableInv == BasicInv /\ MutexProtects /\ Entries /\ Distinct`.
`Entries` joins the two directions of `SessionHasEntry` to `EntryOwnsSocket`, and
adds that no two slots have one descriptor: without that, `cl_remove`, which
frees the first slot that matches, could leave a second one behind. `Distinct` is
`UniqueMembers` without descriptors, its half about names under `NamesFit`
(`Clip` changes no name), which `LongNames` shows to be needed. The argument:
only `cl_add` and `cl_remove` change which slots are in use (`AddEntries`,
`RemoveEntries`; `SameEntries` for every other operation). `cl_add` runs for a
peer without a thread, so its descriptor is in no slot; `cl_remove` takes the
thread's own slot, as descriptors are injective (`DescriptorsOwned`). A
descriptor is closed only by a thread past its `cl_remove` or by `main` for a
peer that is not registered, so no slot loses its socket; one is opened only if
it is free, so no slot gets a stranger's. `cl_remove` needs the mutex free, so
a slot that is being sent to stays.

What clients receive rests on `TableInv` and on `Outs`, which says what kind of
packet a thread has in hand in each of its loops, and that the slot a direct
message is going to bears the target's name. `Deliveries` then says of every step
that it delivers nothing, or one packet (`Regular`) to one registered user or the
refusal to the main thread's peer. From there:

* `Addressed` (everything delivered is for its receiver) is inductive because
  `HeldSlots` keeps the slot of a held mutex as it is;
* `Fresh` says that whoever is waiting to be registered (`Pending`) was given
  nothing; it is what makes `RefusedGetOnlyError` inductive, as a connection with
  a refusal never comes back to the main thread;
* `AllBehind` says that every slot behind a loop's index holds a user who was sent
  the packet or is gone; the mutex keeps newcomers out of the holes behind it;
* `Honest` says that no thread has the refusal of a STATUS in hand. It needs
  `NamesFit`, since the status is looked up under the packet's name and not the
  slot's, and `TextsApart`, since in the model a user could otherwise write the
  text of the refusal.

The refinement of `Presence` maps a connection to the status in its slot, or to
"left" or "out" by its thread. `Mirrors` says that this mapping is right, and
`HasStatus` that a slot's status is one. Every step leaves the statuses or changes
one (`TableEffect`: a change or a stutter), removes one slot (a leave), or
registers (a join). The join's capacity is counted: the members are the image of
the active slots, and the slot the newcomer is given is not one of them. Without
`NamesFit` a join could meet a member of the same cut name.

Three properties relate whole histories of what clients were given; `Spoken` sums
up what a step may say to whom. `Notified` counts, for every client and name, the
notices given and the one its slot is still owed against the sessions that have
ended; `Named` says that a thread announces the name its own connection
registered with. The end of a session adds one to the right side when it takes a
loop to everybody on the left, and a round of the loop moves one from owed to
given.

`InOrder == SameOrder /\ Current`. `SameOrder` counts broadcasts backwards, so
that users who registered at different times can be compared, and the one on its
way to a slot the loop has not reached counts as heard: then the loop's start moves
every user by one, and so a round moves nobody. `Current` says that the last
broadcast of whom the loop has passed is the one in the thread's hand. The mutex
makes the loops one at a time (`OneLoop`), and a newcomer's slot has heard nothing
(`WhoHeard`).

`StatusHeld` says of each user that its slot has the status on its way to it, or
the one it was told last, and that one whose handler has a status to tell was
touched in the present tick. Under `Punctual` the clock waits for that handler,
though not for the monitor, so the monitor, however late, which wants a slot idle for `INACTIVITY_TIMEOUT`, does not mark it
(`LatelyNotMarked`), and there is one piece of news at most on its way to a user.
Without `Punctual` the property is false, as said above, and without `NamesFit` a
STATUS could change another user's slot.

**The terminal client.** `Threads` says which states of the two threads go
together, and `TypeOK /\ Threads` is inductive. `Closing` adds who has closed the
socket: main clears `running` before it closes, so a receive that fails while
`running` is set was the server's doing. `Session` relates the wire to main's
place: empty before REGISTER, no LOGOUT on it as long as main may still write. `Order` says
that what was shown, what is in hand, what is under way and what a reset lost make
up, in this order, what the server sent; the packet in hand is handed over without
a gap between the two threads that read.

**The bridge.** `RelayInv` is `Relay /\ Opening /\ \E c : Continues(c)`: after `c`
packets the buffer holds the bytes that follow, the stream those after the buffer,
and the frames on their way to the page or taken by it are the first `c` packets,
in order, with some possibly lost once the WebSocket was closing. A piece that
arrives adds `Rounds` packets to `c`; the arithmetic of cutting is in
`RoundsFacts`, `SliceIsPacket` and `Leftover`.

`Kinds` gives the bridge's other variables their types. With `Upward` it shows that
only requests reach the server: the page's first message is met by `ws.once`, and a
close frame by neither handler. `Talk` is about everything the page has heard or is
going to hear: while the page and its WebSocket are open, nothing was said before the
server's connection was up, something was after, and nothing final.

`Pipe!Safe` is the part of `Pipe!Spec` without fairness: both refinements are proved
step by step from it. To the page: `InLine` says that the packets among what the
page has heard or is going to hear are the first ones of the server, one behind the
other after the first frame (`Talk` gives it), and all that were cut off while the
WebSocket is open. `WholePackets` alone would allow a gap in the middle. So the
packet `PageReads` takes is the one that `Get` of the pipe gives, and it was put in
when the server had written its last unit. To the server: `Passed(a, f)` says that
what was written to the server are the page's messages after the first `a`, without
a gap, and that those the page sent after it had read `tcp_ok` begin at the `f`-th,
with `a < f`: only earlier ones were dropped. While the connection is up the next
message that meets `ws.on` is the one after the last that was written (`Waits`
counts them), and `Early` says that a page knows of no connection that was not
made. `a` is chosen when the connection is made. `Bodies` and `Numbers` select by
rank (`Picked`) and not with the recursive `SelectSeq`, so that the provers can
reason about them: `PickedInterval` is all that is needed, as both select a
stretch without a gap.

**The web client.** `Sequel` says that only the last socket lives. It and `Shows`
(what any step does to the messages: one is tagged with the socket it came by, and
only the last one is open) need nothing about the server, and hold for the user in
a hurry. `Sessions` is `SessionAgreement` made inductive: at most one
session is in the table, only a session that is or was there has a welcome on its
way, and of a user who is not in a hurry every older socket is closed, and
`voluntaryLogout` is not set while a socket lives. So a socket that ends is the
current one, and `onclose` takes the page out of the chat if it was in it; the
welcome that is read is the current session's. `Mail` types what is under way, and
says that the browser gives the page nothing of a socket it has closed; `Page` types
what the page keeps. `SessionAgreement` says nothing of a user in a hurry, and the
theorem neither: `hurried` is never reset. `Told` is about the current socket:
`Course` says what may be under way on it (an ERROR before the welcome is read only
as a refusal, nothing after a close, no request before the chat), `Account` what
the form may say in each state of the session, `Labels` that every INFO, its answer
and the data shown are of the user asked for last. A new socket starts with nothing
on it (`Fresh`).

Every invariant a run checks is a theorem. Model-checked only is what TLAPS cannot
do, liveness under fairness and ENABLED: that a pipe which stays up delivers
everything (`WF_vars(up /\ Get)` in `ImplementsPipeToPage` and
`ImplementsPipeToServer`), and `IdleBecomesInactive`, `EveryClientAnswered`,
`DepartureFreesName`, `EveryoneTold`, `EndsAfterExit`, `EndsAtNextLine`,
`EndsTogether`, `ViewSettles`, `NeverStuck`.

## Not modelled

* The bytes of a packet on the server's sockets: a packet is written and read
  whole, though two threads that write to one full socket could interleave its
  parts (`server_handlers.c:15`).
* The text of LIST and its cut at 957 bytes (`client_list.c:105`): what a cut
  entry looks like is a matter of the text, without an interleaving.
* Failures of `malloc` and `pthread_create`, signals other than SIGUSR1, half-open
  connections, empty names.
* Senders that are not the client's own name. No handler checks the field, so such
  a packet would be taken for the named user's; both clients fill in their own.
* The bridge's process as a whole: with a port that is no number `tcp.connect`
  throws (`bridge.js:75`), with a host that is no string `trim` does
  (`bridge.js:71`), with a first message that is `null` the test before it
  (`bridge.js:66`), and the sessions of all its pages end. The page sends a string
  for both.
* `activeChat` and the texts of the web client, which only its display reads, and
  the parts marked so in `PROJECT.json` (pages, styles, build): they keep no state
  of the chat.

Where documentation and code differ without a behaviour to check:
`chat-frontend/README.md:82` promises several tabs with different users, but all
users of a bridge have its address and `cl_add` refuses the second one
(`client_list.c:44`); `chat-frontend/README.md:84` describes `CHAT_HOST` and
`CHAT_PORT`, which `bridge.js` does not read: it takes both from the page's first
message. `userInfo` and `pendingInfoTarget` survive a logout.

## Plan

Done: the protocol, table and server with their properties, `Presence`, the
terminal client, the bridge, the web client, and the theorems above. Left, in
this order:

1. `UserList`: `cl_build_list` with its cut as a function over the slots, against
   the reference "the entries that fit", and what both clients make of a cut
   entry.
