# A TLA+ model of the auction server (ProjRC)

The program is an auction house: a server `AS` that keeps accounts, auctions
and bids as files in a directory tree, and a command-line client `user`. The
client logs in and lists over UDP, and opens, closes, bids and fetches assets
over TCP. The server is several processes that share the directory tree and one
named semaphore. Paths below are relative to the root of the repository;
`database.cpp` and the like stand for `src/server/database.cpp` under `src/`.

The interesting question is whether requests that take dozens of system calls
each, in several processes, look to their users like single steps. The answer
of the model: with the lock they do; there are four ways out of the lock's
discipline, or of what the comments promise, in the database and its handlers,
and two in the processes around them (see *Disagreements*). The second question
is whether the client, which keeps a session of its own and hears of the server
only by messages, believes what is true there: it does as long as every UDP
command it sends has been answered in time, and not after that.

## 1. Inventory

### Components

| Component | State | Operations | Interacts with |
|---|---|---|---|
| **Database: accounts** (`database.cpp`) | `USERS/uid/`, its `HOSTED/` and `BIDDED/`, `uid_pass.txt`, `uid_login.txt` | `LoginUser`, `Logout`, `Unregister` | semaphore; read by every other function |
| **Database: auctions and bids** | `AUCTIONS/aid/`, `START_aid.txt`, `ASSET/`, `BIDS/value.txt`, `END_aid.txt` | `Open`, `CloseAuction`, `Bid`, the subroutine `Close`/`CreateEndFile` | reads the accounts, writes `HOSTED` and `BIDDED` |
| **Database: listings** | none of its own; it closes auctions that are over | `MyAuctions`, `MyBids`, `List`, `ShowRecord`, `ShowAsset` | `Close`; `ShowAsset` starts, and `List` runs, without the semaphore |
| **Semaphore and base directory** | one named semaphore per port | `semaphore_init`, `_wait`, `_post`, `CreateBaseDir` | all of the above |
| **Request handlers** (`handlers.cpp`) | none | one `handle` per message code | call the database, turn its result or exception into a status |
| **Server processes** (`server.cpp`) | `sig_int`, `ex_trial`, sockets, descriptors | `processTCP`, `processTCPChild`, `processUDP`, `terminate` | fork; each calls handlers |
| **Protocol** (`protocol.cpp`) | message under construction | `buildMessage`/`readMessage` per message; `send_*`, `await_*` | handlers and client |
| **Verification and conversion** (`verifications.cpp`, `utils.cpp`) | none | range and format checks, at both ends of a message | protocol, database, client |
| **Client** (`client.cpp`, `commands.cpp`) | `_user_id`, `_password`, the UDP socket with what has come, the TCP descriptor | one `handle` per command, the UDP exchange with its retry loop, the TCP exchange | server, by messages |
| **Output** (`output.cpp`) | none | printing | what it prints is not modelled, but for whether an auction is closed |

### Behaviours that are hard

* *Interleaving and atomicity.* A request is a sequence of `mkdir`, `fopen` and
  `remove`; the processes of other requests run between any two of them.
  `Unregister` gives the lock up twice in the middle.
* *The lock's discipline.* `sem_post` is written by hand on every exit.
* *Partial failure and crashes.* A file can fail to be created at any point, a
  process can die between the creation of a file and its contents, and the
  server can be restarted on what is left.
* *Time.* Auctions end by themselves; whoever looks next writes the END file.
* *Processes.* A failing call between `accept` and `fork`, a client that stays
  silent, SIGINT at any moment, a datagram nobody has a handler for, a handler that
  waits for a semaphore another one has lost.
* *Messages.* A datagram can be lost, late or overtaken; an answer carries nothing
  that says which request it answers. Both ends check and convert what a message
  says, each in its own way.

### What makes each component correct

* Accounts: who is logged in has an account with a password; a user is not
  unregistered while logged in.
* Auctions: bids rise and stay; none is made on one's own or an ended auction;
  the end is written once; an id is given once; an auction that can be seen is
  complete; what is answered is what was done.
* Listings: what is listed was true when it was computed; no file is shown half
  written.
* Semaphore: one process inside at a time, and every way out gives it back once.
* Handlers: every result has the answer the comments promise.
* Processes: no connection is forgotten or leaked, one bad request does not stop
  the others, the server stops when it is told to, and only then.
* Client: its idea of being logged in agrees with the server's; an answer is that
  of the request it waits for; nothing is executed twice; every command ends.
* Messages: what is read is what was typed; what one end accepts the other does.

`PROJECT.json` lists the hazards one by one, at their lines, with the properties
that cover them or the reason none does.

## 2. Modules

    DatabaseFiles ── Accounts ───────────────┐
               └──── Auctions ── Listings ───┴─ Handlers ── AuctionServer ── MCAuctionServer
                                                              │ House (INSTANCE)   │
    AuctionHouse  <───────────────────────────────────────────┘        AuctionServer_types
                                                                                   │
                          AuctionServer_calm ── AuctionServer_house ── AuctionServer_failures

    ServerProcesses ── MCServerProcesses
               └────── ServerProcesses_proofs

    Messages ── ClientSession ── MCClientSession
       │                  └───── ClientSession_proofs ─┐
       ├─────── Records ── MCRecords                   ├─ Messages_proofs
       │           └────── Records_proofs ─────────────┘
       └─────── Messages_proofs

| Module | Models |
|---|---|
| `DatabaseFiles` | the shared files, the semaphore, the clock, the locals of the process of each request, the functions that only read (`CheckUserLoggedIn`, `GetStart`, ...), `semaphore_wait` and `_post` |
| `Accounts` | LIN, LOU, UNR: `LoginUser`, `Logout`, `Unregister` and the functions they call |
| `Auctions` | OPA, CLS, BID: `Open`, `CloseAuction`, `Bid`, and `CreateEndFile` |
| `Listings` | LMA, LMB, LST, SRC, SAS |
| `Handlers` | where a message enters the database, what each result is answered with, which process serves it |
| `AuctionServer` | the composition: `Init`, `Next`, fairness, time, deaths and restarts; all properties |
| `AuctionHouse` | the abstract specification: accounts, auctions and bids that change in single steps |
| `ServerProcesses` | `processTCP`, its children, `processUDP`, the semaphore their handlers share, failing calls, SIGINT |
| `Messages` | pure operators: the checks and conversions of the client, `buildMessage`, `readMessage` and the conversions of the server, for every request |
| `ClientSession` | any number of clients with their commands, sessions and sockets, the network, and of the server the accounts |
| `Records` | the record of one auction: the fields of START, bids and END with the clock readings they come from, `ShowRecord`, the answer to SRC and how the client reads it |

The `MC` modules give the constants values; the modules named `..._types`, `_failures`,
`_house`, `_calm` and `_proofs` hold the theorems of section 5.

### How the model corresponds to the code

**Files.** A file is `NoFile`, `Empty` or its contents. `fopen(.., "w")` or
`ofstream::trunc` makes it `Empty`, the `fclose` writes it: two steps, so other
processes and crashes see the file in between. A directory with subdirectories is
the number of `mkdir`s that have succeeded. Contents are reduced to the fields a
later step reads: START to host, value, duration and time; a bid to its user and
time. Names, descriptions and asset bytes are left out, an asset is `"none"`,
`"partial"` or `"whole"`.

**Processes.** Every element of `Requests` is one request and the process that
serves it; `pc[r]` is the database function, or the part of one, it executes
next. A step is a stretch of code with at most one effect on what other
processes see. What the function only reads in that stretch is read in the same
step; this is sound inside the lock, and `List` and `ShowAsset`, which read
outside it, are split at every directory entry they visit and at every lock
operation. `cont[r]` is the critical section to enter after the next `sem_wait`;
`Return` is a `sem_post` followed by a return or throw, `Escape` an exception that
passes every `sem_post` of the function, `Reenter` a `sem_post` and a second
`sem_wait`. UDP requests are served one at a time (`UdpBusy`), TCP requests each
in their own process.

**Requests.** `Arrive` gives an idle request any contents from `Menu`, a set of
messages that have passed the checks of the protocol. `Menu` is a constant: the
runs choose requests that contend, the proofs allow any.

**Failures.** `Fail` is a creation that fails, `Crash` the death of one process
with the semaphore it may hold, `Restart` the end of all processes and a new
semaphore over the old files. The death of the UDP process leaves its request
`"dead"`: nobody serves UDP until a restart.

**Server processes.** In `ServerProcesses` `parent` and `udp` say where the two
loops are; `failed` means that `accept` or `recvfrom` has returned -1, the only
point at which `sig_int` is evaluated. `held` is the set of connections the
parent has a descriptor of, `cur` its `connection_fd`. `Interrupt` sets `sig_int`
in both and wakes only the process that is blocked. `row` is not in the code: it
counts the calls of the parent that failed since it last forked a child, to say of
`trials`, the code's `ex_trial`, that it is reset.

What a handler does to the database is `AuctionServer`; here it is where it is with
respect to the semaphore: before any `sem_wait` (`"handle"`), in one (`"wait"`), or
between it and the `sem_post` (`"inside"`). `Unregister` goes through three critical
sections (`left`), `List` posts without waiting. An exit without `sem_post` (the
exceptions of section *Disagreements*, 2) is `Throw` of a child and `UdpThrow`: it
sets `leaked`, and from then on others can wait for ever. `Lost` says that this has
happened: an exception has passed a `sem_post`, the semaphore is 0 and nobody is
inside to post it. A child in `"wait"` then keeps its connection, and the UDP process
in `"wait"` serves nobody any more; only an LST that the UDP process gets to can bring
the semaphore back. A handler that `SIGINT` wakes in `sem_wait` throws and is done.
What a TCP message is, and which of its handlers runs, is left to the choice between
`Refuse`, `Call`, `Handle` and `Throw`; a datagram is a code, chosen when it is
received, because nobody sees it before.

**Clients.** `pc[c]` says whether a client is at its prompt, waits in `select`
(`"await"`), or is at one of the three calls of a TCP exchange (`"connect"`,
`"write"`, `"read"`). A step goes from one blocking call to the next. `user`,
`password`, `tries` are `_user_id`, `_password`, `triesLeft`; `socket` is the
queue of datagrams that have come and not been read; `open` counts TCP
descriptors. What the user types is a record of words (`Typed`), taken from
`Menu[c]`; a command that a check refuses sends nothing and changes nothing, and
is therefore no step. `TimeoutException`, `Retries`, `SendAgain` and `GiveUp` are
the loop of `sendUdpMessageAndAwaitReply`; `SendAgain` is what the loop would do
and never does. `LogsIn` and `LogsOut` are the `case`s of the handlers that call
`Client::login` and `Client::logout`.

**The network.** `requests` and `answers` are sets: what is in them may be taken in
any order and at any time, or never, which is how a message is lost. A datagram
is not duplicated: on a local network UDP does not, and each message is unique
(its client, its turn, and the try it belongs to). `Deliver` puts an answer into
the socket of its client, whatever that client does by then. A TCP answer comes on
the connection of its request, so `ReadAnswer` takes that of this turn only.

**The server of the clients.** It serves a request in one step. For the accounts
this is what `AuctionServer` does: LIN, LOU and UNR are served by one process, one
after the other, so no other message that changes an account comes between their
parts. `LoginStatus` and `LogoutStatus` give the one status they are answered with
(`"silent"` for none); the auctions are not modelled there, and the other requests
are answered with any status their handler can send to that user (`ListStatuses`,
`OwnerStatuses`).

**Words.** A word is its length and the number its digits spell, enough to tell
`7` from `007`. `Verified` is what the client checks, `MessageOut` what it puts in the
message, `buildMessage` the text (ids of auctions padded, those of users not),
`Readable` what the reader of each field demands, and `ReadResult` how `readMessage`
ends. `ValueSize` and `UintWidth`, 6 and 32 in the code, are constants so that a run
can reach the wrap of an unsigned integer with small numbers.

**Records.** `Records` looks at the same functions as `Auctions` and `Listings` from the
other side: a request is one step, which `AuctionServer` justifies as long as no LST has
run, and the files have all their fields. Requests that are refused change nothing and are no steps.
A step that stamps a file reads the clock up to three times, as the code does: for its
check, for the date and for the elapsed time (`Stamps`); in between the process may have
been suspended. The clock does not go back. The words of the answer have their lengths, so
that a reader can stop short (`Overlong`) or find no space where one must be
(`RecordUnreadable`). Each answer reaches the client before the next SRC; that another
may come instead is the subject of `ClientSession`.

## 3. Runs

| Run | Checks | States | Shows |
|---|---|---|---|
| `market` | `MutualExclusion`, `AcceptedBidsStand`, `HostsNeverBid`, `ClosedAuctionsEnded`, `EndsInTime`, `BidsIncrease`, `NoBidAfterEnd`, `EndIsFinal`, `HouseSpec` | 1.9 million | Three requests at a time bid on an auction while it ends, close it, open another and list, and a process dies or the server is restarted anywhere in between. |
| `service` | `NoLeak`, `ListingsTrue`, `NothingTorn`, `AuctionsWhole`, `AllServed`, `HouseSpec` | 260 000 | Accounts, listings, records and assets beside an open and a bid; every request is answered. No deadlock. |
| `failures` | `TypeOK`, `LoggedInHasPassword`, `BiddersListed`, `OpenedOnce`, `LossesBounded`, `BooksSurvive` | 3.1 million | What survives one failed creation, one death or restart, and LST without the lock; the last two, which need the lock, as long as no LST has run. |
| `processes` | `TypeOK`, `DescriptorsAccounted`, `StopsForAReason`, `ConnectionsEnd`, `DatagramsServed` | 630 000 | Two connections and datagrams, of unknown codes too, whose handlers share the semaphore and may lose it, two failing calls and a SIGINT. |
| `client` | `TypeOK`, `AnswersCorrespond`, `StrayAnswers`, `AtMostOnce`, `SessionTrue`, `MeaningKept`, `ChecksDiffer`, `SocketsClosed`, `CommandsEnd` | 320 000 | Two clients, their sessions and their messages over a network that loses, delays and reorders. |
| `records` | `TypeOK`, `RecordNewest`, `BidsPrecedeEnd`, `ReadBack`, `ClosedForGood` | 91 000 | One auction from its files to the client's screen, with values at the limits of their fields. |
| `unlocked_list`, `leaking_bid`, `refused_bid`, `interrupt`, `unknown_code`, `late_answer` | one property each | – | are violated; see *Disagreements*. |

### Bounds and why they are enough

* **Three requests** (`Requests`). Every hazard here is between two requests, or
  two and the time that passes; the third lets a request meet the leftovers of
  one that has finished while a second runs.
* **Three users**: one hosts, one bids, one is unknown to the server. **Three
  values**: one below, one equal and one above another bid.
* **Two or three auctions**: one that ends while the run goes on, one that does
  not, one id that is free. `MaxAid` (999 in the code) is 2 where the question is
  whether ids run out. The order in which ids are given is the one in the code.
* **`MaxTime` 1 or 2**: auction 1 lasts one second, so it is active, over and
  later than that.
* **`MaxFaults`, `MaxCrashes` 1**: after one failure the rest of the behaviour is
  unconstrained. The properties of `failures` hold after every single failure; the
  proofs have no bound. `market` has a death or restart but no failed creation, after
  which ACC and OK need not be true (`refused_bid`, and `SoundDisk` in section 5); that
  the refinement holds with one is proved.
* **Menus**: `market` contends for one auction, and bids on the one that an OPA makes or
  has died over, by the user who sent it too; `service` leaves out the requests
  that leak the semaphore (it asks whether the rest is served), `failures` has the
  requests that create files, and LST.
* **`processes`**: `RetryMax` 2 (5 in the code) and two faults, so that the
  limit is reached, and that it would be reached with a success in between if the
  success did not count; a queue of one, so that it is full. `SemMax` 2: an LST can
  raise the semaphore above 1, and at its limit `sem_post` fails. The codes (`McCodes`)
  are one of each kind the semaphore tells apart: LMA waits and may lose it, UNR waits
  three times, LST does not wait, XYZ has no handler. `InboxSize` 1: the handler that
  waits, and a datagram behind it.
* **`client`**: two clients, four commands between them (`MaxTurns`): one that is given
  up, the one that takes its answer, and one more of the other client, or of the same
  with what it now believes. Both clients use the account of one user, so that each
  can change it behind the other's back; the other user's id has leading zeros.
  `TriesMax` is 2 of 5: the loop would have one retry. `UintWidth` 8 and `ValueSize` 2
  keep the order of the code: what the server reads is shorter than what an unsigned
  integer holds, and that shorter than what the user can type; the bids typed are one
  that is too long for the server and one that wraps. Titles of 12 characters and a
  file of one byte too many are typed too.
* **`records`**: the shortest auction and the longest one there can be, values and names
  of one character and of the most their readers take; the real limits of the fields.
  The clock is read at 0, 1, 99998, 99999 and 100000 seconds, around both durations and
  the width of the field. `MaxShown` is 2 (50 in the code) of at most three bids. The
  bidder who hosts one of the two auctions may only bid on the other.
* Symmetry is over `Requests`, which the specification never tells apart; it is
  not used in `service`, whose properties include liveness, nor with temporal
  properties other than safety ones.

`CHECK_DEADLOCK FALSE` is set where the system may stop: in `processes`, when both
processes have ended; in `client`, when every command has been typed; in `market` and
`failures`, when the semaphore has been leaked and everybody waits. `service` checks
deadlock.

### Fairness

`AuctionServer`: weak fairness of `Serve(r)` for each request, no more. Each
request is served by an operating-system process of its own or by the UDP process,
and the scheduler runs every process that can run. Waiting for the semaphore is a
step that is enabled only while the semaphore is positive, so weak fairness does
*not* promise that a waiting process gets it; with finitely many requests each of
which ends, it does get it. Nothing is assumed about clients, the clock or
restarts. `ServerProcesses`: weak fairness of the parent's and the UDP process's
steps and of each child's; clients may stay silent for ever, calls need not fail,
and the read timeout of a child (`SO_RCVTIMEO`) does expire. No handler is assumed to
end: `Enter` and `UdpEnter` need a positive semaphore, and wait for ever for one that is
lost. That is why `ConnectionsEnd` and `DatagramsServed` name `Lost` among the cases they
leave out; they say that it is the only way to wait for ever. Nor is a child that waits
promised the semaphore before the UDP process, which may take it again and again for one
datagram after the other: `sem_post` wakes a waiter, but POSIX does not say that it gets
the semaphore before another `sem_wait`. Strong fairness would promise it; the property
states the case instead (`[]<>(udp = "inside")`). The UDP process is not starved by the
children, because a run has finitely many connections. `ClientSession`: weak
fairness of each client's own steps (`ClientStep`): its `select` returns after
`UDP_TIMEOUT` seconds, its `read` after `TCP_READ_TIMEOUT_SECONDS`, and `connect` and
`write` return. Nothing is assumed of the user, the network or the server, which may
never deliver or serve anything; `CommandsEnd` holds all the same.

### Refinement

`HouseSpec` says that `AuctionServer` implements `AuctionHouse`. An account exists
from the moment its password is written until the password file is removed; an
auction when its START file is written *and* `HOSTED` names it, the last thing
`Open` does (`Shown`); a bid and the end of an auction when their files are written.
Every step of a process is then one abstract step or a stutter, wherever processes
die and creations fail, and over restarts. An `Open` that dies or fails before
`RegisterHost` leaves an auction with a START file that no user hosts and that bids and
ends can still be made in, by the user who wanted to open it too. For `AuctionHouse`
there is no such auction, and what happens in it does not count: since its id is not
given again, nobody becomes its host later. What breaks the refinement is LST.

## 4. Disagreements between the code and what it says of itself

1. `unlocked_list`: `List` posts a semaphore it has not taken
   (`database.cpp:1561`, `1580`, `1605`). After one LST two processes are inside.
2. `leaking_bid`: a bid on an auction whose time is over throws past the
   `sem_post` (`database.cpp:1704`), a CLS of a closed auction too, since it looks
   for `END001.txt` (`database.cpp:1381`) and the exception of `Close` passes
   through. No request but LST is served after that.
3. `refused_bid`: `DB_BID_REFUSE`, "the bid isn't created successfully", is
   answered ACC (`handlers.cpp:577`).
4. `interrupt`: `README.md:52` announces a controlled close on SIGINT. `sig_int` is
   evaluated only when `accept` or `recvfrom` fails; a process that is anywhere
   else misses the signal.
5. `unknown_code`: `WrongRequestUDP` is registered as a TCP handler
   (`server.cpp:257`); an unknown UDP code dereferences the end of the map.
6. `late_answer`: `sendUdpMessageAndAwaitReply` "waits for the corresponding answer
   from the server" (`client.cpp:154`), but takes the first datagram of the right code
   (`protocol.cpp:66`). After a timeout the answer that was late answers the next
   command: a login with a wrong password succeeds in the client.

Four more things the models show, without a run of their own:

* A logout of a user who is already logged out is announced as `DB_LOGOUT_NOK`
  (`database.cpp:1166`) and is not answered at all (`LogoutStatus` is `"silent"`).
* The retry loop never retries. It sends again after a `ConnectionTimeoutException`
  (`client.cpp:173`); `await_udp_message` throws a `MessageReceiveException` when
  `select` times out (`protocol.cpp:1243`), after which the loop gives up. It is just as
  well: `AtMostOnce` rests on it, since no message says that it is a repetition, and the
  mutant that makes the loop work breaks it.
* `ChecksDiffer` lists, as an equivalence, the requests the client accepts and the
  server refuses: ids of users below 100000, which are sent without their zeros and read
  as six characters, so such a user can never log in; names of auctions of 11 to 24
  characters; bids of seven digits; files beyond 10 MB, which are not even answered.
* `exit` returns to the prompt when the server does not answer its logout
  (`commands.cpp:900`), and the handlers of LMA and LMB add a number to a string literal
  (`commands.cpp:341`, `398`), which the model lets end the process or not.

The exceptions of `ReadBack` and `BidsPrecedeEnd` are what goes wrong with records; no
comment denies it. An auction closed within a second of its opening has an end at
second 0, which `buildMessage` takes for no end (`protocol.cpp:738`): it is shown as active
for ever. `Bid` reads the clock again for the file (`database.cpp:1703`, `707`); if the
process was held up in between, a bid can have a time after that of the end, and, in an
auction of 99999 seconds, one of six digits. The client then stops reading without an error
(`protocol.cpp:789`) and shows neither the bids that follow nor the end.

Because of 1, `MutualExclusion`, `HouseSpec` and what rests on the lock are checked
with menus without LST; because of 2, `NoLeak` and `AllServed` are checked with
requests that do not leak.

## 5. Proofs

All proofs hold for every value of the constants that satisfies the assumptions
in the modules: any number of users, auctions, requests, clients, connections,
failures, crashes and signals, and any menu of well-formed requests. Every safety
invariant, every action property and the refinement that a passing run checks is a
theorem. TLC has checked each inductive invariant below on the runs' instances first,
`HouseInv` also on that of `market` with a creation that fails.

### What a theorem about `AuctionServer` assumes

What the server promises of its books it keeps as long as no LST runs; what it answers,
and that nothing is left half done, depends also on files that can be made and processes
that live, each for a reason in the code. A theorem names what it excludes:

| Assumption | Says | Without it |
|---|---|---|
| `NoListRequest` | no request of the menu is LST | `List` posts a semaphore it has not taken (`unlocked_list`) |
| `SoundDisk` | that, and `MaxFaults = 0` | the handler of CLS leaves its status uninitialised for `DB_CLOSE_NOK`, which can then be OK; a failed BID is answered ACC (`refused_bid`); a listing calls an auction ended whose END file could not be made |
| `Calm` | that, and `MaxCrashes = 0` | a file stays empty; an auction that `Open` did not live to write into `HOSTED` can be bid on by the user who opened it (`NoSelfBid`; nobody bids on an auction he is listed as the host of, `HostsNeverBid`, whatever fails) |
| `TimesGiven` | no OPA asks for a duration of 0 | such an OPA fails after its `mkdir`s and leaves the directory |

Properties that mention LST themselves (`BooksSurvive`, `LossesBounded`: "as long as
none has run") and those that do not rest on the lock need none of these.

| Theorem | Property | Assumes | Inductive invariant |
|---|---|---|---|
| `AuctionServer_types!TypeCorrect` | `TypeOK` | – | `TypeInv` |
| `AuctionServer_types!LockExcludes` | `MutualExclusion` | `NoListRequest` | `LockInv` |
| `AuctionServer_failures!LoginsHavePasswords` | `LoggedInHasPassword` | – | `AccountInv` |
| `AuctionServer_failures!BidsListed` | `BiddersListed` | – | `BidderInv` |
| `AuctionServer_failures!AuctionsOpenedOnce` | `OpenedOnce` | – | `OpenInv` |
| `AuctionServer_failures!BooksOutlive` | `BooksSurvive` | – | `BooksKept` |
| `AuctionServer_failures!BidsRise`, `EndedTakeNoBids`, `EndsStand` | `BidsIncrease`, `NoBidAfterEnd`, `EndIsFinal` | `NoListRequest` | `BooksKept` |
| `AuctionServer_failures!LossesAreBounded` | `LossesBounded` | – | `LossesKept` |
| `AuctionServer_house!HostsBidNowhere`, `EndsAreTimely`, `AcceptsRecorded` | `HostsNeverBid`, `EndsInTime`, and `AcceptedRecorded` of the result of `Bid` | `NoListRequest` | `HouseInv` |
| `AuctionServer_house!ServerImplementsHouse` | `HouseSpec` | `NoListRequest` | `HouseInv` |
| `AuctionServer_calm!ClosesEnd`, `ListingsTell` | `ClosedAuctionsEnded`, `ListingsTrue` | `SoundDisk` | `SoundInv` |
| `AuctionServer_calm!NobodyBidsOnOwn`, `AcceptedStand`, `NothingReadTorn` | `NoSelfBid`, `AcceptedBidsStand`, `NothingTorn` | `Calm` | `CalmInv` |
| `AuctionServer_calm!AuctionsComplete` | `AuctionsWhole` | `Calm`, `TimesGiven` | `CalmInv` |
| `AuctionServer_calm!ExceptionsLeakOnly` | `NoLeak`, until an exception | `Calm` | `LeakInv` |

### The argument for `AuctionServer`

* **Types and lock** (`AuctionServer_types`). `TypeOK` is not inductive: a step that uses
  `target[r]`, `cont[r]` or `stamp[r]` is well typed only because an earlier step of the
  same process has set it. `TypeInv` adds `LocalsOK`, which says at which labels they are
  set. `LockInv` adds to mutual exclusion that the semaphore is 0 or 1 and that it is 0
  while somebody is inside: a `sem_post` then happens only at 0. The lemmas
  `...StepLocal` say of every database function but `List` that it leaves the semaphore
  alone and stays in its critical section or leaves without a post.
* **Whatever fails** (`AuctionServer_failures`). `PlaceInv` says that a process is in a
  function of the request it serves. `StepFacts` is used by everything that follows: a
  step of `r` leaves the other processes alone (`Others`), says which actions write each
  file (`Writes`) and by which action each label and result comes about (`Comes`).
  `AccountInv` needs `UdpAlone`, that at most one UDP request is served at a time, because
  the lock is of no help to `Unregister`, which gives it up between its parts. `OpenInv`
  says that a request that is past its `mkdir` owns its id (`Owns`) and how far it has got
  with the auction (`Builds`): the `mkdir`, not the lock, makes ids unique.
* **Bids and ends** (`AuctionServer_failures`). `BookInv` says what a process in the middle of
  `Bid` or `CreateEndFile` still knows: its bid is the highest and there is no END file
  (`Bidding`), nobody else has made that file (`Ending`). It survives because no other
  process inside means no other writer (`AloneInside`). `LockKept` in front of it, no LST
  among the requests so far, can only become false, which is how theorems without an
  assumption follow (`LockWasKept`). `LossInv` counts: the files without contents are at
  most the deaths and the processes that are about to write one (`Writers`, of whom the
  lock admits one).
* **Half-done requests** (`AuctionServer_house`). `HouseInv` says what the steps that users
  can see rely on, although whoever went before may have died or failed anywhere: a
  password file has a directory, and LIN finds none when it makes one (`PassInv`); who has
  an auction in `HOSTED` is the host its START file names (`HostsTrue`), and that file was
  not written in the future (`StartsTimely`); `Open` works on the last of all
  auctions, which has no bid and no end (`Opening`), so that the auction it registers at
  last is a new one for `AuctionHouse` too; the bidder is logged in and does not host
  (`Bidder`), a bid that `Bid` has returned `ACCEPT` for is there (`Recorded`), and the
  stamp on its way into an END file is no more than the duration and the time that has
  passed, and it is the duration unless the host is logged in (`Ends`).
  None of these is inductive alone: `HostsNeverBid` rests on `Bidder`, on `Opening` for
  the moment `RegisterHost` shows an auction, and on the lock, which keeps an auction from
  being registered between a bidder's check and his file.
* **Refinement** (`AuctionServer_house`). `HouseStep` shows that each step of a process is a
  step of `AuctionHouse` or leaves the mapped state alone. `SeenAt` disposes of the actions
  that no user can see, and `ShownAt` says that no step but `RegisterHost` shows an auction
  and none hides one; `AccountSteps`, `OpenStep`, `BidStep` and `CloseStep` give the abstract
  step of the others: registering and unregistering happen with the password file, opening
  with `HOSTED`, bidding and closing with the write of the file, if the auction is shown.
  The guards of the abstract steps are what `HouseInv` knows at these labels. Deaths,
  restarts and failed creations change no file.
* **While nothing fails** (`AuctionServer_calm`). `SoundInv` follows a CLS and a listing to
  their answers: `Lists` says that what has been listed so far is what the END files say of
  the entries visited, although the listing itself makes END files (`ToldMore`). `CalmInv`
  says what else holds when nobody dies either: users have all directories or none but for
  the one who is being made (`DirInv`), auctions are whole or being made (`Settled`), empty
  files have a writer (`FilesWritten`), and no answer says more than was done (`Answered`).
* **The lost semaphore.** `NoLeak` is not true of the code (`leaking_bid`), so the theorem
  says how far it is: until a request ends with `AuctionAlreadyClosed` in BID or CLS or with
  the exception of a directory that is not there in LMA or LMB (`Breaks`), nobody waits for a
  semaphore that nobody holds. `EscapeBreaks` looks at every way out of a critical section.

### The other theorems

* `ServerProcesses_proofs`: `TypeCorrect`, `NoDescriptorLeaks`
  (`[]DescriptorsAccounted`) and `StopsOnlyForAReason` (`[]StopsForAReason`), from one
  inductive invariant `IInv`. It adds that a connection is in the queue once and
  without a descriptor (`QueueInv`), so that `accept` adds a new one; that the parent
  has a connection in hand exactly between `accept` and the end of
  `wait_for_tcp_message` (`HandInv`); and that `ex_trial` counts failed calls since the
  last `fork`, a call that has failed and is yet to be counted included (`TrialsInv`).
  Between `fork` and its reset `ex_trial` is too large; that it is still below the limit
  then is why the server goes on. `OtherSteps` shows that clients, children and the UDP
  process do not interfere, `SemSteps` that the semaphore keeps its range.
* `ClientSession_proofs`, for any number of clients, users and commands: `TypeCorrect`,
  `SocketsAccounted` (`[]SocketsClosed`), `SentOnce` (`[]AtMostOnce`), `AnswersMatch`
  (`[]AnswersCorrespond`), `SessionsAgree` (`[]SessionTrue`), `StraysBounded`
  (`[]StrayAnswers`), `RequestsMean` (`[]MeaningKept`) and `ChecksDisagree`
  (`[]ChecksDiffer`). `TypeInv` adds to
  `TypeOK` that a client in a TCP exchange has typed a TCP command, without which the
  message it writes is not typed. `TurnsInv` says that turns are numbered upwards and that
  no two requests share one. `SessionInv` adds two facts for each client that has not
  given up a command. `Exchange`: at most one UDP message of it is anywhere, a request, an
  answer or a datagram in the socket, it belongs to the command that waits, and the
  request is what that command sends. `Session`: before the server has executed the
  command the session agrees with the accounts (`Agrees`); after that it will agree once
  the answer is read (`UserAfter`, `PasswordAfter`). `SessionTrue` by itself is not
  inductive, because between the two the client and the server disagree. `ElsewhereKeeps`
  disposes of the steps that do not concern a client, those of other clients included: what
  they change is no longer this client's doing (`author`). `StraysInv` is for the clients
  that have given up commands: each command has at most one UDP message in at most one
  place (`OneEach`), and those that nobody waits for are no more than the commands given
  up; the step that needs care is the client that takes a stray for its answer and leaves
  its own behind (`UdpStrays`). `WordsInv` says that what is on the network was verified by
  a client and is what `MessageOut` made of it.
* `Messages_proofs` has the arithmetic: `DigitsOf` (a number has at most `d` digits if and
  only if it is below `10^d`), `UintOf`, `readWhole` (a reader that stops at its limit has
  read a shorter word whole), `FieldsReadable` (what each reader demands of the text that
  `buildMessage` writes), `ReadOrNot` and `MeaningOf` (how `readMessage` ends, and
  what it has read, for every verified command). They hold for any width of an unsigned
  integer; the assumptions that the width is a natural number whose power of two is
  positive (the provers know no general power) and that values have 1 to 9 digits are true
  of 32 and 6.
* `Records_proofs`, for any offers, bids, clock and limit of the list: `TypeCorrect`,
  `BidsBeforeEnd` (`[]BidsPrecedeEnd`), `RecordsNewest` (`[]RecordNewest`),
  `RecordsReadBack` (`[]ReadBack`) and `ShownClosedForGood` (`ClosedForGood`).
  `Stamped` says that no file has a stamp the clock has not reached;
  `ClosePreserves` is stated for `Close` because three requests call it. `PlacedInv` says
  that the bids, in the order they were accepted, rise, are the files in `BIDS` and are the
  only ordered list of them (`PlacedGrows` adds a bid), so that sorting a directory in any
  order gives that order (`SortedPlaced`). `RecordRead` is `readMessage` on the client for
  every record the server can send. `ScreenInv` says that a record with an end is the
  record of the files as they are (`RecordOfFiles`), which a file cannot leave any more.
  `Sorted` is the choice of an ordered list, as the library's `SortSeq` means, because
  `SortSeq` cannot be expanded in a proof.

Model-checked only: liveness, `AllServed`, `ConnectionsEnd`, `DatagramsServed` and
`CommandsEnd`, since fairness and `ENABLED` are outside what the proof system does. The six
properties of the runs that expect a violation are false and stay with TLC too.


## 6. Not modelled

* The layout of what is printed; the order of the listings; verbose mode.
* The start-up of the server (`configServer`, `CreateBaseDir`'s own failures): it
  runs once, before there is a second process.
* In `AuctionServer`, a SIGINT that interrupts `sem_wait`: the request ends without an
  answer, and without having touched a file unless it is a UNR between two of its parts,
  which leaves what the death of the process does there. That the process goes on, or the
  child exits, is `Interrupt` of `ServerProcesses`.
* The descriptors `CheckUserLoggedIn` never closes; children of an old server that
  keep an unlinked semaphore (see the plan).
* The entries of the lists that answer LMA, LMB and LST, which are pairs of fixed length,
  and the asset that answers SAS.
* Of the client: `help`; `readline` at the end of the input, which returns NULL; its
  set-up; the file `ShowAsset` saves. Passwords and the letters of names, which both ends
  check with the same functions.

## 7. Plan

1. A theorem still worth having: an abstract account server that `ClientSession`
   implements for a client whose commands have all been answered.
2. Extensions of `AuctionServer`: a second server over the same directory with a
   semaphore of its own (children that outlive a restart); file descriptors of the
   UDP process as a bounded resource, and the accounts that look logged out when they
   run out.
3. The contents of the other answers: lists and assets as they are built and read.
