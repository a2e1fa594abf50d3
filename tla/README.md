# A verification of the multiparty sessions of this repository

The repository runs additive-secret-sharing computations between processes that
talk over ZeroMQ.  These modules model its session protocol, the transport under
it, the arithmetic above it, the older operations that need no secret holder, the REQ/REP
transport, and the asynchronous messaging with its wire format and its example program; TLC
checks them on small instances and TLAPS proves the safety of all of them but the example program for
every number of parties: session, shared values, legacy operations, both transports and the messaging, which is
shown to be a mailbox, and the wire format.

Source paths below are relative to `src/ZeroMQ/src/` unless they start elsewhere.
The model is of the configuration that is committed: `ENABLE_UNIT_TESTS`,
`ENABLE_FINAL_RESULT` and `ENABLE_MALICIOUS_SECURITY` defined, mode `dealerrouter`,
processes started by `run_parties.sh`.

## 1. The system

| component | state | operations | interacts with |
|---|---|---|---|
| **Party** (`Party.cpp`, `main.cpp`) | secret holder: where it is in `init`, the replies collected; computing party: `m_receivedShares`, `myTriple`, `m_z_i` (null, product, freed), `m_running` | `init`, `runEventLoop`, `handleMessage` and its six branches, `receiveBeaverTriple`, `doMultiplicationDemo`, `distributeBeaverTriple` | the transport, by `sendTo`, `receive`, `dealerReceive`, `reply` |
| **NetIOMPDealerRouter** | one ROUTER socket, one DEALER socket per other party, `m_lastRoutingId` | `init`, `initDealers`, `sendTo`, `receive` (300 ms timeout), `dealerReceive` (no timeout), three `reply`, `close` | ZeroMQ; the same class in the other processes |
| **AdditiveSecretSharing** | none (a prime) | `generateShares`, `generateMacShares`, `reconstructSecret`, `addShares`, `multiplyShares` | called by Party |
| **NetIOMPReqRep** | one REP socket, one REQ socket per other party, each in lock step | `sendTo` with five tries, `sendToAll`, `receive`, `reply`, `close` | ZeroMQ; the same class in the other processes |
| **NetIOMPFactory**, **INetIOMP** | none | choice of one of the two | `main` |
| **ZMQMPCCommunication** | sockets, receiver thread, queue with mutex and condition variable, handlers, counters, `isReady_`, `isRunning_` | `initialize`, `shutdown`, `send`, `broadcast`, `multicast`, `receive`, the receiver loop | `mpc_communication_example.cpp`, its test |
| **Message**, **MessageBuilder** | a byte buffer | `serialize`, `deserialize`, `add...`, `build` | ZMQMPCCommunication |
| **legacy operations of Party** (`Party.cpp` 380-666) | counters of messages, partial sums | sums without a secret holder, distribution of shares, two synchronisation helpers | the transport; nobody calls them |
| **not in any build** | | `NetIOMP.cpp`, `src/src/test`, tutorial, `ArithmeticSecretSharingMPC` | |

### A session

The secret holder (process N+1, "the dealer") runs a straight line of loops over the
parties 1..N; each loop sends one message to each party or receives one from each:

    shares    CMD_SEND_SHARES, shares           -> CMD_SUCCESS
    sum       CMD_ADDITION                      -> sum|mac
    product   CMD_MULTIPLICATION, triple        -> CMD_SUCCESS, CMD_SUCCESS
    fetch     CMD_FETCH_MULT_SHARE              -> CMD_SUCCESS, z, mac, sigma
    shutdown  CMD_SHUTDOWN

A computing party waits in `runEventLoop`; `handleMessage` itself receives the shares,
the triple and, in `doMultiplicationDemo`, the openings `d_j|e_j` of its N-1 peers.

### What is hard about it

* Messages carry no header: what a message is depends on which `receive` takes it.
  Connections are FIFO, but nothing orders two connections, so a peer's opening
  can overtake the secret holder's triple.
* Everything a party receives comes through one ROUTER socket; `receive` changes
  `m_lastRoutingId`, which the next `reply` uses.
* `receive` times out after 300 ms and the handlers read that as an error;
  `dealerReceive` never times out.
* All sockets close with linger 0: what has not left the process is discarded.
* Exceptions end the process (caught in `main`), null or freed BIGNUMs abort it.
* Two answers of the product round are the same byte.

What makes the components correct: the secret holder's counting tells replies apart;
commands find the data they need; the product is computed from the opening of each peer
exactly once; no share of the product leaves a party before every party has finished
the opening; what a party sends before it exits is received; sums, products and MACs
reconstruct to the right values, and N-1 shares say nothing about the secret.

### The asynchronous messaging

`ZMQMPCCommunication` is a second transport, used by the example program and not by
`Party`.  It has threads: a receiver thread polls the ROUTER socket every 100 ms and passes each
message to the message handler, if one is set, or puts it into a queue under `queueMutex_` and
notifies one waiter; `receive` waits on the condition variable with a deadline; `shutdown` clears
`isRunning_`, notifies, joins the thread and closes the sockets.  What is hard here is between
threads: which of several callers a notification wakes and who takes the message first, a deadline
against a message, `shutdown` against the receiver thread and against a caller about to
wait, a flag that is tested without the mutex.  It is correct when each sender's messages come
out once each and in order, nobody sleeps on a message, `receive` and `shutdown` return, and nothing
happens after them.  `setMessageHandler` takes no lock either and may be called while the receiver
thread runs (the test `AsynchronousMessageHandler` does).

`Message` and `MessageBuilder` are the bytes of this messaging: a type, a length in four bytes, a
payload of fields without any description.  Hard are the 32-bit sum that checks the length, and
that one builder builds one message after the other.  It is correct when a message survives the wire, a cut one
is refused, and a reader that knows the fields reads what was added.

### The REQ/REP transport and the legacy operations

`NetIOMPReqRep` is the transport of mode `reqrep`.  ZeroMQ forces a REQ socket to alternate between `send`
and `recv`; `sendTo` does both in one call, catches failures, and tries again.  Hard are a retry in
the middle of an exchange, a reply that is late for a call that has thrown, a `receive` that throws when
it has the request already, a peer that closes, and
`recv` without a timeout, which makes parties wait for each other.  It is correct when a
REQ socket never has two exchanges under way, no call takes the reply of another, and
`sendTo` ends unless parties send in a circle or the other side has stopped answering.

The legacy operations let all parties do the same, without a secret holder: send a message
to each peer, and receive until N - 1 are counted.  None looks at who sent a message, and only the
synchronisations look at what it is; operations that follow each other use the same
connections.  They are correct when each counts what it is meant to count and returns.

## 2. Modules

| module | what it is |
|---|---|
| `DealerRouter` | the transport: connections as sequences per direction, `m_lastRoutingId`, closing with linger 0 |
| `PartyProtocol` | the session: the secret holder's program, the event loop with one action per branch of `handleMessage`, timeouts, deaths; its properties |
| `RoundBarrier` | abstract specification: rounds opened by a coordinator after every participant has done the one before |
| `PartyProtocolProofs` | the inductive invariant of the session and the proofs |
| `PartyBarrierProofs` | the proof that the session implements `RoundBarrier` |
| `AdditiveSharing` | the values: shares, MACs, Beaver triple, openings, product, shares of zero, the assertions |
| `AdditiveSharingProofs` | arithmetic modulo Q, sums over all parties, the inductive invariant of the values and the proofs |
| `MCAdditiveSharing` | the instance of `AdditiveSharing` for TLC |
| `MPCCommunication` | the messaging of `ZMQMPCCommunication.cpp`: owner, receiver thread and callers of `receive` |
| `Mailbox` | abstract specification: one FIFO channel from every party to every other |
| `MPCCommunicationProofs` | the inductive invariant of the messaging, the proofs, and the proof that it implements `Mailbox` |
| `MPCExample` | the example program, composed with `MPCCommunication` |
| `LateHandler` | `MPCCommunication` with a handler that is set while the receiver thread runs |
| `LateHandlerProofs` | where each message is while that happens, as an inductive invariant, and the proofs |
| `MCMPCCommunication`, `MCMPCExample`, `MCLateHandler` | their instances for TLC |
| `MessageCodec`, `MCMessageCodec` | serialize, deserialize, the builder and the readers of fields; the instance |
| `MessageCodecProofs` | the proofs about the wire format and the fields of a message |
| `LegacyParty` | the legacy operations as sequences of loops over `DealerRouter`, in six flows |
| `LegacyPartyProofs` | what each connection has brought and each loop counted, as an inductive invariant, and the proofs |
| `ReqRep`, `MCReqRep` | the REQ/REP transport; its instances |
| `ReqRepProofs` | its inductive invariant and the proofs |

**DealerRouter.** `toRouter[s][p]` and `toDealer[p][s]` are the two directions of the
connection between the DEALER socket of `s` and the ROUTER socket of `p`.  A message is
its kind.  `sendTo` and `reply` append and never block (the high-water mark of 1000
messages is far from any session of this program); `receive` takes the head of any
non-empty connection and sets `lastRoutingId`; `AfterClose` keeps any prefix of each
connection of the closing process, which is what linger 0 allows.  The model starts when
all sockets are connected: `run_parties.sh` starts the parties one second apart and the
secret holder last, and `main` sleeps two more seconds.

**PartyProtocol.** `dealer` is the secret holder's place in `Program` and in that step's
loop over 1..N.  `pc[p]` is the `receive` call a party waits in: `loop` (`runEventLoop`),
`shares`, `triple`, `open`.  An action is what the code does from one `receive` to the
next.  This is the grain at which processes can interleave: a handler between two
receives only computes, sends and replies, and sends and replies do not block; what
another process sees of it are messages, in order per connection.  `FinishProduct` is an
action of its own because the loop of `doMultiplicationDemo` ends without a receive
(for N = 1 it never has one).  `Die` is an uncaught exception or an abort.
The commands and the kinds of payload are what the model tells apart; a payload in
`handleMessage` is a `memcpy` of its length over one byte, undefined behaviour with two
outcomes here (dropped as unknown, since its first byte is a hexadecimal digit and so no
command, or an abort).  `added[p]` has no counterpart in the code: it remembers whose
openings are in D and E, which the code does not know.

`Prompt` chooses when the 300 ms timeout may fire: at any moment (`FALSE`), the most
general case, which the passing run and the proofs cover; or only when no process can do anything
else (`TRUE`), the assumption that messages arrive well within 300 ms, under which the two refuted
promises are examined, so that no timeout is to blame.

**AdditiveSharing.** One step per round, all parties at once; `PartyProtocol` shows that
rounds do not overlap (`ImplementsBarrier`) and that each opening is added once
(`OpeningComplete`), so a round's values depend on nothing else.  `MultiplyShares`, which nobody calls, is
stated of the whole values, where it is right (see section 4 for shares).  The MAC key is 2, which
`ENABLE_UNIT_TESTS` sets; the two secrets are `m_localValue` and its successor.  Strings and
hexadecimal are left out: `serializeShare` and `deserializeShare` are inverse on residues.  The loop that adds up shares
is a recursive function, `PartialSums`, whose value after k shares is the code's running total.

**MPCCommunication.** `owner[p]` is how far `initialize` and `shutdown` have come and stands for
both flags: `isRunning_` is set while it is `starting` or `up`, `isReady_` while it is `up`,
`stopping` or `joining`.  `receiver[p]` is the point of the receiver thread (test of the flag,
`recv`, message in hand), `caller[p][c]` that of a thread in `receive`.  A step is what a thread does
between two points at which another can see it: a test of an atomic flag, a call of ZeroMQ, a
section under the mutex, a wait.  `wait_for` with its predicate is four of them: `Examine` (the
predicate under the mutex, at first and after each wake-up), `Block` (the wait begins and the
mutex is released), `WakeSpuriously` or `TimeOut` (the wait ends), `GiveUp` (the last test after
the deadline).  `Examine` and `Block` are separate because `shutdown` does not take the mutex: its
`notify_all` can fall between them and is then missed, which the model has.  `wire[s][p]` is
what the DEALER socket of s has taken for p; `Close` keeps any prefix of each, as linger 0 allows.
`delivered` has no counterpart in the code: it records what handler and callers were given.  The
handler is set before `initialize` or never; `LateHandler` is about the other case.

**LateHandler.** `MPCCommunication` and three variables: whether the assignment of
`messageHandler_` is under way, what the test of it has shown for the message in hand, and which
messages were taken before it was set.  The assignment and the two readings (test and call) are a data
race: during it, a test may come out either way, and a call may be one of a function that
is not whole, which ends the process (`CallHalfAHandler`).

**Mailbox.** A channel is what a party has sent and the other has not been given, wherever
it is: in the queue, in the hands of the receiver thread, in the sockets (`UnderWay`).  The
refinement mapping forgets all threads.  `FromSender` picks the messages of one sender out of a queue that holds those of all.

**MPCExample.** `phase` is where each `main` is; the loops of `send` and of `receive` are steps
of the messaging, conjoined with the program's own variables.  One thread is owner and caller.
The two sleeps of `main` are left out: they order nothing.  Messages are their types.

**MessageCodec.** A byte is a digit to the base `Radix`, so that a small base makes 2^32 small (16 for
base 2) and every sum of 32-bit numbers wraps where TLC can see it; the proofs hold for 256.  `Undefined`
is the read behind the buffer that `deserialize` would do if its check passed wrongly.  `added` and
`builtBy` have no counterpart: they remember the calls a message was built by.

**LegacyParty.** An operation is a sequence of loops, each of N - 1 iterations that send, add up or wait;
a flow is a sequence of operations, and `loop[p]`, `i[p]` say where a party is; `size` is the number of parties the
program was started with, `m_totalParties`.  A receive may time out whenever no message is there.  What is added up is a bag
of parts (share j of the value of i), which says exactly whether a sum of random shares is right; a number that is
nobody's input is the part `<<p, 0>>`.  `late` is what a loop does with a receive that has timed out:
call again, throw, or count.  `DONE...` read as a number is the hexadecimal digit D.

**ReqRep.** A step is one exchange of a process with ZeroMQ.  `waiting[p]` are the REQ sockets between request
and reply, `serving[p]` the request the REP socket has to answer.  `Interrupt` and `ReceiveThrows` are
a call of ZeroMQ that fails from outside (EINTR): before the first frame of a send, or in `recv`; the second frame of
a message never blocks.  `SendRefused` is EFSM.  `TakeRequest` takes a request out of the REP socket, which then owes a reply (`Owes`); `receive` returns it (`ReceiveRequest`) or, when the
message is longer than its buffer, throws (`ReceiveTooLong`).  A REP socket that owes a reply refuses every further
`receive` (`ReceiveRefused`, EFSM), until a caller that has caught the exception calls `reply` after all: `Reply` is enabled whenever a
reply is owed.  `Cramped` are the parties whose buffers may be too small.
`Close` discards any of the requests and replies under way, and a reply owed.  The numbers of messages have no counterpart: they tell which call a reply is for.

## 3. What TLC checks

| run | instance | states | properties |
|---|---|---|---|
| `session` | N = 3, timeouts at any moment, fairness | 67 837 | `IInv`, `RepliesAligned`, `RepliesOnlyToDealer`, `OpeningComplete`, `DealerQuietWhileOpening`, `CommandFindsItsData`, `RevealAfterAllOpened`, `ExitLosesNothing`, `ImplementsBarrier`, `CompletesOrDies` |
| `shared_values` | N = 3, Q = 5 | 73 825 | `SharingInv`, `ResultsAreRight`, `AssertionsHold`, `Authenticated`, `SharesHideSecret` |
| `messaging_safety` | two parties, two callers, 2 and 1 messages | 333 784 | `NobodySleepsOnAMessage`, `CommInv`, `QuietAfterShutdown`, `ImplementsMailbox` |
| `messaging_progress` | two parties, one caller, 2 messages, fairness | 9 402 | `ShutdownReturns`, `SentIsDelivered`, `ReceiveReturns` |
| `late_handler` | three parties, two send 2 and 1 messages to whom they like, one caller, a late handler | 255 987 | `LateInv`, `EachMessageOnce`, `LaterOnesAreHandled`, `OnlyEarlyOvertaken` |
| `legacy` | N = 2 and N = 3, six flows, timeouts at any moment, fairness | 39 030 | `TypeOK`, `DistributionIsExact`, `FinishedSumIsRight`, `FinishedAfterAll`, `SyncIsBarrier`, `EveryCallReturns` |
| `reqrep` | N = 3, 2 messages each, 1 failure, 2 tries, one may close, all may throw with the request taken, fairness | 249 590 | `ReqRepInv`, `LockStep`, `AnswerIsForThisCall`, `OnlyFailuresFail`, `SendReturns` |
| `message_codec` | base 2, payloads up to 15 bytes, two messages | 986 310 | `RoundTrip`, `CutIsRefused`, `FieldsReadBack` |
| `two_parties_complete` | N = 2, `Prompt`, fairness | 161 | `SessionCompletes` is violated |
| `all_parties_finish` | N = 2, `Prompt`, fairness | 161 | `AllPartiesFinish` is violated |
| `example_reconstructs` | two parties, fairness | | `AllPartiesReconstruct` is violated |
| `reqrep_retry` | N = 3, 1 failure, 5 tries | | `RetriesGetThrough` is violated |

`IInv`, `SharingInv`, `CommInv`, `LateInv` and `ReqRepInv` are the inductive invariants of the proofs, with the type invariants among their conjuncts.
The inductive invariants of the wire format (`CodecInv`) and of the legacy operations (`LegacyInv`) quantify over sets
TLC does not enumerate and are proved only; so is the type invariant of the wire format, a conjunct of `CodecInv`.

Deadlock is not checked: a session ends, and one whose party has died stops; so do the messaging and the
transports when their parties have closed or the bounds on messages are reached, and the builder at its last message.

**Bounds.** A session is finite, so N is the only bound of the session runs.  Three
parties are the least number at which a party has two peers: its openings can come in
either order, one peer can be in the opening while another has finished or died, and a
reply could go to the wrong one of two peers.  The proofs cover every N.  For the values,
Q = 5 is the least prime at which 2 (the key), -1 and 1 differ and products of differences are
not all 0 or 1; three parties separate the first, a middle and the last share, and party 1 from
the others.  Each `generateShares` takes one of two sequences of draws, which differ in
both coordinates; all eleven sharings of a session choose independently.

For the messaging, two callers are the least number at which a notification can wake one and the
other take the message, and two messages the least at which order, duplication and a second
notification matter; a message in the other direction lets both receiver threads run
at once, and both kinds of party (with handler and without) are initial states.
`Budget` is the bound on messages; the example program needs none.  Liveness is checked with one caller, and
with a handler at the party that only sends (`SenderHasHandler`): it is sent nothing, so its handler is never looked at.

`late_handler` has three messages: one that is queued, one under way in the receiver thread, and one that comes after
the handler is set.  Two senders mix theirs in one socket and one queue; they start one after the other, have a handler and
stay up (`SendersOnlySend`), which `messaging_safety` does not assume.

A legacy flow is finite, and the number of parties is its only bound: between two there is one connection per direction,
among three messages of two peers mix, which is where the two differ.  For REQ/REP, `MaxCalls`,
`MaxInterrupts` and `MaxRetries` (5 in the code) are bounds: with two tries and one failure a call can throw, and another call
can then find the same socket still waiting; party 1 sends to both others, 2 to 3 and 3 to 1, so that there are chains and
cycles of two and of three; every party may throw with a request taken (`Cramped`), so that the one waited for, the one in the middle of a chain
and one on a circle can be stuck; the proofs cover all values.  Of the wire format, payloads reach 15 = 2^32 - 1 bytes for base 2,
past the 11 at which 5 + size wraps; two messages are the least number for a builder to be used again.

**Fairness.** `FairSpec` assumes weak fairness of each process's steps: every process
is an operating-system process of its own, and it blocks only in its next receive, which
is enabled once a message is there.  A timeout counts as a step of the waiting process, and may come before any message:
a party that gives up its shares leaves the secret holder waiting, which `CompletesOrDies` names as one of the ways a
session ends.  Nothing is assumed of the order in which a party
takes messages of different peers, nor that a discarded message is sent again.

For the messaging, every thread is scheduled (weak fairness).  Strong fairness is assumed of the
steps that take the mutex, since it is free again and again and threads that want it get it
in the end, and of `RouterReceive` per sender, since a ROUTER socket takes from its peers in
turn and the receiver thread polls again and again.  The owner finishes an `initialize` or a `shutdown` it has
begun but need not begin either, nor send.  A caller calls `receive` again and again, as the loops of the
example do.  No fairness is assumed of `TimeOut` and `WakeSpuriously`: `SentIsDelivered` therefore shows
that notifications suffice, and no message waits for a deadline.  The one thread of the example
is weakly fair as a whole, its deadlines included.  `ReceiveReturns` alone presumes that deadlines pass (`DeadlinesPass`,
strong fairness of `TimeOut`, since a spurious wake-up ends a wait without ending the deadline).

For the legacy flows each party is weakly fair as a whole: a timeout counts as its step where a message
has not come, which makes nothing come sooner.  For REQ/REP, a process starts and runs, and one that sends nothing serves
requests; nothing makes a party send, ZeroMQ fail, a socket close or a caller whose `receive` has thrown reply.  A party that never serves would block others
for good; every program of the repository that uses this transport would have to call `receive`.

`WaitsInVain` in `SendReturns` is what remains of a `recv` without a timeout: a party that waits in `sendTo`, directly or through others
that wait themselves, round a circle, for one that has closed, or for one whose `receive` has thrown with a request taken
(`Unresponsive`).  It names the caller: that two others are stuck excuses nobody else.

**Four properties the code does not have** (under `findings` in `PROJECT.json`):

1. `SessionCompletes` ("arbitrary number of parties (n >= 2)", `src/README.md:7`).  No
   barrier separates the triples from the openings: a fast party's `d|e` reaches a peer that still
   waits for its triple or for `CMD_MULTIPLICATION`; the first kills it, the second is dropped and
   missed later.  The secret holder then waits forever.
2. `AllPartiesFinish` ("Wait for all parties to finish", `run_parties.sh:74`).  The
   broadcast `CMD_SHUTDOWN` can be discarded by the linger 0 of the closing sockets.
3. `AllPartiesReconstruct` ("Phase 3: Reconstruction (all parties)",
   `examples/mpc_communication_example.cpp:201`).  The handler that `initialize` sets takes every
   message, and drops the shares; `collectSharesAndReconstruct` waits for them in `receive`
   forever.  Only party 1 distributes shares, so most would never be sent either.
4. `RetriesGetThrough` ("Automatic retry mechanism for failed connections", `src/README.md:101`).  After a failed `recv`
   the REQ socket refuses every further `send`.

What holds in spite of 1: a session that meets the race never computes a wrong product.
It stops (`CompletesOrDies`) with nobody's share given away (`RevealAfterAllOpened`).  In spite of 4, no retry duplicates a
message or mixes up replies (`LockStep`, `AnswerIsForThisCall`).

## 4. What the properties leave out

The conditions in some properties stand for behaviour the modules have and the comments of the code do not lead one to
expect:

* `receiveBeaverTriple` takes the next message of any sender (`Party.cpp:762-769`): the cause of 1 above.
* `FinishedSumIsRight` excludes the secret sums of three parties: `distributeSharesAndComputeMyPartial` counts messages, and the
  partial sum of a fast party can be counted as the missing share of a slow one (`Party.cpp:593-609`; the sums of the others are then wrong).  It excludes a number that
  is nobody's input as well: `receiveAllValuesAndComputeSum` counts a receive that has timed out, and adds an integer nothing has set
  (`Party.h:91-96`).
* `EveryCallReturns` excludes synchronisations of three parties: the `DONE_DISTRIBUTING` of a fast party can be counted as a
  share, and is then waited for forever (`Party.cpp:521-534, 596-609`).
* `DistributionIsExact` says nothing of `SyncedShares`: the synchronisation at the end of `distributeOwnShares` reads the
  shares of the others and drops them (`Party.cpp:449-480`), and with them gone `receiveShares` throws.
* `ReceiveReturns` needs the deadline: `shutdown` clears `isRunning_` and notifies without `queueMutex_`
  (`ZMQMPCCommunication.cpp:77-78`), and a caller that is between its test (170) and its wait misses the notification.
* In `ResultsAreRight`, `MultiplyShares` has whole values for arguments: of one party's shares (`AdditiveSecretSharing.h:65-68`)
  it gives neither their product nor a share of the product, as the differences are not summed over the parties.
* `SendReturns` excepts those who wait for a party whose `receive` has thrown with the request taken (`NetIOMPReqRep.cpp:127-134`): no reply
  is sent, later receives of that party fail with EFSM, and no line of the code tells the caller that it has to reply.
* `CutIsRefused` is said of frames whose 5 + size does not wrap: past the wrap the check of `deserialize` (`Message.cpp:44`) passes
  for a cut frame too, which `Undefined` stands for.
* In mode `reqrep` (`main.cpp:16`) the number of the secret holder, N + 1, is not in the map of the parties, and the constructor
  throws (`Start` in `ReqRep`): no session runs over that transport.

## 5. What is proved

`PartyProtocolProofs`, for every N >= 1, both values of `Prompt` and from no assumptions but
`NAssumption` and `PromptAssumption` (the run `session` shows the same properties for N = 3):

| theorem | states |
|---|---|
| `TypeCorrect` | `Spec => []TypeOK` |
| `Invariance` | `Spec => []IInv` |
| `AlignedReplies` | `Spec => []RepliesAligned` |
| `DealerIsReplied` | `Spec => []RepliesOnlyToDealer` |
| `CompleteOpenings` | `Spec => []OpeningComplete` |
| `QuietDealer` | `Spec => []DealerQuietWhileOpening` |
| `DataIsThere` | `Spec => []CommandFindsItsData` |
| `LateReveal` | `Spec => []RevealAfterAllOpened` |
| `ExitIsClean` | `Spec => ExitLosesNothing` |

None of the properties is inductive: each speaks of one or two places of a
session and needs to know how the session got there.  `IInv` says it all, pair by pair.
Seen from party p the secret holder has done the first `Progress(p)` of its fifteen steps, and
what can then be under way between the two (requests not received, replies not received, where p
is, whether it holds shares, its product) is one of a few lines: `After0` to `After15`.  `Peers`
says that a peer sends p at most one opening, not before the secret holder is past
`CMD_MULTIPLICATION` for everyone, and that p counts it at most once; `Opening` ties the loop
counter to the set of peers counted.  A broadcast step moves one party's `Progress` and
leaves all others' alone, so a proof about a step looks at one pair at a time.

The proof has three layers: what each call of the transport does to the channels; the `Session...`
lemmas, in which a session is six values and a step changes some of them; and one lemma per
action, which shows that it changes the six values of one party and disturbs no other pair.

`MPCCommunicationProofs`, for any finite sets of parties and of callers and any budget
(`CommAssumption`):

| theorem | states |
|---|---|
| `MessagingTypeCorrect` | `Spec => []TypeOK` |
| `MessagingInvariance` | `Spec => []CommInv` |
| `NoLostNotification` | `Spec => []NobodySleepsOnAMessage` |
| `ShutdownIsQuiet` | `Spec => QuietAfterShutdown` |
| `MessagingIsMailbox` | `Spec => ImplementsMailbox` |

`NobodySleepsOnAMessage` is not inductive: with two messages queued, one woken caller and one
asleep, the woken one takes a message and leaves the other asleep on the second.  What
excludes that state is a count, `Enough`: while anybody sleeps, at least as many callers have been
woken, and have not looked yet, as there are messages.  A message adds one to both sides (or
there is nobody to wake), a caller that takes one takes one off both or, coming fresh, off the
messages only, and a caller that finds nothing leaves a queue that is empty.  A caller
goes to sleep only on an empty queue, because it has held the mutex since it looked
(`Exclusive`).  The lemmas before the theorems say this about sets and their cardinalities.

`MessagingIsMailbox` maps the channel of s to p to what s has sent and p has not been given (`UnderWay`), in three pieces: in
the queue, in the hands of the thread, in the sockets.  Each step moves a message of one sender from the
front of one piece to the end of the piece before it, which changes no channel, or takes the first of
one channel, or ends one; a step about another sender's message leaves a channel alone.  What this needs of
`FromSender`, that it goes along with `\o`, `Append` and `Tail`, is proved by the least counterexample.  The
invariant is `CommInv` and that the queue of a party which has not been initialized is empty (`BoxInv`).

`LateHandlerProofs`, with any parties that set their handler late (`CommAssumption`, `LateAssumption`):

| theorem | states |
|---|---|
| `LateInvariance` | `LateSpec => []LateInv` |
| `LateTypeCorrect` | `LateSpec => []LateTypeOK` |
| `LateOnceEach` | `LateSpec => []EachMessageOnce` |
| `LaterNeverQueued` | `LateSpec => []LaterOnesAreHandled` |
| `OvertakingIsEarly` | `LateSpec => []OnlyEarlyOvertaken` |

What a party has been given depends on every place a message can be at before, so `LateInv` orders the places: of
one sender, what is given or queued was sent before what is in the thread's hands, and that before what is in the socket
(`OrderInv`); a message is at one party, and lost only when its sender closes (`WhereInv`).  A handler takes a message past the queue, which is
the only overtaking there is; it happens after the handler is set, and what is then in the queue is early (`HandlerInv`,
`OvertakingInv`).  The race shows in `route`: the test and the call are two steps, and `HandlerInv` says what a test made
during the assignment allows.

`PartyBarrierProofs` (with the assumptions of the session): `SessionIsBarrier`, `Spec => ImplementsBarrier`, the
refinement of `RoundBarrier` by the session.  The round of the program and the round a party has done are both functions
of what `IInv` lists (`SessionRound`); `IInv` therefore keeps every party within one round of the program
(`WithinARound`), a step of the secret holder opens a round only when that bound is tight, and a step of a party undoes
nothing it has done.

`ReqRepProofs`, for any number of parties, targets, closers, cramped buffers, calls, failures and tries (`ReqRepAssumption`):

| theorem | states |
|---|---|
| `TypeCorrect` | `Spec => []TypeOK` |
| `Invariance` | `Spec => []ReqRepInv` |
| `ExchangesInLockStep` | `Spec => []LockStep` |
| `RepliesMatch` | `Spec => []AnswerIsForThisCall` |
| `FailuresComeFromOutside` | `Spec => []OnlyFailuresFail` |

Its `ReqRepInv` adds two parts to `LockStep`: that a party in `sendTo` has a target and a party between receive and reply owes one (`CallOK`; the converse is false, a `receive`
may have thrown in between), and that every
stage of the exchange a call waits for, request, service or reply, carries the number of that call (`Fresh`).
`AnswerIsForThisCall` follows from `Fresh`, which is kept because a call that finds its socket waiting never gets
to wait for the reply: it is refused until it throws.

`MessageCodecProofs`, for a byte of any width and any fields (`CodecAssumption`):

| theorem | states |
|---|---|
| `TypeCorrect` | `Spec => []TypeOK` |
| `WireFormatInvertible` | `Spec => []RoundTrip` |
| `CutsAreNoticed` | `Spec => []CutIsRefused` |
| `BuilderInvariance` | `Spec => []CodecInv` |
| `ReadersGetTheFields` | `Spec => []FieldsReadBack` |

The lemmas under them say that the four digits of a number give it back (`WordRead`), from division with remainder, and that
`deserialize` of `serialize` is the message for every length below 2^32, by two cases: 5 + size wraps or does not.

`FieldsReadBack` is about offsets the reader adds up, a recursive function.  `CodecInv` does without it: there is *some* function
`starts` such that the encoding of each field stands in the buffer behind its start and the next starts where it ends (`Laid`),
and adding a field extends that function by one.  That the reader's offsets exist and are `starts` follows by the least
number at which they differ (`OffsetsAreStarts`).  A string is read back because the whole payload is shorter than 2^32, so that
its length is.

`AdditiveSharingProofs`, for any number of parties, any modulus above 2 (it need not be prime), all values and all draws (`SharingAssumption`):

| theorem | states |
|---|---|
| `GeneratedSharesAddUp` | `generateShares` of a secret is a sharing of it |
| `Invariance` | `Spec => []SharingInv` |
| `TypeCorrect` | `Spec => []TypeOK` |
| `NoAbort` | `Spec => []AssertionsHold` |
| `MacsAreRight` | `Spec => []Authenticated` |
| `SessionComputes` | `Spec => []ResultsAreRight` |
| `SharesHide` | `Spec => []SharesHideSecret` |

`AddShares` is a loop that reduces at every share.  `SumByTotals` says once what it adds up to: totals that are right modulo Q at every share give
the sum, by the least share at which they are not; from it follow that the sum of a linear combination of sharings is the combination of
their sums (`SumLinear`), and of four (`SumFour`), which is one party's share of the product.  Beaver's formula is then an identity
between six sums.  `SharingInv` is that every sharing of the state adds up to what it stands for: secrets, triple, product, MACs, key, results.
No assertion fails because each compares two such sums.

`LegacyPartyProofs`, for any number of parties and any flows (`NAssumption`, `LegacyAssumption`):

| theorem | states |
|---|---|
| `LegacyInvariance` | `Spec => []LegacyInv` |
| `LegacyTypeCorrect` | `Spec => []TypeOK` |
| `SyncOrdersOperations` | `Spec => []SyncIsBarrier` |
| `SumEndsTogether` | `Spec => []FinishedAfterAll` |
| `SharesArriveOnce` | `Spec => []DistributionIsExact` |
| `SumsAreRight` | `Spec => []FinishedSumIsRight` |

A party counts messages and does not look at who has sent them; the properties say who has.  What a party has sent to another
is a function of the loop it is in (`SentLoops`), what waits on the connection is the end of that, in the order of the
loops (`Connected`), and the rest has come (`Got`).  Each receiving loop has counted what has come (`CountInv`): a
synchronisation no more than has come of its kind, the two receiving loops of the secret sum together as much as has
come of both kinds, and in the flows that take turns each loop exactly what has come of the loop before it.  One message
of a loop comes from each peer, so that N - 1 of them are one of every peer, and 2 (N - 1) of two loops are all there are.
`HeldInv` and `ContentInv` say which parts these messages have brought.

Left to TLC: liveness (`CompletesOrDies`, `ShutdownReturns`, `SentIsDelivered`, `ReceiveReturns`, `EveryCallReturns`,
`SendReturns`) and the four violations.  The proof system has no rule for fairness that its provers can apply; what
liveness rests on for every instance are the safety theorems, `NoLostNotification` above all.
Every other property of a passing run is a theorem.

## 6. Not modelled

* The binding and connecting of sockets, and processes that start in another order than the scripts': the
  models start connected.  The scripts and a sleep in `main` are all that orders it, and what ZeroMQ does with an early message
  is its own.
* Errors of ZeroMQ in the DEALER/ROUTER transport and in the messaging, an `initialize` that throws half way
  (`ZMQMPCCommunication.cpp:35`) and a second `initialize` after it or after `shutdown`: which call fails, and what it leaves, is ZeroMQ's.
* A handler that sends while `initialize` has not set `isReady_` yet (`ZMQMPCCommunication.cpp:58`): the state is in the
  model, but no handler of the repository sends.
* Messages that do not deserialize on their way through the messaging and identities that are no numbers
  (`ZMQMPCCommunication.cpp:249-257, 269-275`: both are dropped with an error): every message of a program comes from `send`, which serializes it, on a
  socket whose identity `createIdentity` has made.  And its statistics, which nothing acts on.
* The two replies with a routing id that nobody calls: of `NetIOMPDealerRouter` with an id of unchecked size, of
  `NetIOMPReqRep` with two frames (`NetIOMPReqRep.cpp:153-161`; its REQ socket would read the first and stay between
  request and reply).
* A sender id of a wrong size in `NetIOMPReqRep::receive` (124-126), which no `sendTo` makes; it would end the `receive` as
  `ReceiveTooLong` does.
* `NetIOMPFactory` and `INetIOMP` (no state), `secureMultiplyShares` (empty), files in no build (`NetIOMP.cpp`,
  `src/src/test`, tutorial, `ArithmeticSecretSharingMPC`), installers.
* The memory of BIGNUMs except `m_z_i`, and the wording of logs.
