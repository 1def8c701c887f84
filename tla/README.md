# libdeadcom: TLA+ models and proofs

libdeadcom connects a controller with a card reader over a byte link. This project
models the link layer, dcl2, from the octets on the wire up to the calls of the
application, its two integrations (pthreads and Python), and the codec of the
protocol above it, dcrcp; checks them with TLC; and proves what matters most about
them with TLAPS. Paths below are relative to `src/`.

## 1. The system

| component | code | state | operations |
|---|---|---|---|
| link state machine | `dcl2/lib/src/dcl2.c` | `DeadcomL2`: state, `send_number`, `next_expected_ack`, `recv_number`, `failure_count`, `last_response`, one pending message | `dcConnect`, `dcDisconnect`, `dcSendMessage`, `dcGetReceivedMsg`, `dcProcessData` |
| framing | `dcl2/lib/src/yahdlc.c` | `yahdlc_state_t`: a decoder that keeps its place between calls | `yahdlc_frame_data`, `yahdlc_get_data`, `yahdlc_reset_state`, `fcs16` |
| pthreads integration | `dcl2/helper-pthreads` | mutex, condition variable, `wakeup_is_spurious` | lock, unlock, wait, signal |
| Python bindings | `dcl2/py3-bindings` | the same as Python objects, a receive thread | the calls of dcl2 as methods, through callbacks that may raise; `stop` |
| dcrcp codec | `dcrcp/lib` | the pool of CBOR nodes it allocates from | `dcrcpEncode`, `dcrcpDecode` |
| leaky-pipe | `leaky-pipe` | counters into lists of damage, random state | `lp_transmit`, `lp_receive`, `lp_cutoff` |
| outside `src/` | cn-cbor, pipe, the application, the byte link | | |

How they interact. An application thread calls into the link state machine, which
takes the station's mutex, transmits a frame through a callback and waits on the
condition variable for the answer. A receive thread takes octets off the link and
passes them, in chunks, to `dcProcessData`: it decodes them under the mutex, runs the
handler of each frame, transmits answers and signals the waiting thread. Two stations
do this with each other. Messages of dcrcp are payload.

What is hard, and what makes each component correct:

* **Link state machine.** One condition variable and one `last_response` serve
  connecting and sending; a thread that wakes up reads what the receive thread left
  there some time ago. Frames are lost, repeated, late; resets restart the numbering
  on one side first; external methods fail half way. Correct: no message picked up
  twice or out of order; `DC_OK` only for a message that was picked up; both ends
  agree on numbers when at rest; calls return.
* **Framing.** The link loses, changes and adds octets; a flag is both the end of a
  frame and the beginning of the next; chunks are cut anywhere. Correct: what is
  decoded was sent; what was not damaged is decoded; the decoder's buffer is enough.
* **pthreads integration.** Spurious wakeups, signals that race with the deadline, a
  flag shared by all waiters. Correct: a wait reports a signal iff it was signalled
  before its timeout.
* **Python bindings.** Any callback may raise; then the bridge calls no Python until
  the method has returned, `mutexUnlock` included. `getMessage` calls the library
  twice with the lock free in between. Correct: exceptions reach the caller; the link
  is not left in a state nobody will change; a message is copied into room made for it; the
  lock is released whenever no exception was raised; calls and `stop` return.
* **dcrcp codec.** Sequential, but every allocation may fail, and what a foreign
  station sends is any tree of items. Correct: decoding restores what was encoded;
  what is decoded stays within the members it is written to; nodes are given back.
* **leaky-pipe.** Test equipment; correct if it damages what it was told to damage.

`PROJECT.json` lists the hazards at their lines, each with the properties that cover
it or a note why none does.

## 2. Modules

| module | what it is |
|---|---|
| `LinkService` | what dcl2 promises two applications: the abstract specification |
| `Dcl2` | two stations: every call, every frame handler, the wire, time |
| `Dcl2Inv`, `Dcl2Session`, `Dcl2Callers` | the three inductive invariants, each with its argument: behind `AtMostOnce`; behind `ConfirmedPickedUp` and its kin; behind `OneSender` and `CopiesAnnounced` |
| `Dcl2Proofs`, `Dcl2Once` | proofs of `TypeOK` and of `AtMostOnce` |
| `LinkServiceProofs` | that `Dcl2` implements `LinkService`; the proofs about several threads |
| `Dcl2SessionProofs` | that `Dcl2` implements the reliable service, and what else `timely` checks |
| `MCDcl2` | numbers of calls for TLC |
| `Fcs` | the checksum, with the table of the code |
| `FrameLink` | a line that carries whole frames and loses some: what `Dcl2` takes for granted of the line, as an abstract specification |
| `Yahdlc`, `MCYahdlc` | encoder, decoder, line, receive thread; frames for TLC, and the checksum against its polynomial |
| `YahdlcInv` | the inductive invariants behind `UndamagedReceived` and behind `OnlySent` on a line without damage or with little, with their argument |
| `YahdlcProofs` | proofs about encoder, decoder, checksum, frames that were not damaged, lines without damage and gentle ones, the loop of `dcProcessData`, and `FrameLink` |
| `Condvar` | the condition variable dcl2 counts on: an abstract specification |
| `Pthreads`, `PthreadsProofs` | the pthreads integration, and that it implements `Condvar` for one waiter |
| `PyBindings`, `MCPyBindings` | a station in Python: methods, callbacks that raise, receive thread |
| `PyBindingsProofs` | proofs of its safety properties |
| `Dcrcp`, `MCDcrcp`, `DcrcpProofs` | the codec and its pool of nodes; messages and documents for TLC; proofs |

The models stand on one another: `Yahdlc` implements `FrameLink`, in which frames reach
the handler in the order sent, unchanged, each at most once, and may be lost; and that
is what the wire of `Dcl2` does (`LoseFrame`, and nothing else). `Pthreads` implements `Condvar`,
whose steps are `Block`, `Signal` and `Expire` in `Dcl2`. `Dcl2` implements
`LinkService`: messages handed over at one end, picked up at the other end in order,
at most once each. `Dcrcp` has a message carried unchanged, which is what that service
gives it. The links between `FrameLink`, `Condvar` and `Dcl2` are by comparison of the
modules, not by a composed specification.

### LinkService and Dcl2

In `Dcl2`, `dc[s]` is the structure of station `s`, `link[s]` the frames on the way to
it, `thr[s][t]` the call a thread is in. The mutex makes everything between two points
where it is released atomic, and within a call it is released in `condvarWait` only:
so a call that does not wait is one action, and one that waits is cut at the wait.

| code | actions |
|---|---|
| `dcConnect` | `ConnectRefused`, `ConnectStart`, `ConnectResume` |
| `dcDisconnect` | `Disconnect` |
| `dcSendMessage` | `SendRefused`, `SendStart`, `SendConfirmed`, `SendAgain`, `SendLinkReset`, `SendWaitFailed` |
| `dcGetReceivedMsg` | `GetSize` (no buffer given), `GetMessage` |
| `dcProcessData` | `ReceiveData`, `ReceiveAck`, `ReceiveNack`, `ReceiveConn`, `ReceiveConnAck` |
| outside | `Expire`, `WaitFails`, `LoseFrame`, `ForeignNack` |

A failing `transmitBytes`, `condvarWait` or `condvarSignal` is a branch of the action
that calls it (`Ext`), with the cleanup of the code; a failure inside `dcProcessData`
discards a prefix of what is on the wire, since the call returns in the middle of its
chunk. A message is its number; the length of a frame and its octets are `Yahdlc`'s
business. Ghost variables: `sent`, `delivered`, `confirmed`, `msg_len`. The first three
are the state of `LinkService`, so that the refinement mapping is the identity:
`Accept` is `SendStart`, `PickUp` is `GetMessage`, `Confirm` is `SendConfirmed`, and
everything else is a stutter. `ReliableSpec` lets a message be confirmed only after it
was picked up; `Dcl2` implements that where `timely` says.

Time is abstracted to what a timeout may find on the wire (`Delay`): nothing is known
("any"); the answer to a connection attempt, unless lost, arrives before a later
timeout ("handshake"); a message, its pick-up and its acknowledgement do too ("none").
`LateWakeup` says whether a frame may be processed between the expiry of a wait and
the moment the waiter has the mutex again.

### Yahdlc

One `Decode` step is one turn of the loop over the octets in `yahdlc_get_data`:
`SkipOctet`, `SkipFlag`, `StartFrame`, `TakeEscape`, `TakeOctet`, `EndFrame`. The
look-ahead to the next octet sees only the chunk, as in the code, so where chunks are
cut matters to the model. `dcProcessData` hands what has arrived to the decoder;
`Carry` is `lp_transmit` with any outcome; `Send` encodes. Every octet on the way
knows the frame it belongs to, which says in the end which frames were `damaged`.
The decoder's indices are replaced by their difference (`length`), the only use the
code makes of them besides storing octets. `Link` is the refinement mapping to
`FrameLink`: the frame received last is the first one in `sent` that it can be
(`LastReceived`), so that a frame which is sent twice is taken for the earlier one.

### Pthreads

A thread is outside the library, inside with the mutex, or in
`pthread_cond_timedwait`: asleep, woken (by a signal or for no reason) or late, and in
the last two cases it needs the mutex to go on. `Deadline` is the passing of `ts`.
`Woken` and `Late` are the `while` loop of `condvarWait`; `CV` is the refinement
mapping: a wait counts as signalled as soon as the flag is cleared.

### PyBindings

One station; the peer is any sequence of frames. `thr[t]` is the method a thread is in
and where in it, or how its last call ended; `mutex` is who has acquired the
`threading.Lock`, for here a call can end without releasing it. A call is cut at every
point where it gives up the lock or may fail without it: before `mutexLock`, in the
wait, before `mutexUnlock`, and in `dcConnect` between the failed `mutexUnlock` and the
assignment that follows it (`UndoConnect`).

| code | actions |
|---|---|
| `__init__`, `stop`, `_receiveFunction` | `Construct`, `Stop`, `Read`, `ReceiverEnds` |
| method entry, bad arguments | `CallMethod`, `BadMessage` |
| `dcConnect`, `dcDisconnect` | `ConnectRefused`, `ConnectStart`, `ConnectEnds`, `Disconnect` |
| `dcSendMessage` | `SendRefused`, `SendStart`, `SendAgain`, `SendConfirmed`, `SendLinkReset`, `SendWaitFailed` |
| `getMessage`: both calls of `dcGetReceivedMsg` | `GetNothing`, `GetSize`, `CopyMessage` |
| `dcProcessData` | `ReceiveNothing`, `ReceiveData`, `ReceiveRepeat`, `ReceiveAnswer`, `ReceiveConn`, `ReceiveConnAck` |
| callbacks that raise | `LockRaises`, `UnlockRaises`, `WaitRaises`, `Interrupted`, and a branch (`Py`) wherever a step transmits or signals |
| `threading.Condition` | `Expire`, `Notified` |

A `mutexLock` or `mutexUnlock` that raises may have done its work or not.
`Interrupted` is a `KeyboardInterrupt` (or any exception) while the wait is getting the
lock back: the cleanup of dcl2 then runs without it. Sequence numbers, which `Dcl2`
has, are left out, so that a frame may be the expected one or not at any time; this
only adds behaviours.

### Dcrcp

One action per outcome of a call: `Encode...` and `Decode...`. CBOR is abstracted to
the tree of items: of an item the type, number, length and children are kept, and of
its octets how many there are (`Size`). Where the decoder expects an item without
children it may find one that has them (`Container`, to any depth, of which only how many
children and nodes there are matters); what is copied from it is arbitrary. `free` is what the pool of the `cn_cbor_context`
has left; an encoding that runs out of nodes half way keeps what it took
(`EncodeExhausted`).

## 3. Runs

| run | question | result |
|---|---|---|
| `faults` | `TypeOK`, `AtMostOnce` and its inductive invariant, and `ImplementsService`, under loss, any delay, reconnects, disconnects, a failing transmission or wait, as long as an expired waiter runs before the next frame is processed and signals succeed | hold |
| `timely` | `ConfirmedPickedUp`, `SequenceAgreement`, `ImplementsReliableService` and the inductive invariant behind them (`TimelyInv`) when handshakes are answered within a timeout, an expired waiter runs before the next frame is processed, and no method fails | hold |
| `calls_return` | two application threads, a failing transmission or signal, a foreign peer's NACK, late wakeups: does every call return, are both threads ever in `dcSendMessage` (no), does a copy return the message whose size was announced (yes); the inductive invariant behind the last two (`CallersInv`) | hold |
| `flawless` | is every message confirmed on a flawless link, past the wrap-around of the numbers | yes |
| `yahdlc` | `DecoderOK`, `OnlySent`, `UndamagedReceived` with its inductive invariant (`UndamagedInv`), the one behind `OnlySent` as long as nothing was damaged (`FaithfulInv`), `ProcessDataReturns`, `TurnsEnd` (the loop that decodes ends, and after how many turns), `CarriesFrames` (the refinement of `FrameLink`): chunks cut anywhere, any two octets hit, a call that ends half way, a frame as long as the limit allows; `TableIsPolynomial`, `GoodResidue`: is `fcstab` the table of x^16 + x^12 + x^5 + 1, and does each frame end in `FCS16_GOOD_VALUE`, from each of the 65,536 registers | hold |
| `pthreads` | one waiter: `Pthreads` implements `Condvar`, no signal is slept through, a wait reports no signal it did not have, every wait ends | hold |
| `py` | two application threads and the receive thread, any frames, one exception of any callback anywhere: `StateOwned`, `ExceptionsReported`, `OverrunsOnlyReplaced` (when does `getMessage` write past its array), `ReleasedOnReturn`, `CallsReturn`, `StopReturns` | hold |
| `dcrcp` | `RoundTrip`, `TerminatorOverruns` (when does the decoder write outside a member), `NothingLeaked`, `RoomEnough`, `PoolLasts` for messages at and beyond the limits and for documents that break each check of the decoder | hold |

Runs that are expected to fail, each against a sentence of the documentation, which
`PROJECT.json` quotes:

| run | what happens |
|---|---|
| `late_wakeup` | a sender's wait expires, and before it has the mutex the receive thread processes a CONN; the sender sees a timeout only and repeats its frame in the new session: a message is picked up twice |
| `late_handshake` | the answer to an abandoned connection attempt completes the next one, whose CONN then resets the peer in mid-session; a confirmed message was dropped |
| `scratchpad` | the checksum of a message of 248 or 249 octets is decoded into `scratchpadBuffer`, which has 249 octets, and is written over the member behind it |
| `py_lock` | `pipe.write` raises in `connect`; the `mutexUnlock` of the cleanup is refused and the call returns with the lock |

They mark the boundary of the passing runs: `faults` and `timely` exclude what
`late_wakeup` needs (`LateWakeup`: nothing in dcl2 keeps the receive thread from taking
the mutex before a waiter whose time is up), `timely` what `late_handshake` needs and
failing methods; the properties of `py` that say that something returns leave out the
case that a call has kept the lock (`LockKept`).

Other disagreements with the documentation, seen in the models, without a run of
their own. The first five are failures of what a user relies on:

* `dcl2.h:267-271` guarantees that once `dcGetReceivedMsg` has told a length, the next
  call copies that message or returns `DC_LINK_RESET`. A CONN between the two removes the
  message; if a longer one comes before the second call, that one is copied, and no
  length is compared (`dcl2.c:229`). `getMessage` in Python makes its two calls with the
  lock free in between and the second into `buf[msg_len]` on its stack
  (`_dcl2_type_methods.c:156-157`), which such a message overflows. `CopyMessage` does so
  in `PyBindings` (`overrun`); `OverrunsOnlyReplaced` says only that, with one reader,
  nothing but a reset leads there. If none or a shorter message came, the result is
  `DC_OK` with that or no message, or `DC_NOT_CONNECTED`, and never `DC_LINK_RESET`.
* `py-api.rst:80-81` guarantees that a message that `sendMessage` confirms was picked up.
  A repetition that cannot be transmitted takes `send_number` back (`dcl2.c:162`)
  although the first copy may have arrived: the next message has the same number, is
  taken for a repetition, acknowledged (`dcl2.c:305`) and confirmed unread. TLC finds it
  in `timely` with `Failing = {"transmitBytes"}`, `MaxExtFail = 1` and
  `MaxSend <- TwoController`.
* `dcl2.h:236-237` gives `DC_LINK_RESET` to a message that was not acknowledged. An ACK
  processed between the expiry of a wait and the wakeup (`LateWakeup`) is accepted and
  the number awaited moves on (`dcl2.c:328-343`), but the sender sees a timeout: after the
  last attempt it resets the link, and after an earlier one it repeats, and the
  acknowledgements of the repetitions are no longer awaited, so that it ends in the same
  place. A NACK of a foreign peer between the ACK and the wakeup does the same.
* `protocol.cddl:127` allows a failure text of 200 octets. The decoder accepts it and
  writes its terminator at `rdrFailure[200]` of a `char[200]` (`dcrcp.c:246-249`,
  `dcrcp.h:110`): another octet of the union where that has a larger member, as with
  64-bit `size_t`, and outside the structure where it has not. `TerminatorOverruns` says
  that this is the only such case, and always one.
* An element of a list of UIDs is accepted by its length, whatever its type
  (`dcrcp.c:269`): one that has 4, 7 or 10 items in it is copied from `v.bytes`, which it
  does not have. `protocol.cddl` has byte strings there.
* `protocol.md` has the limit of failures at 10, where the code has 3
  (`DEADCOM_MAX_FAILURE_COUNT`); acknowledges a DATA frame on reception, where the code
  waits until the message is picked up; disconnects on a DATA frame out of sequence,
  which the code ignores; answers an improper DATA frame with a NACK, which the code never
  sends; and sets the failure count to 0 on an ACK, where the code does so when the next
  message is sent.
* `dcl2.h:226-227` says that `dcSendMessage` waits for a transmission under way; it is
  refused (`SendRefused`). `dcConnect` is not refused then (`ConnectStart`), so that its
  CONN_ACK may wake the transmitting thread, which reports success for a message that
  nobody picked up: `ConfirmedPickedUp`, and with two connection attempts `OneSender`
  too, fail with two threads at a station even on a flawless link.
* `py-api.rst:114` announces a RuntimeError of `processData` that is a TypeError, and
  names `getReceivedMsg` what is `getMessage`.
* `DCRCP_REQUIRED_CNCBOR_BUFFERS` is 9, but a list of n elements takes 3 + n nodes, up
  to 13 (with which the pool never runs out: `PoolLasts`); and once an encoding has run
  out of nodes the pool stays empty. The same
  failure is reported as a parameter error for UIDs (`dcrcp.c:134-142`).
* Empty lists and UIDs of other lengths are encoded and then rejected by the decoder;
  `hwRev` takes 16 bits where `protocol.cddl` gives it 8.
* `leaky-pipe.c:83`: a probability of 0 lets through the value 0 of the dice.

### Bounds

* `Dcl2`: two stations (the protocol is point-to-point); one calling thread each, two
  in `calls_return`. At most two messages and two connection attempts per station:
  the hazards need a copy of one message and the acceptance of the next, and one
  session after another. `flawless` sends nine messages, one more than there are
  numbers; both stations may connect at once there and in the two safety runs, but not
  in `calls_return`.
* `SeqModulo` is 8 and `MaxFailures` 3 as in the code; 2 in `calls_return` and `py`,
  which is enough for a first attempt and a repetition. One failing external method,
  one foreign NACK. Wires are unbounded; the bound on calls bounds them.
* `Yahdlc`: three frames, each a short ACK or a DATA frame with everything that must be
  escaped (control octet, payload, checksum) and as long as `MaxFrameLen` lets through;
  two damaged octets, which is what it takes to run two frames together, for the flag
  is sent at both ends of a frame; one abandoned chunk. Made-up octets are the two
  special ones and a plain one. More damage can hit a 16-bit checksum by chance, so
  `OnlySent` is no property of an arbitrary line. Chunks of up to three octets: enough
  for the end of a frame, the flag of the next and an octet behind it, and the decoder
  looks one octet ahead. `scratchpad` keeps the proportions of the limits in `dcl2.h`
  with a payload of two octets for one of 249.
* `Pthreads` has no bound on steps; its state space is finite.
* `PyBindings`: one thread connects and disconnects, the other connects, sends and
  reads, both as often as they like; messages of two lengths; one exception in all.
  After an exception the lock may stay locked, and what a second one adds is a failure
  of the call that has none yet; the theorems below have no such bound.
* `Dcrcp`: pools of 9 nodes (as the header says), of 13 (enough for every message the
  protocol allows) and of 14 (a list of eleven), buffers of 60 and of 204 octets; the values of members are at 0, at the sizes where a CBOR head grows,
  and at the limits; sequences of calls are unbounded.

`CHECK_DEADLOCK FALSE` stands in the runs of `Dcl2` and `Yahdlc`, where the numbers of
calls and frames are bounded and everything may be done, and in those of `PyBindings`,
where the object is closed in the end and a lock may be kept. `Pthreads` and `Dcrcp`
never stop.

### Fairness

* `Dcl2`, `WaitsEnd`: `condvarWait` ends at its timeout, and the thread gets the mutex
  and the processor. `Pthreads` checks the first half (`WaitReturns`).
* `Dcl2`, `Served`, in `flawless` only: the receive thread reads on, as in
  `test/dcl2-integration/common.c` and `__init__.py`, and the application picks up
  what is pending. On a lossy link nothing of the kind is claimed: after three
  failures the link is reset.
* `Yahdlc`, `LiveSpec`: the receive thread stays in the loop. The property is
  that the loop ends.
* `Pthreads`, `Fairness`: deadlines pass, the mutex is not kept for ever (handlers
  end, `transmitBytes` returns), and a thread that keeps asking for it gets it (strong
  fairness, for it is free only now and then). Nothing makes a signal or a spurious
  wakeup happen.
* `PyBindings`, `Fairness`: as before, with the ends of calls and of a closed pipe.
  `LinkSettles` adds that connections come to an end: every CONN and every
  `dcConnect` starts `failure_count` anew (`dcl2.c:9`), so that a peer whose CONN arrives
  each time the sender's wait has just expired keeps `dcSendMessage` repeating. TLC
  found this; without the assumption `CallsReturn` is false.

## 4. Proofs

All theorems hold for every value of the constants that the `ASSUME`s of the modules
allow; TLC evaluates those on every run.

* `TypeCorrect` (`Dcl2Proofs`): `Spec => []TypeOK`, which is inductive: any number of
  threads, any modulus, any environment.
* `AtMostOnceCorrect` (`Dcl2Once`): `Spec => []AtMostOnce` under three assumptions.
  `SingleThread`: a station has one calling thread beside the receive thread, as
  `docs/dcl2/py-api.rst` describes it. `PromptWakeup`: an expired waiter runs before
  the next frame is processed, which the code does not guarantee. `SignalsSucceed`:
  `condvarSignal` does not fail. Without each of them TLC finds a message picked up
  twice (`late_wakeup` for the second), so they are needed.

  Why the obvious invariant is not enough: that picked-up messages increase says
  nothing about the copies still on the wire, held in a sender's stack frame, or
  pending. `AtMostOnceInv` says where copies of a message can be. A station begins a
  new numbering only when it takes a CONN or CONN_ACK (a border) off its wire, so
  copies of an accepted message must never be behind a border that the receiver has
  still to read: a sender that answers a CONN is told so (`DC_RESP_NOLINK`) and
  repeats nothing afterwards, one that connects has nothing to repeat. Hence all copies
  of the newest message are in front of the next border, where the receiver still
  expects the number after theirs. The proof goes through the wire's changes (append,
  remove the head, drop a prefix), then the actions.
* `AtMostOnceInvCorrect`, `ServiceImplemented` (`LinkServiceProofs`): the invariant
  itself, and under the same assumptions `Spec => Service!Spec`: every step of the two
  stations is a step of `LinkService` or a stutter.
* `CallersInvCorrect`, `OneSenderCorrect`, `CopiesAnnouncedCorrect`
  (`LinkServiceProofs`): for any number of threads, whatever is lost, late, rejected or
  fails, if the two stations attempt to connect once in all (`OneSession`). What keeps a
  second thread out of `dcSendMessage`, and the announced message in its place, is the
  structure, and a reset undoes both. `CallersInv` says why none does: a CONN reaches
  a station to which nothing has happened yet, a connect call is alone at its station,
  and a send call that gives up leaves its station down for good. With a second
  attempt TLC finds two threads in `dcSendMessage`.
* `ConfirmedPickedUpCorrect`, `SequenceAgreementCorrect`,
  `ReliableServiceImplemented` (`Dcl2SessionProofs`): under `Timely`, which is
  `SingleThread`, `PromptWakeup`, and: the answer to a connection attempt, unless lost,
  arrives before a later timeout (`AnswersInTime`); external methods do not fail
  (`NoFailures`); the peer sends no NACK, as this library never does (`SameLibrary`); no
  `dcDisconnect` (`StaysConnected`). Messages and acknowledgements may be lost or late,
  both stations may connect, send and give up at any time and as often as they like.

  Why this needs an invariant: an acknowledgement carries three bits and no session, so
  that the one the sender waits for is indistinguishable from an old one, and nothing
  in a state of the sender alone tells them apart. `TimelyInv` (`TimelyInvCorrect`) does
  so in two layers. `HandshakeInv`: a station has one handshake on the wires at most,
  none once a wait has expired, and one that is up while its own CONN is still on the
  way was brought up by the peer's CONN, and its answer is right behind. Hence no CONN
  comes from a session that is over, and both ends count from the same reset.
  `SessionInv`: the number the sender is at, the number the receiver expects, and those
  of the messages and acknowledgements on the wire fit together, so that an ACK with the
  awaited number is there only if the message was picked up. It rests on
  `AtMostOnceInv`, for the copies of a message in a sender's stack frame. The proof has
  one lemma for each action and each layer. The refinement then needs nothing
  more than that a confirmed message is among the delivered ones.

  Are the hypotheses needed? `ConfirmedPickedUp` fails in TLC without `SingleThread`,
  `AnswersInTime` (`late_handshake`), `SameLibrary` (one NACK, with
  `MaxFailures` 1), `StaysConnected`, or `NoFailures` with a failing `transmitBytes`
  or `condvarWait`. For a failing `condvarSignal`, and for `PromptWakeup`,
  TLC found no counterexample in the bounds of `timely`; the proof uses them.
* `DecoderCorrect` (`YahdlcProofs`): `Spec => []DecoderOK`; `DecoderInv` adds that
  octets are octets all the way from the encoder, through its checksum and its loops.
  Assumed are what a station sends (`FramesAssumption`: the numbers of the control
  octet, data in DATA frames only, no more than the limit) and that the line makes up
  octets (`LineAssumption`).
* `ResidueCorrect` (`YahdlcProofs`): `Spec => []GoodResidue`. The inverted register,
  low octet first, leaves `FCS16_GOOD_VALUE` for every value of the register. The first
  step makes the index of the table 255 whatever the low octet was, the second makes it
  a constant too; what is left is two entries of `fcstab`.
* `UndamagedReceivedCorrect`, `UndamagedInvCorrect` (`YahdlcProofs`): any frames, as
  many as there are, any amount of damage of any kind to the others, chunks cut
  anywhere, any number of calls ended by a failing method.

  Why this needs an invariant: `UndamagedReceived` speaks of a line that is empty; what
  the decoder is in the middle of is not to be seen in it. `UndamagedInv`
  (`YahdlcInv`) is about what the decoder has still to see (`Stream`: chunk, arrived and
  wire together, so that handing over a chunk changes nothing). There is a frame c
  such that of the frames up to c those without damage are decoded, and each later one
  without damage is either there octet by octet, wherever that is (`Unreached`), or it
  is the next one and what the decoder holds is a beginning of it (`InProgress`), or all
  of it (`Complete`). The first flag of an unreached frame is where the work is: the
  decoder may be idle, in the middle of whatever is left of another frame, just started
  by a flag that noise made, or look at two flags in a row; in each case the frame is
  still unreached or begun after the step. Between the flags the register, the octets
  and the length of the decoder are those the encoder had at the same place (`BegunAs`),
  which needs that escaping is undone octet by octet and that escaped octets hold no
  flag. At the closing flag `ResidueCorrect` says that the checksum is accepted, and
  `ControlReversible` that the frame is the one that was sent. `LabelInv` (octets of one
  frame come before those of the next) says that an abandoned chunk takes whole frames
  away only as `damaged`, and keeps the order of what is decoded.

  The encoder's loops are functions over the octets. That such a function has values,
  and what they are, is shown by induction over their length (`RecursionExists`,
  `Induction`, which states the induction for a set where the library has a predicate).
* `OnlySentUndisturbed`, `FaithfulInvCorrect` (`YahdlcProofs`): as long as the line has
  damaged nothing, what is decoded are frames that were sent, in order, none twice, for
  any frames, any chunks and any number of calls ended by a failing method. Such a call
  drops octets too, so that the decoder sees tails of frames whose beginning was thrown
  away, and frames that the line left alone are lost. `FaithfulInv` (`YahdlcInv`) says
  that behind what is left of a frame comes a whole, later one, or nothing
  (`FrameAfterFrame`), that all octets but perhaps the next one belong to frames later
  than those decoded (`Later`; the next one may be the last flag of the frame that was
  just decoded, which stays in the chunk), and that the decoder, when it has started, is
  right behind a flag with another one to come, or holds the beginning of a frame of
  which all the rest is there. After such a call the decoder is outside a frame: a tail is
  skipped up to its last flag, which the decoder may take for a first one; but then the
  flag of the next frame is the next octet, and a flag right behind another is ignored.
* `OnlySentGentle` (`YahdlcProofs`): the same of a line that does damage, any number of
  times, as long as each step of it is `Gentle` (`Yahdlc`): every octet stays in its
  place, of a frame at most one is changed, and neither the octet nor what it becomes is
  a flag or an escape octet. How many frames are hit, when chunks are cut and which calls
  end half way does not matter. The invariant `GentleInv` is the one above with, in place
  of a frame's line, any of the lines it may arrive as (`Variants`), and in place of its
  octets what the decoder reads there (`Read`), which differs from the frame in at most
  one octet (`VariantLaw`). At the closing flag either nothing was changed, and the
  argument is the one above, or `BurstDetected` says that the checksum is wrong, and the
  frame is dropped. An octet that changes while the decoder is in its frame is still on
  the way, so what it has read is a beginning of the new line as well (`BegunAgrees`).
  The conditions are those the argument needs: a flag that becomes another octet runs
  two frames together, an octet that becomes a flag cuts one in two, and an octet that is
  lost moves those behind it, and then it is chance whether the checksum fits. Two
  neighbouring octets are within reach of `BurstDetected` and are not done.
* `CarriesFramesUndisturbed`, `CarriesFramesGentle` (`YahdlcProofs`): on such lines
  `Yahdlc` implements `FrameLink`. Between two states in which `OnlySent` holds, a frame
  that is received is behind all that were received before: the first place of a longer
  sequence in `sent` is behind the first place of the shorter one (`LastOfReceived`).
* `BurstDetected` (`YahdlcProofs`): what the checksum is for, about sequences of octets of
  any length. If one octet or two neighbouring ones are wrong, the register ends with
  another value, so that what the sender's register led to `FCS16_GOOD_VALUE` is not
  taken for good. The high octets of the 256 entries of `fcstab` are all different
  (`HighOctets`): a step from different registers by the same octet leads to different
  registers, and so do two steps by different octets from the same register.
* `TurnsEndCorrect` (`YahdlcProofs`): `Spec => TurnsEnd`, whatever the line does. It is
  the part of `ProcessDataReturns` that needs no fairness.
* `EscapeReversible`, `ControlReversible` (`YahdlcProofs`): an escaped octet holds no
  flag and is restored; the control octet is decoded to what was encoded, for every
  frame that a station sends.
* `MutexCorrect`, `NoMissedSignalCorrect`, `CondvarImplemented` (`PthreadsProofs`):
  with one waiter and any number of other threads the pthreads integration implements
  `Condvar`. The mapping needs that a thread asleep has not been signalled
  (`NoMissedSignal`), which fails with two waiters.
* `SignalsOnlyCorrect` (`PthreadsProofs`): `Spec => SignalsOnly` for any number of
  waiters, from the invariant that a cleared flag means a signal during the wait of
  every thread that waits.
* `StateOwnedCorrect`, `ExceptionsReportedCorrect`, `OverrunsOnlyReplacedCorrect`,
  `ReleasedOnReturnCorrect`, `PyTypeCorrect` (`PyBindingsProofs`): for any number of
  application threads, any methods they use, and any number of exceptions. The
  invariant `PyInv` adds two facts: a call that is about to release the lock holds it
  (`HeldInv`), so that between reading the length of a message and releasing the lock
  nobody replaces it, and later only a reset or another reader does (`RoomInv`); and the receive thread neither waits nor sends
  (`ReceiverInv`), so that the thread which owns a state of the link is a caller. Each
  step is one thread's (`OnlyMoves`); `Safe` collects what a step must respect, one lemma
  per group of actions shows that it does, and `SafeStep` that this preserves the
  invariant.
* `RoundTripCorrect`, `NothingLeakedCorrect`, `TerminatorOverrunsCorrect` (`DcrcpProofs`):
  for any messages, documents, pools and buffers. `RoundTripCorrect` needs that a document
  in the buffer is the encoding of the last message and that encoding it left as many
  nodes free as decoding needs (`BufferInv`); one lemma per type of message shows that
  decoding inverts encoding within the limits of the protocol. For
  `TerminatorOverrunsCorrect` the checks of each branch of the decoder are held against
  the members it writes, whatever the types of the elements.
* `RoomEnoughCorrect`, `PoolLastsCorrect` (`DcrcpProofs`): a buffer of 204 octets
  holds every message the protocol allows, and thirteen
  nodes encode each of them after any sequence of calls. The first bounds the sum over
  an array by its length times its longest item (`SumBounded`); `SumFunction` is
  recursive, and that it has a value is shown by looking at a smallest set for which
  it would have none (`SumsExist`). Of the messages the failure text is the longest. The
  second rests on `NothingLeaked`: as long as no encoding has failed half way, the
  pool is full between calls.

Only model-checked: liveness, which is out of the prover's reach. `OnlySent` once the
line has done more damage than a gentle one: enough of it can make a frame with a good
checksum, so that it holds for the damage of the run and not for every line.
`TableIsPolynomial`, which looks at 256 entries one by one.

## 5. Not modelled

NULL and length checks of parameters. A link that blocks the sender. Allocation in the
pthreads integration. The mode of `yahdlc_frame_data` that only counts. Frames from a
foreign station other than NACK in `Dcl2`; a U-frame that the decoder does not know is
decoded as DATA 0. A decoded length below that of the checksum (the model stops at 0).
Reference counts and the conversion of Python objects: no state of the protocol depends
on them. The octets of CBOR: its library is not part of the repository. Of leaky-pipe
all but the effect of `lp_transmit` on an octet: its lists and dice choose among the
outcomes that `Carry` allows all.

## 6. Plan

1. `Dcl2` and `Condvar` composed: each station's waits as an instance of `Condvar`.
2. `LeakyPipe`: lists and dice; exactly the damage that was ordered, `lp_cutoff`
   against a transmission, its steps mapped to those of `Carry`.
3. `Blocking`: two receive threads and bounded links.
