# mycap in TLA+

`mycap` captures 802.11 frames on a monitor interface and sends them over TCP
to `capserver`. This directory holds TLA+ models of both programs, the TLC
configurations that check them, and proofs checked by TLAPS. Paths and line
numbers refer to `src/` of the repository (`spy.c:89` is `src/src/spy.c`).

To check a model: `tlc -config X.cfg M.tla`; to check a proof: `tlapm M.tla`.
The table under *Runs* says which configuration belongs to which module.

## 1. Inventory

| component | source | state | operations |
|---|---|---|---|
| transport | `spy.c:39-102` | `client_sockfd`, `message_discard`, `message_connected` | `do_trans`, `initSocket`, `CatchServerBroken` (SIGPIPE) |
| string queue and its thread | `utils.c:156-185`, `spy.c:21-36, 106-121` | `top_of_queue`, `end_of_queue`, `queue_mutex`, `trans_running` | `buf_printf`, `queue_push`, `queue_popup`, `trans_buff`, `stop_trans` |
| server | `capserver.c:22-49, 238-361` | `st[10]`: `t`, `sock`, `running`, `pre_read_buff` | `main`, `getFreeST`, `socket_loop`, `_stopThread`, `stopThread`, `clearThread`, `CatchShutdown` |
| configuration | `utils.c:225-404` | `my_config`, `config_stat`, `refresh_config_running`, `thread_refresh_config` | `initConfig`, `config_free`, `refresh_config`, `shutdown_refresh_config`, `set_config_device_name`, `get_config_device_mac` |
| message framing | `capserver.c:197-236, 265-277` | `pre_read_buff`, `p_str_start` | `socket_loop`'s split, `do_recv` |
| message codec | `utils.c:70-154, 188-223`, `spy.c:123-139`, `capserver.c:128-172` | none that outlives a call | `bin_print`, `base64_encode`, `base64_decode`, `getStrProperty`, `getIntProperty`, `do_parse` |
| parsers and filter | `radiotap_parse.c`, `80211_parse.c`, `parse.c`, `main.c:53-64` | none | `parseRadioHeader`, `parse80211`, `filter` |
| capture main and its shutdown | `main.c` | `pd`, `t1` | `main`, `got_packet`, `CatchShutdown` |
| configuration text | `cJSON.c`, `utils.c:262-351` | `my_config.mac`, `.filter.subtype` | `cJSON_Parse`, `cJSON_GetObjectItem`, `initConfig`'s lists, `subtype_in_config_filter`, `mac_in_config` |
| hex dump, scripts | `test.c`, `start.sh`, Makefiles | | |

How they interact. In `mycap`, the thread that runs `pcap_loop` calls
`got_packet` for every frame; a frame that passes `filter` is formatted by
`bin_print`, which asks the configuration for the device's MAC address, and
sent by `do_trans`. A second thread runs `trans_buff` over the string queue (at
this commit its only producer, `buf_printf`, is not called: `spy.c:137`). A third
thread polls `config.json` and replaces the configuration that the first one is
reading. SIGPIPE runs `CatchServerBroken` inside `send()`. SIGINT and SIGTERM run
`CatchShutdown` in whichever thread the kernel picks; it closes the capture,
stops and joins the queue's thread and exits. In `capserver`, `main`
opens a listening socket for every single `accept()`, takes a slot and starts a
thread; the thread reads until the client goes and then gives the slot back
itself. A signal interrupts `main` and runs `CatchShutdown`, which first stops and
joins the polling thread and then goes over the same slots.
Neither the slots nor the configuration have a lock; only the queue does.

What makes each part correct, and what is hard about it:

- *Transport*: losses are reported by the kernel late, through a signal handler
  and in an order the peer decides. The socket, the two flags and the log must
  agree; a lost connection must be noticed and replaced; descriptors must not
  run out; few frames may be lost.
- *Queue*: several stores per operation, nodes that are freed and reused, a stop
  flag. It must be a FIFO queue to its users, free no node that is still
  reachable, and end when told to.
- *Server*: three kinds of processes on one table without a lock. Clients must
  never be mixed up; descriptors, slots and buffers must come back; the shutdown
  must end.
- *Configuration*: a thread replaces what others read; polling compares stamps;
  a stop can meet a start. The last version must be loaded, one thread must
  poll, the device must keep its name, the stop must return.
- *Framing*: TCP cuts the stream anywhere; messages must come out whole, once.
- *Codec and parsers*: what is stored must be what was captured; boundaries at
  length modulo 3, alignment, masks.
- *Capture main*: a signal handler that closes and joins, that another signal can
  interrupt, and that runs before there is anything to close or join. The process
  must end, with the capture closed and no string half sent.
- *Configuration text*: a file is read into memory without a zero behind it, maybe
  while it is being replaced. A text must be accepted only if it is a document,
  and the lists must give back the words that are in the file.

## 2. Modules

| module | about | lines of the code |
|---|---|---|
| `Transport` | the sending side, with kernel and server as environment | `spy.c:39-102` |
| `TransportProofs` | its theorems | |
| `FifoQueue` | what the queue promises: an atomic FIFO queue | |
| `LogQueue` | the linked list, its mutex, `trans_buff`; refines `FifoQueue` | `utils.c:156-185`, `spy.c:21-36, 106-121` |
| `CaptureProgram` | `mycap`'s main, signals and shutdown around `LogQueue` | `main.c` |
| `CaptureProofs` | the theorems of `LogQueue`, its refinement included, and of the program around it | |
| `ServerSlots` | slots, threads, accept loop, shutdown of the server | `capserver.c:22-49, 238-361` |
| `MCServerSlots` | adds the symmetry of the connections | |
| `Refresher` | what a program sees of the polling thread | `utils.c:232-269` |
| `ConfigReload` | configuration, polling thread, its users in both programs; refines `Refresher` | `utils.c:225-404` |
| `ConfigReloadProofs` | its theorems, the refinement included | |
| `ServerProgram` | the whole server: start, `ServerSlots`, `Refresher`, shutdown | `capserver.c:22-49, 319-361` |
| `ServerProofs` | the types, clients, descriptors, slots, buffers and memory faults of `ServerSlots`; the composition of the whole server, the early join | |
| `Framing` | the byte stream cut into chunks | `capserver.c:197-236, 265-277` |
| `FramingProofs` | its types, what is printed, what is parsed | |
| `Message` | base64, property string, `do_parse`, the size of a message | `utils.c:70-223`, `spy.c:123-139` |
| `Frame80211` | `filter` and `parse80211` | `main.c:53-64`, `80211_parse.c` |
| `Radiotap` | the cursor of `parseRadioHeader` and the format's layout | `radiotap_parse.c` |
| `ConfigText` | the JSON parser, `initConfig`'s lists, their readers; the grammar | `cJSON.c`, `utils.c:262-351` |
| `ConfigTextProofs` | the parser against the grammar, what is found in a list | |
| `Codecs` | `Message`, `Frame80211`, `Radiotap` and `ConfigText` over bounded inputs | |
| `CodecsProofs` | the base64 round trip, message sizes, the filters, the antenna signal, documents, configuration files | |
| `Induction` | induction over numbers, and what follows for recursive functions and `FlattenSeq` | |

Variables and actions have the names of the C variables and functions.
`PROJECT.json` maps every definition to its lines.

**Transport.** One call of `do_trans` is one step, because the capture thread is
its only caller and the SIGPIPE handler runs inside its `send()`. `link` is the
kernel's view of each descriptor: `up`, `fin` (the server closed), `void` (data
was sent after that and the RST is on its way), `reset` (an error is pending),
`broken` (the next `send()` raises SIGPIPE). The network moves a link between
calls. Of the data only the fate of the last frame is kept. `log`, `fate` and
`missed` are history variables: nothing reads them but properties.

**LogQueue.** One step is one access to shared memory. The mutex is a variable,
not an assumption of atomicity. A node stands for a `string_buffer_chain` with
its string; `malloc` picks any node that is not allocated, so addresses are
reused. `fifo` is the history variable that records the order of completed
pushes and is the image of the abstract queue.

**CaptureProgram.** Extends `LogQueue` with the program around the queue: `main` from
the moment its handlers are installed, and `CatchShutdown` in any of the threads.
The handler ends in `exit(1)` and never returns, so one that another signal
interrupts is simply replaced by a new one, which begins with `pd` as it was left.
The program is compiled as GNU C, where `signal()` keeps the handler installed and
blocks its own signal while it runs in that thread; a second, different signal
interrupts it, and the same one is taken by another thread: the queue's thread or
the polling thread. `Signal(h)` covers all of these, and `calls` bounds how often.
A join by the queue's thread of itself returns at once. `main` is not a producer at
this commit, so a handler never runs inside a `queue_push` of its own thread; the
producers stay other threads. `outcome` records the exit or the first fault. Left
out: `getopt` and `daemon()`, which come before, and the frames (`Transport`).

**ServerSlots.** One step is one access to `st[]`. A connection stands for its
descriptor, for the two cells allocated for it and for its thread. `fault`
records the first access to memory that is not there (freed, freed twice, NULL,
a join of a thread that does not exist); the process stops there. The signal
handler interrupts `main` at any point and `main` never comes back.
`pthread_create` fails when `MaxThreads` threads were created: the code neither
joins nor detaches the ones that end by themselves. `st[].conn` is left out: it
is NULL throughout, as `do_parse` is not called. Not in the model: an
`accept()` that fails, and a second signal during the handler.

**Refresher and ServerProgram.** `Refresher` keeps of the polling thread the flag, the
`pthread_t` that was stored last and how far each thread is. `ConfigReload` is shown
to implement it (`RefinesRefresher`), so it may stand for `ConfigReload` in
`ServerProgram`, which would be too large with the configuration in it.
`ServerProgram` extends both `ServerSlots` and `Refresher`: `initDB` that fails,
`initConfig`, the accept loop, and a shutdown in its three parts. `stage` says
which part of the program `main` is in; while it joins the polling thread the
connections' threads go on.

**ConfigReload.** One module for both programs (`program` in `Init`): the polling
thread is the same code. A version of the file is a number, `stamp` is what
`stat` shows of it (time in seconds and size); an edit may leave the stamp alone.
The two lists of `my_config` are one value, and filling them is one step: the
windows that matter are between `free`, `memset` and the fill (what the lists hold is
in `ConfigText`). `pthread_create` may fail without anyone noticing, for `main` and in a
reload (`Spawn`; the same in `Refresher`). `main`'s own `initConfig` and a reload can
overlap. `ReadMac` is `readDeviceMac`: it gives a MAC only for a device that is named,
and may give NULL even then, when `socket()` or `ioctl()` fails (`refused` remembers
that); `strcpy` from NULL ends the program. `CopyMac` is that `strcpy` when there is
something to copy, a step later, because a reload may come between. `mycap`'s shutdown
does not touch the polling thread, so only the server's `shutdown_refresh_config` is there.

**Framing.** The stream is fixed and every way to cut it is explored. `printed`
and `parsed` hold what the last chunk gave. `do_recv` is modelled with the
lengths of its strings, so `terminated = FALSE` is the kind of input that the
self-test of `capserver.c:310-317` feeds it, and `terminated = TRUE` what
`do_trans` sends (a NUL behind each message). `Split` is `socket_loop`'s loop over the
bytes of a chunk: `Turn` is one turn of it, with `p_str_start` and what was printed.
`do_recv` fills `data` and `pre_read_buff`, both of `MY_BUFSIZ` bytes, with `strcpy`:
a string of `MY_BUFSIZ` or more is an `Overrun`, and the model stops there, because nothing
can be said of what the program does next. `Middle` allows one of exactly `MY_BUFSIZ`
(`capserver.c:228`), `EndOf` any.

**ConfigText.** The text is a sequence of symbols, one for a quote, a bracket, a
backslash or a character of a string; one for a literal or a number, of which there are two
kinds (`Literal` what JSON has too, `Digitless` what only `parse_number` takes: a lone
`-`, an exponent without digits, a zero in front); one for a key word of the
configuration; and one for a word of thirty characters. Memory goes on behind the text, with
what an earlier user left there, and is zero after that. `parse_string` is its two loops: `Walk` with `"count"`, for which the memory is
allocated, and with `"copy"`, in which a `\u` is `Encoded`: four symbols behind it, or ten
when a second half follows, are skipped without a look at them, and none to four bytes come
out. Which bytes is not told apart. If the copy is longer than the count the
outcome is `Overrun`. `Parser` is the recursive descent of `cJSON.c` as one function of
what is expected and where. `Grammar` says what a JSON text is, by the ways to cut it
up, and shares nothing with the parser but the symbols: it takes `parse_number`'s numbers
for numbers. A string of the model may hold any character between its quotes, which JSON
would not allow for control characters and unknown escapes; cJSON does. `Lookup` copies
every entry it comes to into the thirty bytes of `buff` (`TooLong`). Recursion is a
recursive function over positions everywhere, so that these modules can be reasoned about
too. The readers of the lists have no caller at this commit.

**Message, Frame80211, Radiotap.** Functions, no state. A base64 character is its
index in `base64char`. A parsed value is the *offset* it is read at, which is
what can go wrong; `Layout` says where the radiotap format puts each field and
is not derived from the program. `bin_print` writes into 1024 bytes whatever the
message needs (`Footprint`); its `overrun` says that it was more. `do_parse` may be
given no `socket_thread`, one with a connection or one without, and a database that takes
connections and inserts or does not (`Threads`, `Databases`): it returns what it stored
and what `st->conn` then is. `do_parse` and the parsers have no caller at this commit; they
are modelled as they stand.

**Faulty variants.** Every module has, before its actions, a few definitions under
that heading: an action of the module with one plausible slip. Nothing refers to
them. Putting one in the place of the definition it varies must make the
property named with it in `PROJECT.json` fail; that shows that the property
depends on the code.

## 3. Runs

| run | module, cfg | bounds | shows |
|---|---|---|---|
| `transport` | `Transport` | 3 descriptors | socket, flags and log agree; only broken descriptors leak; at most 3 frames lost on a quiet network; a dead connection is noticed and replaced |
| `log_queue` | `CaptureProgram` | 2 producers, 3 nodes, 2 entries into `CatchShutdown` | FIFO refinement, one owner per node, pushed strings are sent, a shutdown ends the process, and its faults and its exit are explained |
| `server_slots` | `MCServerSlots`, `ServerSlots.cfg` | 4 connections, 2 slots, 3 threads | own connection, descriptors, slots, buffers, all memory faults explained |
| `server_live` | `ServerProgram` | 2 connections, 2 slots, 2 threads, 1 polling thread | gone clients are cleaned up, the whole shutdown ends, an early one dies only of its join |
| `config_reload` | `ConfigReload` | 2 edits, 2 polling threads | one refresher, what a wiped configuration costs, double frees explained, last version loaded, the stop returns, `Refresher` implemented |
| `framing` | `Framing` | 4 messages of 3 bytes, chunks up to 25 | first two pieces printed right, `do_recv` finds its way back and stays in its arrays |
| `codecs` | `Codecs` | see below | stored as captured or dropped for a named reason, message sizes, filter and names agree, signal offset, documents accepted, listed words found |
| `transport_discard`, `transport_leak`, `server_buffer`, `config_missed`, `config_crash` | | | the five disagreements of section 6; each run ends with a counterexample |

Why the bounds are enough to be interesting. *Transport*: three descriptors allow
two leaked ones beside the one in use, and running out of them; every link is
independent of the others. `missed` stops counting at 4, one beyond the bound
stated. *LogQueue*: with three nodes and two producers a list of two, a push that
meets a pop of the last node, and the reuse of a freed node by the other producer
all occur. *CaptureProgram*: two
entries are one shutdown and one that interrupts it, in the same thread or another; a
third entry finds nothing that the second did not. *ServerSlots*: the C array has ten slots; two are the least with
another connection's slot to disturb. Four connections exhaust the slots, reuse
both of them, and exhaust the three threads, so a slot lost to a failed
`pthread_create` is seen beside live ones. *ConfigReload*: two edits give a reload
during which the file changes again; two polling threads give the second one that a
lost stop starts, and if a third one would be needed the model stops there.
*ServerProgram* has one polling thread, because a second one multiplies its states by
more than five and is covered where the thread is modelled in full.
*Framing*: four messages fit into one chunk, so the third and fourth piece of a
chunk exist; `MY_BUFSIZ` is 26 instead of 1024, less than the stream, so that the
remembered part can reach it. *Codecs*: byte values 0, 63, 129 and 255 at lengths 0 to
5 (every length modulo 3, twice), all 256 first bytes of an 802.11 header with 25
lengths and four direction bits, eleven radiotap fields in all subsets (among them
the aligned ones and one that the parser does not know) with up to two further
present words; every `caplen` from 696 to 725, where the message outgrows its buffer;
documents of up to 12 symbols, enough for an object in an object and for lists of
three, with every text one symbol or one cut away from them; among the documents to
begin with are an escape of two bytes and a pair of halves, so that the texts one symbol away
have escapes of every length and halves without their other half; lists of up to three
entries out of five (two words, one too long for `buff`, an empty string and a number), with
each of the `Leftovers` behind the file. `StoredExactly` goes through every digit that may stand
in `getIntProperty`'s buffer, every state of `st` and every kind of database.

Deadlock is checked where the program can always go on (`transport`). The capture
program, the server and the configuration really stop (`exit(1)`, or a fault), and
`framing` and `codecs` end with their input.

### Fairness

- *Transport*: `WF(do_trans)`: frames keep passing the filter; without them nothing
  happens by design. `WF(ResetArrives)`: TCP delivers the RST or times out. The
  server owes nothing; `Reconnects` and `SendsWhenServerListens` assume that it
  listens from some point on.
- *CaptureProgram* (which has `LogQueue`'s): weak fairness of running threads, of
  `main` until it captures, and of a handler. Strong fairness of the two
  `pthread_mutex_lock` steps: `trans_buff` sleeps between its turns and producers
  wait for frames between theirs, so the mutex is free again and again and is not
  taken by the same thread for ever. Nobody need ever log, no signal need come,
  and `pcap_loop` need not return.
- *ServerProgram* (which has `ServerSlots`'): weak fairness of `main`, of the handler,
  of the polling thread and of each connection thread's own steps. `recv` returning data, a client leaving and the signal are not fair:
  they may never come. `ShutdownEnds` therefore assumes that the clients
  connected at the time go.
- *ConfigReload*: weak fairness of `main` and of polling threads. Edits and the
  shutdown need not come.

## 4. Properties

Each property is stated in words above its definition. The ones to read first:

- `Transport!RecoveryBound`, `LogAlternates`, `LogAgreesWithSocket`
- `LogQueue!RefinesFifo`, `OneOwner`
- `CaptureProgram!FaultsExplained`, `ExitIsClean`, `ShutdownEnds`: a single signal to
  a running capture ends it cleanly, whoever holds the mutex; what else can happen
  needs a second entry into the handler or a thread that was never created.
- `ServerSlots!OwnConnection`, `DescriptorsKnown`: they hold although the table
  has no lock, by the order in which `_stopThread` clears `sock` and then `t`.
- `ServerSlots!FaultsExplained`: where memory *is* touched wrongly, it is in one of
  the windows it names: a slot handed out before its last thread was through with
  `_stopThread`, or a shutdown that meets a thread ending by itself or a slot
  without a thread.
- `ServerProgram!ShutdownEnds`: its two exceptions are real: the shutdown waits for
  clients that stay, and for a polling thread that has set its flag again. Because of the
  first, it says nothing of how long clients that stay can hold a shutdown up, nor of a
  thread that sets `running` after the handler has cleared it (`capserver.c:262`).
- `ServerProgram!EarlyJoinExplained`
- `ConfigReload!RefinesRefresher`
- `ConfigReload!LastVersionLoaded`: relies on the stamp remembered being the one
  taken *before* the reload (`utils.c:251` copies the old `statbuf`).
- `ConfigReload!WipeCostsOneFrame`: what `memset` under the capture thread can do, and
  that nothing else does it but a kernel that refuses the MAC.
- `ConfigReload!StopReturns`: the exception it names is real: a polling thread that
  starts after the stop sets the flag again.
- `Framing!CleanIsParsed`: `do_recv` recovers at every message that begins a chunk, and
  stays in its arrays from there on; chunks that cut delimiters can fill them up.
- `Codecs!SignalRight`: exactly when the unaligned cursor reads the antenna signal
  from the right byte.
- `Codecs!StoredExactly`, `MessageFits`: what reaches the database, all the reasons for which
  a frame does not, and for which frames the message fits its buffer.
- `Codecs!ParsedIffDocument`: the parser against the grammar, with its exceptions: numbers
  that JSON does not have, which the grammar shares; a string at the top that is never
  closed; and an escape without its four digits, of whose texts the property says nothing
  because the parser then reads, and writes, wherever it comes to.
- `Codecs!ListedIsFound`: a configuration file as a whole, from its text to the
  look-up, whatever memory holds behind it; up to an entry of thirty characters, which
  overflows `buff`.

## 5. Proofs

The seven modules named `...Proofs`, with `Induction` under three of them, prove for every
value of the constants (any number of descriptors, producers, connections, slots,
threads, edits, messages; bodies, chunks, frames, documents and lists of any length) and
from the named assumptions on them:

| theorem | states |
|---|---|
| `TransportProofs!TypeCorrect` | `Spec => []TypeOK` |
| `TransportProofs!LeaksAreBroken` | `Spec => []OnlyBrokenLeaks` |
| `TransportProofs!LogIsTrue` | `Spec => []LogAgreesWithSocket` |
| `TransportProofs!LogAlternating` | `Spec => []LogAlternates` |
| `TransportProofs!RecoveryBounded` | `Spec => []RecoveryBound` |
| `CaptureProofs!TypeCorrect` | `Spec => []TypeOK` (of `LogQueue`, as the next three) |
| `CaptureProofs!OneOwnerAlways` | `Spec => []OneOwner` |
| `CaptureProofs!ListIntactAlways` | `Spec => []ListIntact` |
| `CaptureProofs!Refinement` | `Spec => Fifo!Spec` |
| `CaptureProofs!Composition` | `CaptureSpec => Spec` (of `LogQueue`) |
| `CaptureProofs!CaptureTypeCorrect` | `CaptureSpec => []CaptureTypeOK` |
| `CaptureProofs!CaptureOneOwner`, `CaptureListIntact`, `CaptureRefinement` | `LogQueue`'s three, of the whole program |
| `CaptureProofs!ShutdownFaults` | `CaptureSpec => []FaultsExplained` |
| `CaptureProofs!CleanExit` | `CaptureSpec => []ExitIsClean` |
| `ServerProofs!SlotsTyped` | `Spec => []TypeOK` (of `ServerSlots`, as the next five) |
| `ServerProofs!OwnConnectionAlways` | `Spec => []OwnConnection` |
| `ServerProofs!DescriptorsKnownAlways` | `Spec => []DescriptorsKnown` |
| `ServerProofs!SlotsComeBackAlways` | `Spec => []SlotsComeBack` |
| `ServerProofs!BuffersKeptAlways` | `Spec => []BuffersKept` |
| `ServerProofs!FaultsExplainedAlways` | `Spec => []FaultsExplained` |
| `ServerProofs!ServesSlots` | `ServerSpec => Spec` (of `ServerSlots`) |
| `ServerProofs!UsesRefresher` | `ServerSpec => RefresherSpec` |
| `ServerProofs!ServerKeepsClients` | `OwnConnection` and `DescriptorsKnown`, of the whole server |
| `ServerProofs!EarlyJoinExplainedAlways` | `ServerSpec => []EarlyJoinExplained` |
| `ConfigReloadProofs!ConfigTyped` | `Spec => []TypeOK` |
| `ConfigReloadProofs!OneRefresherAlways` | `Spec => []OneRefresher` |
| `ConfigReloadProofs!WipeCostsOneFrameAlways` | `Spec => []WipeCostsOneFrame` |
| `ConfigReloadProofs!FreedTwiceExplainedAlways` | `Spec => []FreedTwiceExplained` |
| `ConfigReloadProofs!Refinement` | `Spec => RefinesRefresher` |
| `FramingProofs!TypeCorrect` | `Spec => []TypeOK` |
| `FramingProofs!PiecesArePrinted` | `Spec => []PiecesPrinted` |
| `FramingProofs!CleanMessagesAreParsed` | `Spec => []CleanIsParsed`, if `BodyLength < MY_BUFSIZ` |
| `CodecsProofs!RoundTrip` | `base64_decode(base64_encode(bytes)) = bytes` for every sequence of bytes |
| `CodecsProofs!InputsAreTyped` | `Spec => []InputTyped` |
| `CodecsProofs!FramesAreStored` | `Spec => []StoredExactly` |
| `CodecsProofs!MessagesFitOrNot` | `Spec => []MessageFits` |
| `CodecsProofs!FilteredFramesAreNamed` | `Spec => []FilterIsNamed` |
| `CodecsProofs!SignalIsReadRight` | `Spec => []SignalRight` |
| `ConfigTextProofs!ParsedIff` | for every text in which four digits stand behind every `\u`: `cJSON_Parse` stays in the memory of its strings, and takes the text exactly if a part of it from its beginning is in the grammar, or it is a string that is never closed |
| `CodecsProofs!DocumentsAreParsed` | `Spec => []ParsedIffDocument` |
| `ConfigTextProofs!InList` | for every list as `initConfig` builds it: the first entry that is the word, is empty, or is too long for `buff` decides whether the word is found, absent, or `buff` overflows |
| `CodecsProofs!ListedWordsAreFound` | `Spec => []ListedIsFound` |

*Transport* needs one inductive invariant for all of its safety properties.
`OnlyBrokenLeaks`, `LogAgreesWithSocket` and `LogAlternates` are inductive
together with the types. `RecoveryBound` is not: that at most three frames are lost follows
from *which* ones are: `MissedInv` ties the count to the socket and its link (none
while the network's verdict is still pending, at most one once `send()` has
returned the error, at most two without a socket, so that the connect may cost a
third).

*LogQueue*: `ListIntact` speaks only of states in which the mutex is free, and says
nothing in between. The invariant describes the list at each program counter of
the thread that holds the mutex (linked but not yet the tail, head advanced but
tail not trimmed), that the holder is the only thread in its critical section,
and who owns each node. It gives the three safety properties directly. For the
refinement, `PushUnlock` maps to `Put`, `PopUnlock` to `Take` when a node was
taken, `FreeNode` to `Release`, and every other step to a stutter; the invariant
supplies that the node pushed is new and that the node taken is the oldest.

*CaptureProgram*: every step of the program is a step of the queue or leaves it alone
(`Composition`), so what holds of the queue holds in the program. The two properties
of the shutdown are not inductive: they rest on who may be in the handler (another
thread only while `main` is in it too, and two threads only after two entries:
`Counted`), on how far `main` had come (`Prepared`: the thread exists only with `pd`
opened), and on what each place of the handler has already done (`Progress`: past the
first step `pd` is not open, from the join on the queue's thread is told to stop, and
whoever waits joins a thread that exists).

*ServerSlots*: without a lock, the argument is about who may still write which field
of a slot. A taken slot belongs to one connection, whose thread has not been created
or has not given the slot back (`Table`); each place of a thread says what it finds
in its slot (`ThreadHolds`: its own descriptor while it reads, none after
`sock=0`); what is open is in a slot or in `main`'s hands (`Kernel`). The handler
gets to `_stopThread` only after its join, when the thread has given its slot back
already, so it never closes anything (`HandlerHolds`). None of this needs the
absence of early reuse, which is why clients are never mixed up although buffers are.
The memory part (`Memory`) holds only while `reused = {}`: a thread that has given
back its slot but not yet freed its buffer (`Leaving`) is alone with that slot,
a slot points to its own connection's buffer, and that buffer is there unless
somebody is about to clear the field. Each of the five steps that touch memory is
then shown to fault only in a window that `FaultsExplained` names, and a fault is
the last thing that happens, so the window is still open when one looks.

*ServerProgram*: every step of the program is a step of `ServerSlots` or leaves it
alone, and the same for `Refresher`, so what is proved of either holds in the
program. `EarlyJoinExplained` rests on a thread that was never stored never having
run (`NeverPolled`) and on the slots being cleared last (`SlotsLast`).

*ConfigReload*: `OneRefresher` counts threads; the invariant says why there can be
no second: until a stop the flag is set for as long as the one thread polls, and a
reload that sees the flag set creates none (`Single`). `Named` says what `main` has
of its device at each place: until a reload its name and then its MAC, and once a frame has
gone out without a MAC, neither, because `memset` takes both; the next frame then asks for
the MAC of no device and ends the program. Lists are freed only for as long as somebody is
about to clear them (`Clearing`), so that a second `free` needs two threads in
`config_free`, and `Single` leaves only the two ways the property names. For the
refinement, the places of the reload are mapped by `Seen`; no invariant is needed
but the types.

*Induction*: the library's induction theorems take an operator as a parameter, which the
provers cannot instantiate. The same is said here with a set: a set of naturals that has
no least element is empty (`LeastNumber`, from the well-foundedness of `<`), so a set
with 0 and all successors is `Nat` (`SetInduction`). What one wants to know of every `n` is
written as the set of the `n` of which it holds. `Recursion` and `RecursionIsUnique`
say that a recursive function on `0..N` exists and is the only one that satisfies its
equation; the recursive functions of `Framing` and `Radiotap` are unfolded
by them. `Flattened` says that `FlattenSeq` is the pieces put together one after the other.

*Framing*: the only thing known about the stream is that it is the `FlattenSeq` of the
framed messages; by induction its byte at `m * FramedLength + j` is byte `j` of message
`m + 1` (`StreamBytes`), and a chunk's bytes follow. For `PiecesPrinted` the invariant is
that of the C loop (`Printed`): after `i` bytes, the pieces printed are one for each end of
a message among them, and `p_str_start` is behind the last NUL as long as at most one was
seen, and too far from the second on; `PieceStep` is one turn. `CleanIsParsed` is
inductive together with the types, because it says what is remembered. A manageable chunk
begins at offset `o` of a message and ends at offset `e`, at most one message further
(`ManageableIs`). What `strstr` finds in it is computed for each case of `o` and `e`
(`StartRead`, `WholeRead`, `MiddleRead`, `EndRead`, `NextRead`), and `do_recv`'s
four cases then give what the property says (`Reads`, `ParsedAre`).
Bodies shorter than `MY_BUFSIZ` leave room for the NUL of what is remembered
(`HadShort`) and of what is put together, which gives the last part, `~Overrun`.
The hypothesis is necessary, not a convenience of the proof: a body of exactly `MY_BUFSIZ`
bytes passes the test of `capserver.c:228` and its NUL is written behind the buffer, and of a
longer one that test throws away what is remembered. In the code `MY_BUFSIZ` is 1024
(`capserver.c:20`) and a message is formatted into 1024 bytes (`base64_buff`, `spy.c`), so it
holds for every message that fits there (`MessageFits` says which do).

*Codecs*: its properties say what functions compute, so the only invariant is that the
inputs are what the program can meet (`InputTyped`), and the bounds of the instance
(`MaxBytes`, `ByteValues`, `Fields`, `MaxExt`) are gone. `StoredExactly` speaks of the
frames whose message fits `base64_buff`, and of those it needs the round trip for what is
stored and the cases of `do_parse` for what is not. The round trip goes from three
bytes to their four characters and back (`Bits`, `GroupBack`), then to the groups that the
text is cut into (`Groups`, `GroupsOfEncoded`), with the padded last group a case of its
own. The cursor of `parseRadioHeader` and the format's `Layout` are two recursions
over the same list of fields; both are unfolded to the antenna signal, the sixth (`Places`),
and compared for every set of fields present. `FilterIsNamed` compares masks for all
256 values.

*The parser and the grammar* (`ConfigTextProofs`). A recursive function of TLA+ is only a
`CHOOSE` until something that satisfies its equation is known to exist, so the first
step, for the parser as for the grammar, is to build one. The parser at a position asks
for the parser further on in the text, or at the same position for something smaller (`Order`);
the grammar asks for shorter parts, or for a simpler rule on the same part (`Extent`). By
induction over that order there is a function that satisfies the equation up to any
bound, hence everywhere (`ParserExists`, `GrammarExists`), and the `CHOOSE` may be
unfolded (`ParserIs`, `GrammarIs`). A string is followed symbol by symbol (`WalkExists`, for
both loops of `parse_string`). The two loops are then compared from every position inside
a string (`CopyIsCounted`): the copy may lag behind the count, because what a `\u`
stands for is at most four symbols while its digits are counted one by one
(`DigitsAreCounted`), and it never gets ahead, if four digits stand behind each `\u`, for
digits are no quotes and no zeros. Both then stop at the same place. The count's way
agrees with the grammar's way of telling escaped quotes from others
(`StringIff`); a walk that ends at the zero is the string that is never closed
(`UnclosedIff`), which `parse_string` takes. `WellEscaped` is needed, not convenient: with fewer
digits and a quote the copy runs past the quote, and `ParsedIffDocument` without its premise
fails in TLC.
*Soundness* (`Sound`): what the parser takes is in the grammar, by induction from the end of
the text, because what it calls stands further on. It is stated for a value, for members
up to a bracket and for pairs together, since each needs the others. The parser passes over
blanks where the grammar has them inside the parts, so parts may be trimmed and
widened by blanks (`Trim`, `Widen`, `ListWiden`). *Completeness* (`AllComplete`): what is in the
grammar the parser takes, by induction on the length of the part. That it stops at the end
of that part and nowhere else needs that a closing bracket begins no member
(`CloseIsNoMember`). `ParsedIff` follows from both.

*Configuration files.* `File` is a `FlattenSeq` of entries between a head and a tail, and
where each entry begins is their sum of lengths (`Pieces`, `PartsAre`, `FileLaid`). On any memory that
begins with such a file the parser is evaluated from the inside out: an entry, the entries up to the
bracket by induction from the last one (`EntriesParsed`), the list, the inner object, the
pair `mac` and the whole (`FileParsed`). What stands behind the file is never looked
at, which is why the result is the same for all `Leftovers`. A file that is cut lacks
either its last bracket or the one that closes the list, and a text without it is no
object (`NoLastBracketNoObject`, `NoBracketNoObject`): here soundness is used, because the grammar
says at once what the parser cannot have taken. The buffers that
`initConfig` fills are laid out in the same way, and the look-up jumps from word to word until
one that decides (`StringListIs`, `LookupIs`, `SaidStep`, `InList`): the word itself, an empty one
or one that is too long for `buff`. `Said` is that decision as a recursion over the words, which
knows nothing of positions. The two zeros behind the last word are what keeps the walk in the list.

Only model-checked: the liveness properties, which are out of the prover's reach. No safety
invariant that a passing run checks is left without a theorem. Of the models' two
refinements both are proved.

## 6. Where code and words disagree

1. *The frame that connects is dropped* (`transport_discard`): after a successful
   connect `do_trans` returns without sending, although the log speaks of
   discarding only when it can not connect.
2. *Lost connections leak descriptors* (`transport_leak`): the SIGPIPE handler
   forgets the socket without closing it; in the end `socket()` fails for ever.
3. *A reused slot loses its buffer* (`server_buffer`): `_stopThread` clears `t`,
   which frees the slot, before it frees `pre_read_buff`.
4. *A changed file is not reloaded* (`config_missed`): an edit before the first
   poll becomes the remembered stamp.
5. *A reload forgets the device* (`config_crash`): `config_free` zeroes the whole
   structure, and the next frame copies its MAC from NULL.

Also visible in the models, though nothing in the repository says otherwise: the
third and later pieces of a chunk are printed from the wrong place
(`PiecesPrinted`); the radiotap rate is stored over the flags
(`radiotap_parse.c:44`, in `parseRadioHeader`); `getIntProperty` may read a digit
of an uninitialised buffer, which makes `do_parse` drop the frame, and so does a
database that is away for a moment (`StoredExactly`); a frame that is long enough is written
behind `base64_buff` (`MessageFits`), a word of the lists that is long enough behind `buff`
(`ListedIsFound`), and a `\u` without four digits may make the parser write behind the memory of
its string (`ParsedIffDocument`); after a stop, a polling thread may set its flag again
(`StopReturns`).

## 7. Not modelled

- Of cJSON: printing, editing, duplicating and minifying, which nothing calls; the
  value of a number and the bytes a `\u` gives, which the program does not use; running
  out of memory. What the program does after a write behind the memory of a string, of `buff`,
  `base64_buff`, `data` or `pre_read_buff`: the models say that it happens, and stop there.
- A file torn by a write during `fread` whose missing end happens to be completed by
  the rest of an older file in the same memory: it depends on where both were cut.
- `test.c`, `start.sh`, Makefiles: a manual tool, a script, builds.
- The SQL text; of `getConnection`, `mysql_query` and `initDB`, calls to MySQL, only the
  outcome.
- `utils_S2T`, the byte order conversions, the hex form of addresses: formatting
  no property is about.
- `addressIn`, `parsePacket`, `convertToBinartString`: no caller.
- `getopt`, `daemon()` and the choice of the interface in `main.c`.
- A second signal during the server's handler, and an `accept()` that fails.

## 8. Plan

Every safety invariant that a passing run checks is proved, and both refinements. What a
continuation would do:

1. An abstract server (connections that are open or closed, a bounded number of
   them) and `ServerSlots` as its implementation while no slot is reused early.
2. The two gaps at the end of section 7 (a second signal during the server's
   handler, an `accept()` that fails), which take `ServerSlots`' proofs with them.
