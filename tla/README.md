# A verification project for BGPStream

BGPStream (libbgpstream) turns dump files of BGP data, published by many route
collectors and found through a data source, into one stream of records sorted by
time.  These modules specify how it does that; TLC checks them on small
instances, and TLAPS proves the central invariants for all.

Files are named relative to the repository; `lib/` is `src/lib/`.

## 1. The system

### 1.1 Parts, state and operations

| part | source | state | operations |
|---|---|---|---|
| stream | `lib/bgpstream.c` | `status` (allocated, on, off), the managers below | create, setters, `set_live_mode`, `start`, `get_next_record`, `stop`, `destroy` |
| data source manager | `lib/bgpstream_datasource.c` | `status`, `blocking`, `backoff_time`, one data source | init, `set_blocking`, `update_input_queue`, close, destroy |
| data sources | `lib/datasources/*.c` | what was asked for and seen so far (timestamps, URL, header) | create, `update_input_queue`, destroy |
| input manager | `lib/bgpstream_input.c` | list of dump files, `head`, `tail`, `last_to_process`, `status` | `push_sorted_input`, `get_queue_to_process`, `destroy_queue`, destroy |
| reader manager | `lib/bgpstream_reader.c` | list of readers sorted by the time of their entry, `status` | `add`, `get_next_record`, destroy |
| reader | `lib/bgpstream_reader.c` | `bd_mgr`, `bd_entry`, counters, `status`; `mutex`, `dump_ready`, `dump_ready_cond`, `skip_dump_check` | create, `read_new_data`, `export_record`, destroy; the thread `thread_producer` |
| filters | `lib/bgpstream_filter.c`, `lib/bgpstream_filter_parser.c` | lists of names, prefixes, intervals; `rib_period`, `last_processed_ts` | add, validate, parse a filter string |
| records and elems | `lib/bgpstream_record.c`, `lib/bgpstream_elem*.c` | the entry a record owns, the elem generator | clear, `get_next_elem`, filter matching |
| utilities | `lib/utils/*.c` | Patricia tree, sets, peer ids, AS paths and their store, communities, IP counter | insert, remove, merge, look up, iterate |
| bgpdump | `lib/bgpdump/*.c` | the open dump | open, read next, close |
| bgpcorsaro | `bgpcorsaro/lib/*.c` | current interval, plugins and their per-interval state | per record: start and end of intervals, plugin calls |
| bgpcorsaro plugins | `bgpcorsaro/lib/plugins/*.c` | the pacifier's clock; the monitors' tables of prefixes, peers and origins | start and end of an interval, process a record |
| bgpcorsaro program | `bgpcorsaro/tools/bgpcorsaro.c` | the objects of `main`, the count of interrupts | `main`, `catch_sigint`, `clean` |
| bgpreader, pybgpstream | `tools/`, `pybgpstream/` | none of their own | command line, printing, bindings |

### 1.2 How they interact

`bgpstream_get_next_record` is a loop.  While the reader manager has no reader,
and while the input manager has no file, it asks the data source manager, which
calls `update_input_queue` of the data source; that pushes the files it knows of,
in any order, into the input manager.  In live mode ("blocking") a query without
a result is repeated after a sleep that doubles up to a limit.  The input manager
then hands out a *batch*: files from the front of its queue whose time intervals
overlap, at most 200.  The reader manager creates a reader for each file of the
batch (RIBs may be left out by the RIB period), and every reader starts a thread
that opens its dump, with retries.  The user's thread waits for each reader in
turn, reads its first entry and inserts the reader into a queue sorted by time.
From then on each call exports the entry of the first reader, reads that reader's
next entry and moves it to its new place; a reader at the end of its dump goes.

Everything but the opening of dumps runs in the thread of the caller.  The
outside world (files that appear, rows that are appended, servers that fail) runs
concurrently with it.

### 1.3 What is hard, and what makes each part correct

- **Input manager.**  Sources deliver in any order and deliver again.  The queue
  has to stay sorted (RIBs in front of updates of the same time), and hold no
  file twice although the duplicate test only sees part of it.  A batch must end
  where no file left in the queue reaches back into it.
- **Opening dumps.**  Status fields are read outside the lock, signals may come
  before the wait, opens fail and are retried, readers are freed.  No read through
  a dump that is not open, no use after free, no lost wakeup, no dump given up
  early; seen from the merge, one verdict per dump.
- **Merging.**  The queue of readers stays sorted although only its head moves.
  Each matching entry is delivered once; positions (start, middle, end of a dump)
  are right with filtered, unparsed and corrupted items in between; each entry of
  the heap has one owner.
- **RIB period.**  RIBs of a source are taken at a distance, over many batches,
  while corrupted dumps reset the distance.
- **The stream.**  Records in order of time over all sources and batches; the end
  of the stream only when everything was delivered; every call returns.
- **Setting up.**  Setters, starts that fail and starts that succeed come in any
  order; the stream has to run with what was asked for before it started.
- **Data structures.**  Long sequences of legal calls: nodes of the Patricia tree
  are re-linked, glue nodes come and go, lookups insert and remove; ids have 16 bits;
  hash values, cursors and counts are kept beside the data they are about; ranges are
  merged in place.
- **Filters and elems.**  One filter item and one row of elem slots are used over and
  over; what is left from before must not be seen.
- **Plugins.**  Metrics at the end of an interval must be those of the routes then
  visible, whatever was announced, replaced and withdrawn before; a window is kept by a
  walk that removes what it walks over.
- **The program bgpcorsaro.**  An interrupt comes between any two steps; the output is
  finalized once, and success is reported for complete output only.
- **Data sources.**  A file listed while a query runs is not missed; nothing is
  delivered twice; a failed query leaves a state from which the next continues.

`PROJECT.json` lists the hazards with their lines and the properties for them.

## 2. The modules

| module | models | state and actions |
|---|---|---|
| `InputQueue` | the list of `lib/bgpstream_input.c` | pure operators on the sequence `head -> ... -> tail`: `PushSortedInput`, `LastToProcess`, `ToProcess`, `Remaining` |
| `InputMgr` | the input manager | `queue`, `status`, `to_process` (the batch handed out); one action per function |
| `ReaderOpen` | `thread_producer`, `get_next_entry` and the code around them | the shared fields of each reader, one program counter per producer (`ppc`) and one for the user's thread (`upc`); every read and write of a shared field is a step |
| `OpenDumps` | what `ReaderOpen` promises | one verdict per dump, told to the merge in the order of the batch |
| `Reader` | one `bgpstream_reader_t` after its dump is open (or not) | pure operators: `ReadNewData`, `ExportRecord`, `SortedInsert` |
| `ReaderMgr` | the reader manager | the two loops of `add` step by step (`CreateNext`, `InsertNext`), `ExportValid` and `ExportLast` for `get_next_record`, `RecordClear`, `ReaderMgrDestroy`; `heap` is the set of bgpdump entries allocated |
| `Bgpstream` | `lib/bgpstream.c` and the data source manager, which extends `ReaderMgr`, so that its variables and theorems are the stream's own, and composes `InputMgr` by `INSTANCE` | the calls of the user, the loop of `get_next_record`, and an abstract data source |
| `CsvFile` | the CSV data source | a query row by row, while other processes append rows and time passes |
| `Broker` | the broker data source | the URL buffer as a sequence of parameters, the answer file by file (`ReadTime`, `ReadFile`), retries (`NotAnswered`, `BreaksOff`) and fatal errors (`GiveUp`), over the queue of `InputQueue` |
| `Sqlite` | the SQLite data source | `Create` writes the condition as tokens, a query binds the next window and steps through its rows while rows are added |
| `SingleFile` | the single file data source | a query looks at the RIB and then at the updates (`LookAt`, `PassOver`), while the files are replaced and cut short |
| `DataSources` | the four data sources behind `lib/bgpstream_datasource.c`, composed by `INSTANCE` | `datasource` is the interface the user set; the source behind it moves, the others were never created |
| `Corsaro` | bgpcorsaro, `bgpcorsaro/lib/bgpcorsaro.c`, `bgpcorsaro_plugin.c` and what the plugins do with their output files | `per_record` and `finalize_output` as a sequence of plugin calls, one step each (`StartPlugin`, `EndPlugin`, `ProcessPlugin`, `EndLastPlugin`), each of which may fail; the clock of intervals, the list of plugins, the rotated files and the log file |
| `RecordStream` | what `Bgpstream` promises its caller | an archive that grows, and one record of it, the end or a failure per call; no queues, readers, batches or rounds |
| `PatriciaTree` | `lib/utils/bgpstream_utils_patricia.c` | pure operators on a heap of nodes `[pfx, bit, glue, l, r, parent, user]`: `Insert`, `RemoveNode`, the searches and counts, `WalkRemoving` |
| `Patricia` | a tree under any sequence of these | the tree `pt`, next to the set `stored` of the prefixes it should hold |
| `AsPathStore` | AS paths and the store that keeps each once | a path with the fields kept beside its segments; sets of paths by their core, ids, iteration |
| `Community`, `CommunitySets` | sets of communities | array, room and hash of two sets that are filled, cleared and copied |
| `IpCounter` | the counter of unique addresses | two sorted lists of ranges, and the set of addresses `covered` |
| `HashSets` | sets of ids, strings, addresses and prefixes | two sets of one kind: buckets, cursor, counts by version, copies of strings |
| `PeerSigMap` | the map of peers to ids | both tables, the next id, the signatures allocated |
| `FilterParser` | the parser of filter strings | `[state, item, adds]`, one step per word |
| `Filter` | the filter manager and the matching of elems in `lib/bgpstream_record.c` | the manager's fields; adding a filter of each kind, checking an elem (which inserts into the tree of prefixes and removes) |
| `ElemGenerator` | the elems of a record | the slots, the number of elems and the iterator; `NextRecord`, `GetNextElem` |
| `StreamSetup` | the setters of `lib/bgpstream.c`, options and intervals | the stream's settings and the data source `bgpstream_start` makes from them |
| `Pacifier`, `PfxMonitor`, `AsMonitor` | the plugins of bgpcorsaro | the fields of each plugin; start and end of an interval, a record; the clock for the pacifier |
| `CorsaroTool` | the program bgpcorsaro | place in `main`, objects, exit code; `Sigint` at any moment |
| `Structures` | seven of the parts above side by side: `Patricia`, `Filter`, `AsMonitor`, `AsPathStore`, `IpCounter`, `PfxMonitor`, `FilterParser` | `part` chooses one of them; `Filter` and `AsMonitor` have a `PatriciaTree` in them, `Filter` a `Community`, `PfxMonitor` an `IpCounter` |
| `Library` | the other seven, about which there are proofs: `CommunitySets`, `HashSets`, `PeerSigMap`, `ElemGenerator`, `StreamSetup`, `Pacifier`, `CorsaroTool` | `part` chooses one of them |
| `QueueLemmas` | (lemmas) | `Min`, `InsertAt`, `SubSeq` as the provers need them; what pushing into and cutting the input queue does, for any set of inputs; what folding a sequence or adding up a set does, step by step |
| `InputMgrProofs`, `ReaderOpenProofs`, `BgpstreamProofs`, `DataSourcesProofs`, `CorsaroProofs`, `LibraryProofs`, `LibraryDataProofs` | (proofs) | section 5 |
| `MC...` | instances for TLC | the files, dumps and filters of each run; `InputMgr` and `ReaderOpen` need none |

Abstractions common to all: project and collector are one value `source`, since
the code only ever compares both for equality; names of files are left out; a
dump is a sequence of items (an entry with a time, something unparsed, something
corrupted), which is all that `read_new_data` tells apart; sleeps take any time.
Operators named in a comment "Mutant of X" are wrong versions of X, kept beside it
to show that the properties notice: they are used by nothing else.

Points where the models follow the code closely, and a reader might wonder:

- `Push` and `GetQueueToProcess` branch on the `status` field, as the code does,
  and not on the list: that the two agree is a property.
- A file type that is neither "ribs" nor "updates" has the empty interval [0, 0].
- `GetQueueToProcess` may hand out an empty batch (the `NULL` of the code), and
  leaves the queue alone then.
- `CheckStatus` and `CheckVerdict` read `status` without the lock.  The first of
  them races with the producer: the model gives the read every value the producer
  may have written by then.
- `ReadNext` may be repeated: entries the filter drops are read in a loop.
- `ExportLast` is the export of a reader whose last read gave no entry; its record
  tells why (empty, filtered, corrupted).
- In `Bgpstream` the data source delivers any of the published files that no
  earlier query delivered, in any order, some of them twice, and may fail after
  any of them.  Files an earlier query delivered do not come back: this is what
  the data sources are for, and `CsvFile` shows where one of them does not do it.
- `Broker`: "time" may stand anywhere in an answer, so `ReadTime` may come before,
  between or behind the files.  A file is pushed as soon as it is read: what an
  answer queued stays queued when the answer turns out broken.  A push that
  returns 0 (the file is queued already) counts as a broken answer, as in the
  code.  The broker may give any files in any answer.  One interval filter at least
  is set, as `lib/bgpstream.h:233-237` demands for the broker.
- `Sqlite`: a statement that failed is not reset; SQLite refuses to bind new values
  to it or takes them, the model allows both.
- `SingleFile`: behind its first byte a new header is not initialised, so any bytes
  may stand there; a file that cannot be read counts as no news.
- `Corsaro`: `interval_start.number` is a 16-bit number (`Number`) and wraps.  A plugin
  that ends an interval writes through its output file without a test, so a file that
  could not be opened makes the next end a crash (`Crash`); processing a record may
  write, so it may crash then too.  What the plugins compute is in their own modules.  Length 0 is
  not among the lengths: `bgpcorsaro` would divide by it, or add it for ever.
- `Structures`, `Library`: each of their parts belongs to one object and is called by one thread, so
  that calls of two parts cannot disturb each other; it therefore does not interleave
  them.  What a part is meant to hold (`stored`, `covered`, `meant`, `announced`, ...)
  is a history of the calls and is read by properties only.
- `PatriciaTree`: nodes have addresses, so that wrong links, leaks and dangling pointers
  can be told.  The walk of the AS monitor may look at a glue node that was freed under
  it; such a node has no user data, and the callback does nothing with it.
- `HashSets`: where khash puts a member, and when it moves all of them, is left open.
- `Filter`: a value is what its text denotes; an expression on AS paths is an ASN that
  has to be, or must not be, in the path.
- `ElemGenerator`: a slot is an elem with all its fields; a line of a dump sets some of
  them (`Set`), and the others stay as the slot had them.  Which elems pass is a
  parameter, since `Filter` is a part of its own.
- `FilterParser`: a word is a sequence of quotes and the texts between them, because the
  first quote anywhere in a word ends a quoted value.
- `CorsaroTool`: stream and output are objects whose calls may fail; `Bgpstream` and
  `Corsaro` are their models.
- `CsvFile` computes `begin_time - 15 * 60 - 120` modulo the word size.  A read error ends
  the file like its end (`ReadError`): the row that was begun is ended where it broke off,
  the query succeeds, and `last_processed_ts` moves.  Only a parse error and a file that
  cannot be opened fail the query (`QueryFails`).
- `Pacifier`: SIGINT may cut a sleep short at any second; the third one ends the program,
  so that two sleeps at most are cut (`HARD_SHUTDOWN`).
- `PatriciaTree` and `IpCounter`: counts of subnets and of /64 networks are taken modulo
  the size of a `uint64_t` (`COUNTBITS`, `HALF`), and `UINT64_MAX` stands where the code
  puts it.
- `AsPathStore`: the iterator is a cursor of two positions, and `IterGetPath` moves it on,
  as the code does.

## 3. The runs

Deadlock is checked in `reader_open` and in the runs of `DataSources`.  In the others a
destroyed object may stay as it is; in `corsaro` bgpcorsaro may be freed or crash; in
`library` and `structures` a caller may stop, the program may exit, or a bound is reached.

| run | instance | what it shows |
|---|---|---|
| `input_mgr` | 2 sources, 3 times, spans 0 and 2, all three types, queues up to 4, cap 3 | the queue stays sorted and without twins, and batches below the cap end safely |
| `reader_open` | 2 readers, 3 attempts each | all interleavings of two producers and the user's thread: nothing is read through a dump that is not open, nothing is touched after its free, and the threads implement `OpenDumps`, so no dump is given up early; `add` returns and producers end (`OpeningEnds`) |
| `reader_mgr` | two worlds: 3 files (2 of them RIBs of different sources), every dump content with up to 3 items in total, unreadable, empty and corrupted ones included; and 4 RIBs of 2 sources at distances 1, 2 and 3 with period 3, and updates, each dump opening or not | order, exactly-once delivery from one owner (`EntriesAreDelivered`), positions; RIBs keep their distance and are dropped for a reason only (`RibPeriodIsKept`) |
| `stream` | 4 files of 2 sources whose intervals overlap in a chain, cap 2, readable and unreadable dumps, dumps with entries out of their time, live mode and not | order of the stream, completeness at its end, every call returns, and both managers are used as `InputMgr` and `ReaderMgr` assume (`UsesManagers`: their specifications, as a property); all of it together is `RecordStream` (`KeepsItsPromise`) |
| `data_sources` | CSV and SQLite: 2 rows, 3 seconds, 2 intervals; broker: 2 files whose ends are not in the order of their times, room for 4 parameters, 2 failures; single files: headers of 2 bytes, 3 seconds | CSV: no row is missed while rows are appended, but for the first row after a failed query and rows that a read error hid behind rows no older.  SQLite: the windows of the queries leave no gap and do not overlap, until a query fails.  Broker: it asks from where it stopped, queries return.  Single files: a file that was looked at is pushed if it is a new one, and not pushed again |
| `corsaro` | 2 plugins, no intervals or intervals of 2 seconds, aligned or not, rotation never or after 2 intervals, numbers modulo 3, the times 1, 2, 4 and 9 in any order, 3 records | records are processed in their interval, whatever gap or jump is before them; plugins are told of intervals that abut, and rotate on time; no file is leaked whatever fails; without a failure nothing crashes and at most the last record is lost (`NoFailureNoLoss`) |
| `structures`, `library` | see below | one invariant per part |
| `zero_span`, `csv_idle`, `broker_retry`, `filter_exact` | | counterexamples, section 6 |

The data sources share one run because they share one manager: it chooses the
source in its initial states, so that the run explores the four of them side by side.

The parts of `structures` and `library`, what is enumerated, and what holds of each:

| part | instance | property |
|---|---|---|
| Patricia tree | addresses of 3 bits, 4 IPv4 prefixes (with bits behind the length), ::/0 and its halves, up to 4 stored, a tree of 3 merged in, 2 values of user data, counts of 2 bits | `TreeIsRight`: every node hangs where its bits tell, glue nodes branch, user data has one owner; all lookups agree with the set of prefixes, and leave the tree as it was; so do counts of subnets that fit |
| AS path store | 5 paths with sets, confederations and cut segments, 2 peers, ids below 2 | `StoreIsRight`: fields agree with segments, an id leads back to its path, an iteration meets each path once, with its id if that is asked for before the path |
| IP counter | 12 IPv4 prefixes of 3 bits, 15 IPv6 prefixes of two halves of 2 bits, in any order | `CounterIsRight`: lists are sorted, disjoint and exact; counts and overlaps are those of the addresses as far as they fit, overlaps of a /0 and of IPv6 prefixes longer than /64 excepted |
| communities | halves of 1 bit, up to 2 communities, 2 sets | `MatchIsRight`: a match means that a member agrees with the mask, and a member that agrees is found unless a half that has to agree is 0 |
| hash sets | 2 sets of 2 members in 3 buckets, every kind of set | `SetsAreRight`: members, counts, copies of strings and iterations are what calls made them |
| peer ids | 2 collectors, 2 addresses, 2 ASNs, 3 ids | `IdsNamePeers`: until ids wrap, an id names one peer for ever |
| filter parser | strings of up to 6 of 11 words, with quotes in front, behind, alone and in the middle | `ClausesAreAdded`: the filters added are the clauses up to the first error |
| filters | any 3 of 27 filters, 7 elems | `AskedElemsPass`: an elem that is asked for passes; one that passes is of the kind asked for and overlaps a prefix asked for |
| elem generator | a record of each kind, in any order | `ElemsAreTheRecords`: elems are those of the record, nothing is left from earlier ones |
| pacifier | waits 0, 2, 3 and 5 of 2 bits, 3 intervals, any delays up to time 6 | `IntervalsArePaced`: the k-th interval does not end before k waits, less one for each sleep that SIGINT cut short |
| prefix monitor | prefixes of interest of 3 bits that abut, nest or are a /0, an IPv6 /64 and a longer one; 13 elems of 2 peers, IPv6 prefixes longer than /64 among them; thresholds 1 and 2; 2 intervals | `MetricsAreCurrent`: metrics count the monitored prefixes visible now, and of those that are only compared by their upper halves (or are a /0) some |
| AS monitor | 6 records about a prefix and its halves, windows 0 and 1 | `TreeIsTheWindow`: the tree is what was announced within the window, withdrawn routes are not counted |
| setup | 21 calls, any 3 of them, starts that fail or not | `SetupIsTheUsers`: a stream that is on has what was asked for last before it was started, and its data source is made from that; nothing is said of a RIB period set while it runs |
| bgpcorsaro program | up to 2 windows, one from time 0, gap limits 0 and 1, 3 records of 4 times, 3 interrupts | `OutputIsComplete` |

Why these bounds are enough to meet the interesting cases: a scan stops at the head,
inside, at the tail, or meets a twin, all within four files; two readers are the least
at which one producer finishes while the user's thread waits for the other, and three
attempts at which an open fails, fails again and succeeds or not; an entry that is
first, last, between filtered ones, followed by a corrupted item and so on fits into
three items; a cap of 2 is exceeded by the chain of four overlapping files; three RIBs
of a source at distances 2 and 1 are dropped, taken and reset in all ways; two rows are
the least of which one is read and the other written while the query runs; a header of
two bytes has short files and mixed headers; three bits make a node with two children,
four prefixes a glue node that is made, taken over by a prefix and left
again; two ids are used up by three paths, and three ids wrap with four peers; three
words make a clause, so that six hold two of them or one with a quoted value of several
words; two failures let a broken answer be followed by another; from time 1 to 9 lie
four intervals of 2 seconds, so that a gap has empty intervals, files rotate twice and
numbers wrap. Word size and margin of `CsvFile` (16 and 2 for 2^32 and 1020) only matter
for whether the subtraction wraps.

`max_readers` is 200 in the code, `MaxRetries` 5, the backoff 30 to 150 seconds:
only the last are used as they are.

## 4. Fairness

- `ReaderOpen`: each thread runs on when it can (weak fairness), since an open and
  a sleep return; the lock does not starve a producer (strong fairness of
  `ProducerLock`: the user's thread takes the lock again and again only as long as
  it is woken spuriously); and a loop over a finite dump ends.  There is no
  fairness for spurious wakeups: nothing may depend on them.
- `Bgpstream`: weak fairness of the library's own steps, which are one thread.
  Neither the caller nor the publisher has to do anything, so in live mode
  `CallReturns` claims a return only when there is a file to deliver.
- `Broker`: weak fairness of the steps of a query, which is a loop of one thread.
  The broker is in trouble at most `MaxTrouble` times, so that it answers well from
  some time on; which files it gives is left open even then.

## 5. Proofs

TLAPS proves for every value of the constants (any number of sources, files,
readers, any times and any contents of dumps):

- `InputMgrProofs`: `TypeCorrect`, `Sorted`, `NoDuplicates`, `StatusAgrees` (the
  branches of push and get on the status field are right), `CutsAreSafe`. The inductive
  invariant is the conjunction of types, order, absence of twins and agreement of the
  status. They need each other: the duplicate test looks only at the files in front of
  the insertion point, and `InsertPosSplits` shows that a twin cannot stand behind it
  *because* the queue is sorted; inserting keeps the order because the first file that
  stops the scan is the first of a tail of files that all may follow. `CutsAreSafe` uses
  the order too: `set_last_to_process` compares the interval of the next file only, and
  all others are at least as late as that one. Assumptions: times and spans are natural
  numbers, the cap of readers is positive.
- `BgpstreamProofs`, about the reader manager: `TypeCorrect`, `Sorted`, `NoneFinished`,
  `StatusAgrees`. The inductive invariant adds to these that the contents of dumps do
  not change and that the readers just created have read nothing (`Fresh`): a reader
  that has given an entry ends with END_OF_DUMP, and only one that has given none may
  end with another status *and* be queued. That moving only the head keeps the order
  rests on two lemmas: taking the head off leaves a sorted queue, and a head whose time
  did not change may stay. `EntriesDelivered`: every matching entry comes out exactly
  once, and each entry of the heap has one owner. What came out of a file depends on
  where the file is, so the invariant `Progress` first says that it is in one place
  (`Places`: it waits for its reader, its reader waits for its first entry, or the
  reader is in the queue); then that a reader holds the entry it stands at and has
  counted those before it (`ReaderIsAt`), that what came out of its file is what was due
  before that entry (`Behind`), that the record the user holds is the last one exported,
  and that the heap is what readers and record hold. `Positions` follows from the same
  invariant: a reader whose first entry is exported has exported nothing, and one whose
  next read ends the dump has nothing left to deliver. `RibPeriod`: `LastTsIsRight` says
  that the time kept for a source is that of the latest RIB taken from it, or the 0 of a
  reset, and that only a corrupted dump explains a reset. Assumptions: file times are
  natural numbers, dumps are sequences of items, the RIB period is a natural number.
- `BgpstreamProofs`, about the stream: `ManagersAreUsed`, that the stream implements `InputMgr` and
  `ReaderMgr`, so that all of the above holds within it.  The step that needs an
  invariant is the hand-over of a batch: `ReaderMgr` assumes sorted batches without twins
  of files that were never offered before.  Hence the queue of the stream stays sorted
  and free of twins (`QueueInv`, by the lemmas of `QueueLemmas`); the files in it
  were delivered and not offered, and a file that was offered stems from an earlier query
  (`RoundsInv`), so that the data source cannot deliver it again, also when a query failed
  half way and its files wait for the next call; and a destroyed stream is not used
  (`LifeInv`).  Assumption: the files are inputs with natural times and spans.
  `StreamDelivers` says which invariants of `ReaderMgr` the stream has by that.

  `Ordered`: records come out in the order of time, over all batches.  It takes three
  facts about a record that went out, for well timed dumps: it is not later than what the
  readers hold, than the files that wait for a reader, and than the files still queued
  (`Precedes`), unless these stem from a later query.  The first is kept by the order
  of the readers, since the next entry of the head is not earlier than the head; the second
  holds because all readers of a batch have read before the first record goes out
  (`QuietInv`); the third needs that the whole batch is ahead of the rest of the queue
  (`BatchIsAhead`): a cut that the cap on readers did not make leaves a file whose interval
  starts where those of the batch have ended (`CutIsAhead`), and the queue is sorted.
  `TimesInv` ties the time of a reader to the entry it holds, which is where the invariants
  of `ReaderMgr` come in (`ReaderIsAt`).  A push makes no difference, because the data
  source is asked when no reader is left and what it gives belongs to a later round.

  `EndsComplete`: the stream ends only when everything went out.  A file delivered by any
  query is in the queue or was taken from it, or the twin is that the queue kept
  (`IsKept`, from `PushKeepsQueue` and `CutKeepsQueue`, which lose nothing), and what was
  taken has its reader, waits for it or has given a record, unless the RIB period
  dropped it (`KeepInv`).  At the end the queue is empty and no reader is left, so a
  record went out, and by `EntriesDelivered` all of its dump.

  `PromiseKept`: the stream implements `RecordStream`, which has none of its machinery.
  What the caller sees of a file is read off the records it was given: the entries that
  are wanted (`Due`), those that came out (`Given`), and whether a record without an
  entry was among them (`Closed`).  A step of the library that exports nothing is a
  stutter.  That a record with an entry is the next one of its file, and that one
  without stands behind them all and comes once, is `Progress`, part of the invariant
  `MInv` of managers and stream; that the file was published is `PublishedInv`; and
  that the end leaves nothing out but what may be left out is `KeepInv` again, with a
  reader that is gone having given all of its dump.
- `ReaderOpenProofs`: `TypeCorrect`, `OnlyOpenDumps`, `NothingFreedUsed`, `GivenUpLast`,
  and `Refines`, that the threads implement `OpenDumps`.  The inductive invariant has
  four parts: how far a producer has come tells what it has written (`ProducerInv`); a
  reader lives from its creation until it is freed, behind its producer (`ObjectInv`);
  what the user's thread knows of its reader after the handshake (`UserInv`); and that
  the batch is read in its order, so that afterwards every reader has its result
  (`OrderInv`).  The lock does not occur in it: what a producer writes is written
  once and in one order, so that a stale read of `status` is still right; the lock is
  there for the wakeups, and these are a matter of liveness.  The refinement needs the
  invariant in one place: the cases of the mapping exclude each other because a dump
  that was given up is not open.  Assumption: at least one dump and one attempt.
- `DataSourcesProofs`, one invariant per source: `CsvComplete` (while a query runs, the
  rows it has read were pushed or were up to date for an earlier one, `CsvReadSoFar`, rows
  stamped with the current second are ahead of `last_processed_ts`, `CsvClock`, and a
  wanted row that `last_processed_ts` rules out was pushed or stands behind a read error,
  `CsvRuledOut`),
  for intervals that do not begin within 1020 seconds of the epoch (`IntervalsDoNotWrap`:
  the code subtracts them in 32 bits; section 6); `SqliteTiles` (a row of the
  windows so far was pushed once or is still to be given by the statement, and no other
  was, `SqlitePushes`); `BrokerAsks` (between queries the buffer of parameters is empty);
  `SingleFileOnce` (a file that was not replaced begins with the header remembered).
  `SourcesAssumption` only has the types of the constants.
- `CorsaroProofs`: `RecordsInTheirIntervalHolds`, `FilesAreKeptHolds`.  The first rests
  on where the clock stands while `per_record` goes through the intervals of a gap
  (`ClockInv`): an interval ends at a report that the record has reached, and the next
  starts there, so the loop can only stop in the interval of the record;
  `FirstReportFits` shows that rounding the first report down leaves it behind the
  first record.  For the second, `bgpcorsaro_free` closes only files of plugins on
  the list, and the list shrinks when it starts; `IInvFiles` says that plugins off the
  list, and all plugins before the start, have no file.
  `NoFailureNoLossHolds`, `RotatesOnTimeHolds` and `IntervalsAbutHolds` are about what each
  plugin was told, and share `IInvCalls`: plugins in front of the one whose turn it is are
  a call ahead of the others (`Told`), have their file open inside an interval
  (`OpenInside`) with as many intervals in it as have passed since the last rotation
  (`FileCount`), and the flag that decides whether the end is dumped may miss only the
  record being processed (`FlagInv`).  Assumptions: lengths are not
  0, times are natural numbers, there is at least one plugin.
- `LibraryProofs`: `PeerIdsLeadBack` (both tables are inverse to each other and hold what
  was returned; that they have the same size shows the next id is free until it wraps);
  `MatchIsExact` (array, hash and room belong together in both sets, after all
  operations: a hash that lost a bit would hide a member; what a half that is 0 does is left
  open, section 6); `PacifierPaces` (the ends so far are paced, but for one wait per sleep
  that a signal cut, and `tv_start` is the last of them).

  `OutputHolds`: while the program runs, what it handed to the library is what the stream
  returned from its minimum time on, but for the record at hand (`HandedIsGot`); at most
  one record comes after an interrupt, because `shutdown` is read once a round
  (`LateIsOne`); and an exit code other than an error comes behind the one place that
  finalizes (`ToolEnds`).  `SetupHolds`: before and after the start, each field of the
  stream is what the last call about it asked for, the intervals in the opposite order of
  their calls (`SetupIsAsked`), and there is a data source, made of these fields, exactly
  while the stream is on (`SourceIsMade`).

  Assumptions: `LibraryAssumption` and `SetupAssumption` have the types of the constants.
- `LibraryDataProofs`, about two more parts of `Library`: `ElemsHold`: a slot is a
  line's fields laid over what an earlier line may have left there (`Reused`), because a
  slot that is used again is cleared and every line sets the fields that mean something
  for its type (`IsLine`). `PopulateFills` shows that the generator holds one such slot
  for each line, `PassedGrows` that the elems which pass among the first lines stay when
  further ones are added, so that those given are the ones that pass up to the iterator
  (`GivenHavePassed`).

  `SetsHold`: each member stands in one bucket, however khash arranged the table, and the
  counters are those of the members (`IsSound`); what was told is what stands in front of
  the cursor (`Tells`), so that it is everything when the cursor is behind the last
  bucket.  Merging is a fold over the buckets of the other set (`MergeIsFolded`), each step
  of which inserts into all tables that may have come about (`MergeKeeps`).  Only a set
  of strings owns copies, and it has no counters (`KindFields`): the one kind that can
  remove a member need not count it down.

  Assumptions: `SetsAssumption`, that a member is an IPv4 or an IPv6 one and not the
  mark of a free bucket. `ElemsAssumption` says that the lists of a record are lists,
  and that the filters look at no field the elem did not set:
  `bgpstream_elem_check_filters` (`lib/bgpstream_record.c:161-310`) leaves for a peer
  state before it looks at the prefix, and for a withdrawal before the path, and never
  looks at next hops and states.

`QueueLemmas` has what the proofs about folds rest on.  Its induction is over the numbers
up to a bound, as a least counterexample (`CountingUp`), which takes a set and not an
operator as parameter.  `Folded` is the last value of a function that starts at the base
and goes on step by step (`Steps`); `StepsExist` and `StepsAgree` show that there is one
and that all agree, `FoldedAppend` what one more element does.  `SetFoldIsFolded` ties
it to the function that the fold of the community modules chooses, so that a
definition with `FoldLeft` needs no change to be proved about.

`TypeOK` in `ReaderMgr` does not speak of the history variables; they are not
needed for what is proved.

`TypeCorrect`, `StatusAgrees`, `NoneFinished` and `GivenUpLast` are not repeated as
invariants of runs: they are proved for every instance, and the properties the runs
check rest on them.

Only model-checked:

- everything about liveness (`OpeningEnds`, `CallReturns`, `BrokerQueryReturns`), which is
  out of reach of this prover;
- the parts of `Structures` with a Patricia tree (`TreeIsRight`, `AskedElemsPass`,
  `TreeIsTheWindow`): walks over a heap of nodes are recursive functions, and what they
  compute needs induction over trees that are linked by addresses and change while they
  are walked;
- `StoreIsRight`, `CounterIsRight`, `ClausesAreAdded` and
  `MetricsAreCurrent` of `Structures`, which would need induction over segments, merged
  ranges, words and sums over tables.  The lemmas on folds would carry some of
  them further; `SelectSeq`, and functions joined by `@@`, are opaque to the provers.

`CsvPushedOnce` does not hold (section 6).

## 6. Where the code and its own words disagree

| run | what TLC shows |
|---|---|
| `zero_span` | a file with time span 0 (or of a type that is neither ribs nor updates) at the head of the queue gives empty batches for ever, and `bgpstream_get_next_record` does not return, although `lib/bgpstream.h` lists its return values |
| `csv_idle` | a query of a CSV file that finds no new row forgets `last_processed_ts`, and the next one delivers all rows again |
| `broker_retry` | an answer of the broker that breaks off behind a file is asked for again, but that file is now queued, so the whole answer is taken for broken too, and the query never returns |
| `filter_exact` | the nodes of the filters' Patricia tree do not keep `allowed_matches` (`patricia.c:187`), so that `prefix exact` (`src/FILTERING:45-47`), `more` and `less` all let through what `any` does |

Also met while modelling; the modules behave like this, but no run is about it:

- `bgpstream_start` returns 0, "started successfully" (`lib/bgpstream.h:345`), on a
  stream that was stopped, and starts nothing (`Start` of `Bgpstream`).
- A query of the CSV file that fails within a row leaves its field counter behind
  (`csvfile.c:311`), and the first row of the next query does not count as complete.
  `CsvNothingMissed` excepts that row.
- A read error of the CSV file is taken for its end (`csvfile.c:309`): the query succeeds,
  `last_processed_ts` becomes the maximum of what was read, and rows behind the error that
  are no newer are never delivered.  `CsvNothingMissed` excepts those rows.
- An interval that begins less than 17 minutes after the epoch (such as 0 for
  "everything") wraps around at `csvfile.c:197` and matches nothing.
- A query of the broker that is given up leaves its parameters in the URL
  (`broker.c:662`); the next one adds them again.
  `BrokerAsksFromWhereItStopped` holds until then.
- The SQL text for an interval without an end is not well formed (`sqlite.c:199`), and
  a live stream over SQLite cannot be created (`Create` of `Sqlite`).
- After an error while stepping (`sqlite.c:277`) `current_ts` has moved and the
  statement is not reset: the rest of the window is not asked for again.
- A single file cut short to a prefix of the one before is taken for the same file
  (`singlefile.c:101`).
- `interval_end_needed`, "whether there are un-dumped records in the current interval"
  (`bgpcorsaro_int.h:208`), is set before the loop that ends intervals and clears it
  (`bgpcorsaro.c:627`), and the record that ended one is processed after both.  If it is
  the last one, `bgpcorsaro_finalize_output` does not dump it; `NoFailureNoLoss` excepts it.
- If the log file cannot be opened for an interval, `start_interval` frees bgpcorsaro
  (`bgpcorsaro.c:252`), which `bgpcorsaro_per_record` goes on to log through, and does
  not free "in case the client wants to try to carry on" (`BeginStart`).
- A plugin may be enabled again with new arguments according to
  `bgpcorsaro_plugin.c:448-449`; the assertion at line 458 stops that (`EnablePlugin`).
- A first output file that cannot be opened, and a finalize after it, end an interval
  through a file that is NULL (`EndLastPlugin`).
- The elems of a record are taken from it by the first plugin that asks; the next
  plugin (`asmonitor.c:781` "process all elems in the record") gets none.  An elem with
  a set as its origin ends the processing of its record (`asmonitor.c:797`).
- Filters on AS paths and communities are not looked at when there is one on prefixes, nor
  those on communities when there is one on paths (`bgpstream_record.c:215`), while
  `src/FILTERING` has all terms match (`ElemCheckFilters`).
- A filter on a prefix at which a glue node stands keeps its kind of match
  (`patricia.c:632`), unlike all others.
- A community that is not well formed leaves an empty table (`bgpstream_filter.c:147`), and
  no elem passes any more.
- `communities_hash` rules out a half that is 0 (`community.c:389`), so that a member with
  such a half is not found, while `community.h:297-315` documents
  `bgpstream_community_set_match` for any community; `MatchIsRight` says nothing of these
  halves.  `bgpstream_community_set_equal` has the result of `bcmp` the wrong
  way round (`Community`).
- The first word of a quoted value is added as a filter of its own when the value
  goes on (`bgpstream_filter_parser.c:346`, `ClausesAreAdded` excepts it).
- `bgpstream_patricia_prefix_count` does not go down when a node with two children is
  removed (`patricia.c:808-822`), and grows when a prefix comes back there.
- A list of ranges that covers all IPv4 addresses counts as 0 (`ip_counter.c:526`), so that
  `-l 0.0.0.0/0` alone is refused by the prefix monitor, and so do ranges that cover all
  /64 networks, `::/0` or `::/1` and `8000::/1` (line 541): the sums are in 64 bits.
  `CountsAreRight` speaks of counts that fit.
- IPv6 overlaps compare halves one by one (`ip_counter.c:454-491`): of a prefix longer than
  /64 the monitor may count one that only shares its /64 with a prefix of interest, and
  miss one that lies within it; with `-M`, a /64 passes as more specific than a longer
  prefix in it.  `MetricsAreCurrent` allows both for these prefixes, and `OverlapsAreRight`
  has an upper bound for them.
- The number of /64 subnets of all IPv6 addresses does not fit 64 bits: `::/0` gives
  `UINT64_MAX` (`patricia.c:277-282`), `::/1` and `8000::/1` give 0.  `AnswersAreRight` speaks
  of counts that fit.
- `bgpstream_as_path_store_iter_get_path` moves the iterator on (`as_path_store.c:340`), so
  that `iter_get_path_id` behind it gives the id of the next path, or one of no path, while
  `as_path_store.h:194-208` calls both those of the current path.  `IterationIsComplete` is
  about callers that ask for the id first.
- What follows the end quote in its word is dropped, and a quote in the middle of a word
  ends a quoted value too (`bgpstream_filter_parser.c:176-181`); `ClausesAreAdded` takes this
  for the language.
- SIGINT cuts the sleep of the pacifier short (`pacifier.c:285` ignores what `sleep` returns),
  and the interval ends before its time; `IntervalsArePaced` allows one wait for each.
- Peer ids wrap after 65536 peers (`peer_sig_map.c:107`).
- The wait of the pacifier is a `uint8_t`: 256 seconds are none.
- An option of SQLite falls through into the options of the broker and sets its URL
  (`bgpstream_datasource.c:164`), while lines 124-125 say it has no effect.
- `bgpstream_add_recent_interval_filter` with more time than there has been since the epoch
  wraps around (`RecentStart`).
- The program bgpcorsaro forgets a window that starts at 0 when another follows
  (`tools/bgpcorsaro.c:626`), and leaves by the gap limit, a failed record or an error of
  the stream without finalizing its output (lines 685-705).
- `lib/bgpstream.h:200-202` says the RIB period can be changed at run time, while
  `bgpstream.c:214` ignores calls once the stream is on.  `SetupIsTheUsers` says nothing of
  the RIB period after such a call.

## 7. Not modelled

- Failed allocations and failed thread creation, on which the code gives up.
- Parsing of MRT and BGP messages by bgpdump: byte-level decoding.
- Names and descriptions of data interfaces and options.
- Quoted fields of a CSV file, and what a parse error leaves in the CSV parser.
- Rows of a CSV file that are appended piecemeal, so that a query sees half a row,
  and rows stamped with a second that is already over when they are written.
- Text: printing and parsing of addresses, prefixes, paths, communities, records and
  elems; how regular expressions match; names and layout of metrics.
- bgpdump itself (3300 lines of byte-level decoding); `Reader` has what it returns.
- bgpcorsaro's output and log files below their opening and closing; bgpreader, a loop
  over two calls of the library; the Python bindings, which call it one to one.

`PROJECT.json` lists each part with its status.

## 8. Plan

Done: `InputQueue`, `InputMgr`, `ReaderOpen` with `OpenDumps`, `Reader`,
`ReaderMgr`, `Bgpstream` with `RecordStream`, the data sources composed in `DataSources`,
`Corsaro`, and the parts of `Structures` and `Library`; proofs for the two managers and
the stream that uses them and its promise, `ReaderOpen`, the data sources, `Corsaro`, and
the seven parts of `Library`.

What would come next:

1. `CounterIsRight` with the lemmas on folds, as `SetsHold` has them for merging two sets:
   merging two lists of ranges is a fold over ranges.
2. More about failures in `CorsaroProofs`: what still holds after a call failed.
3. `Passes` of `ElemGenerator` as the filters of `Filter`, in one module.
