# Verification of the simgps server

This directory holds TLA+ models of the GPS time-series server of this
repository ("tidedb-server", C++11), TLC configurations that check them on small
instances, and TLAPS proofs about them. Paths such as `tide_persisitence.cpp`
are below `src/src/`, headers below `src/include/`.

## 1. The system

A device sends records (id, time, latitude, longitude, extra text) over a binary
TCP protocol or over REST. The server keeps the recent records in memory, moves
them to history files in passes, answers queries over both, counts records per
device, and publishes records that match subscriptions through redis. It is one
process with these threads; **there is no lock anywhere on the shared state**:

| thread | started by | work |
|---|---|---|
| persist | `GpsInit` (`tide_server.cpp:192`) | `CPersisitence::Core`: passes over the double buffer, each with three child threads |
| statistic | `:229` | every 10 s looks whether an interval or a day is over |
| clean | `:235` | deletes history files older than the configured days |
| REST | `:240` | one mongoose event loop; runs every REST handler, readers and writers |
| binary | `:245` | one epoll loop; reads packets, writes records |
| pub/sub | `:250` | owns the redis connections, starts the publisher thread, handles subscriptions |

Startup is sequential in `GpsInit`: id file, temporary logs, last data,
statistics file, device information, then the persist thread, *then* the initial
statistics, then the servers. A thread that gives up kills the process.

### Components

| component | state | operations | hard behaviour | correct when | modules |
|---|---|---|---|---|---|
| double-buffered store | two temporary logs, two maps, the two "current" pointers, history files | write (binary, REST), pass, three children, recovery | unsynchronised swap, late writers, crashes | no record whose write returned is lost; none is filed twice without a restart; the two pointers stay a pair | `TideStore` |
| last data, running totals | `m_lastdata`, `m_statisticdata`, `m_EachTotalData` and their files | updated by a child, by writers, at startup | rewritten in place, counted in two places | last position never regresses; totals count each record once | `TideStore` |
| queries of newest positions | none (read the maps and the last data) | last position, real-time, around, online, distance | read while a pass moves records | what is reported was true when the query began, or came later | `LiveMaps`, `RealQuery` |
| locus and around files | per-hour files, with index entries or by cell | append by children, read by queries | segments, 16-bit loop counter, hour granularity, reading beside passes | what is written is read back, in order, once | `LocusFile`, `AroundFile` |
| publish/subscribe | bounded queue, subscriptions, subscription file, redis connections | push, pop, subscribe, unsubscribe, reconnect | several threads, drops, reconnects | a matching record is published at most once per subscription; a restart restores the subscriptions | `Subscriptions`, `PubSub`, `LossyQueue` |
| device id register | id map and append-only file | insert, load | two writers, crash between log and register | an id is in the file once | `GpsidWriter` |
| device information | map and append-only file | update, load, compaction | crash during compaction | the last value of an id is the one loaded | `GpsInfo` |
| statistics | per-device and total windows of bounded length, day files | timers, window push, queries | timer catch-up, counting beside the iteration, descriptors, loop bounds | windows in step, a day's file counts that day | `Statistic` |
| binary server | connections, events, one shared buffer, the largest hour | accept, read one packet per edge, reply | edge triggering, time-outs, closes | every complete packet is written once and answered | `BinaryServer` |
| cleaning, dates | file names | list, compare dates, delete | a minute that is missed, month ends | only files older than the limit are deleted, and those are | `Calendar`, `Cleaning` |
| configuration | one `FILE*` | section/key look-up | shared file offset | every thread gets its own value | |
| REST server, pure helpers | none | parsing, url coding, pattern match, geohash, lists | boundaries | agree with a reference definition | |

Interactions: the writers (binary, REST) call, for each record, the id register,
the publish queue, the totals, the current log and the current map. The persist
pass reads the retired map and writes files; queries read the maps, the last
data and the files. The pub/sub thread and the statistic thread only share their
own structures with the writers. `PROJECT.json` lists every component with its
files and every hazard with its line.

## 2. What is modelled

### TideStore (module `TideStore`)

The storage core: everything between "a request arrived" and "the record is in
the history files", including recovery.

| model | code |
|---|---|
| `tempLog[b]` | contents of `TEMP_LOG1`, `TEMP_LOG2`, per device (the relative order of lines of different devices is never observable) |
| `mem[b][k]` | `m_umGpsInfo1/2`: the vector of device `k`; an absent key is the empty vector |
| `logfd`, `active` | `m_pLogfd`, `m_pumGpsInfo`, as the number of the buffer they point to |
| `locus[r]`, `around[r]` | how often record `r` was filed by each child |
| `lastdata`, `statisticdata`, `bakData`, `eachTotal` | the maps of the same names |
| `wpc`, `wreq`, `wfind` | a writer's program counter, the rest of its request, its iterator: `NotFound`, a buffer, or `Dangling` after `clear()` freed the vector |
| `ppc`, `pfile`, `pmem`, `cpc`, `visited`, `must` | the persist thread, its locals, its children, and which keys each iteration has met and must meet |
| `crossing`, `stored`, `exempt` | history: writers between log and map at a swap, records whose write returned, records that met a race |

Actions: `LoadFiles` and `InitStatistic` (the two ends of `GpsInit` around the
start of the persist thread), `Crash`; per writer `Receive`, `WriteLog`,
`Register`, `FindVector`, `StoreRecord`, in the order of the binary server (log
first) or of REST (log last); `StartPass`, `SwapLog`, `SwapMem`,
`JoinAndTruncate` for `Core`; `MemToLocusFile`, `MemToAroundFile`, `MemToLast`
per visited device, `FinishScan`, `OpenLastFiles`, `WriteEachFile`,
`WriteLastFile`, `ChildFails`.

Granularity. `find`, `push_back`, `insert`, `clear` and one `write(2)` are atomic
steps; the reads of the two current pointers and the two assignments of the swap
are separate steps, because that is where the interleavings matter. What
concurrent access to one `unordered_map` does inside the library is not
modelled, except for its visible outcomes: an insert refused because the key
appeared meanwhile, an iterator whose vector was freed, a key inserted during an
iteration that may or may not be met. A history file receives all records of a
visited vector at once; the distance filter (`IS_PRESS`) that may drop a record
on purpose counts as filing it. A whole small file is written in one step, so
only the window between its truncation and its rewriting is a crash point.

The named races (`exempt`). The code has no lock, so some records may be lost;
the properties say *exactly* which. A record is exempt when
1. its writer was between the log write and the map insert while the map was
   swapped,
2. its writer lost the first insertion of a device to another writer, or held an
   iterator into a map that was cleared,
3. it was in the older of two non-empty logs found at a restart and not filed,
4. a child thread failed to open a file before it reached the record.

Every other record whose write returned is durable.

Properties of `TideStore`:

| property | kind | meaning |
|---|---|---|
| `Durable` | invariant | a stored, non-exempt record is in both history files or in a log, at every point, also while the process is dead |
| `Reachable` | invariant | while the process runs, it is in the history files or in a map |
| `StoreInv` | invariant | the inductive strengthening, see section 4 |
| `DuplicatesBounded` | invariant | a record is filed at most once more than the process was killed |
| `StatisticsMatchLocus` | invariant | between passes, the counts of one child equal what another child filed |
| `TotalsAgree` | invariant | at rest, the running total equals counted plus in memory |
| `LastPosNeverRegresses` | action property | the answer of `query_last_pos` changes only to the record being stored; also after a restart, but for the first pass after one that found two logs |
| `EventuallyFiled` | liveness | a stored, non-exempt record reaches both history files |
| `LastFilesCurrent` | invariant | the files of last data and statistics are what the memory holds, except while the child is at work; a kill in that window loses what it had not rewritten |
| `MapsAsSeen` | refinement | `TideStore` implements `LiveMaps` (module `TideStoreMaps`) |

### What readers see of the store (modules `LiveMaps`, `TideStoreMaps`, `RealQuery`)

`LiveMaps` is the store as a reader of newest positions meets it while the process
lives: two maps, which one is current, and `m_lastdata`. Storing is one step, a
pass is `BeginPass` (clear the idle map), `SwapMem`, one `MemToLast` per device
and `EndPass`. `MapsAsSeen` shows that `TideStore` implements it (`pass` is a
function of the program counter, `moved` what the child of the last data has
visited, `raced` that some record is exempt), so what is checked on top of
`LiveMaps` holds of the store without its detail. It is checked without kills and
failing children: after either the maps are not those of `LiveMaps` any more.

`RealQuery` runs one query of any kind on top of it. `Plan` gives the order of
steps of each: `query_last_pos` and `query_real_pos` scan the current map before
they look which one is the other; devices online, around a place, around a device
(`bykey`) and the distance of two look before. `Ask` is the request and the first
look, `Scan`, `Meet` and `EndScan` an iteration, `Find` and `FindElsewhere` the
look-up of a device. What clears or extends a container under an iteration may
end the query (and, in the code, the process).

* `AnswersFresh`: each device is reported with the position that was its last
  when the query began, or one stored since; so is each look-up. `split` names the
  exception: a swap between the two looks at the pointer sends a query of the
  second kind to one map twice.

### Device id register and information (modules `GpsidWriter`, `GpsInfo`)

`gpsid_map` and `gpsid_file` are `m_gpsid_map` and the file `gpsid`; a writer
does `Receive`, `WriteLog`, and `InsertGpsIDMsg` as `Find`, `Insert`, `WriteGpsId`,
the binary one in the order log, register, the REST one register, log
(`data_writer.cpp:122-124`, `282-291`). `Start` loads the file or goes on without
it; `Crash` kills the process. The map has no lock: an insertion that overlaps
another may leave any elements unreachable, and a look-up that overlaps an
insertion may miss.

* `LoggedIsRegistered`: a device with a record in a log is in the id file, or a
  thread is just registering it, or a kill, a closed file or a failed write
  caught it (`exempt`);
* `ListedIsKept`: a listed id is in the file or about to be, or met a failure of
  the file;
* `OnceUnlessRaced`: each id is once in the file (`KeptOnce`) and every id of the
  file is listed (`RegisteredIsListed`) until a look-up overlaps the insertion of
  the other thread (`raced`). Then two writers may both miss a new id and append
  it twice.

`GpsInfo` extends `GpsidWriter`, whose threads run beside it, with `m_gpsinfodata`
and its file: `Load`, one `CompactLine` per device and `Rename` for
`GpsInfoToMem`, `WriteInfo` and `AppendInfo` for `write_gpsinfo`. The REST thread
does one or the other of its two jobs at a time. A value is characterised by how
its line reads back: whole, cut at a blank, or not at all without a comma. The
list of column names, which only formats queries, is left out.

* `InfoKept`: what a client last wrote of a device is what queries find, across
  kills at any step of the compaction, if the value reads back as it was and its
  append did not fail.

### Publish and subscribe (modules `Subscriptions`, `PubSub`, `LossyQueue`)

`Subscriptions` is the table `m_subscribe_cons` (`table`) and its file
(`subfile`): `Load` for `init_subscribe_file`, `parse_subscribe_conditon` for
one message, then `OpenSubscribeFile` and `WriteSubscribeFile` for the
truncation and the rewriting of the file, `Kill`. A condition is the set of
records it selects. The losses that `SubscriptionsKept` names:
1. a polygon is stored with a type that was never set and is not saved;
2. a rectangle is read back into an object of the size of a circle, so what it
   selects afterwards is arbitrary;
3. a line of 4096 characters or more ends the reading of the file;
4. the file does not open, or a kill comes before the request is written, or,
   between truncation and rewriting, before any is.

`PubSub` extends it with the queue and the threads around it: `PushBegin` (the
comparison of the size) and `PushEnd` (the append) of `push`; `CheckLink`,
`Front`, `Pop`, `Scan`, `publish_msg` for one round of `publish_work_thread`;
`connect_redis`, `start_publish_work`, `Disconnect` for `start_pubsub_service`.
Messages are handled only while the loop serves, and they change the table under
the iterations of publishers, which from then on may go anywhere
(`disturbed`). A publisher that is blocked in a redis command may outlive a
reconnect and run beside the new one; any other has ended, because a connection
takes at least the 3 seconds of `start_pubsub_service`, and a publisher looks at
the link at least every second. A pop of the empty queue makes its size
negative, as in the deque of libstdc++.

* `SubscriptionsKept`, `FileKeepsWanted`: see above;
* `SizeBounded`: the size is at most the limit plus one record per writer but
  one, and not below minus the number of publishers but one;
* `PublishedToSubscribers`: a record goes to exactly the customers whose
  condition selects it, if the table did not change meanwhile;
* `PublishesInOrder`: with one publisher, the system implements `LossyQueue`: in
  order, each record at most once, bounded;
* `QueuedIsTaken` (liveness): a queued record is taken out, whatever connections
  are lost in between.

With two publishers `PublishesInOrder` does not hold: both may copy the same
front and then pop two records.

### Locus files and history query (module `LocusFile`)

`locus[f]` and `index[f]` are the lines and the entries of the two files of an
hour and a hash bucket. The child of a pass takes a device (`NextKey`), opens a
segment when the hour of the day changes (`OpenSegment`, which first writes the
entry of the segment before), writes its first line with absolute values
(`WriteBase`) and the others relative to it (`WriteDelta`), drops what the press
filter finds near (`PressRecord`), and writes the last entry (`FinishKey`).
The query is `StartQuery`, one `ReadHour` per hour, `FindVector` and
`ScanVector`. Records arrive (`Store`) and passes run (`BeginPass`, `EndPass`)
at any moment; `Kill` restarts from the logs. The writers' own races belong to
`TideStore`; here logging and storing is one step, so the retired map is at rest
while it is filed. A query whose vector is extended or cleared under its iterator
ends as `"undefined"`: nothing is said about it.

* `SegmentsWhole` (in `LocusInv`): an index entry stands for a whole segment of
  its device which its first line decodes, and no line is in two;
* `AnswerSound`: every row of an answer is a record of the device, in range,
  with its own time and position;
* `AnswerFollowsArrival`: rows come in the order of arrival, none twice;
* `FiledIsReturned`: what was indexed when the query began is returned, whatever
  pass runs meanwhile;
* `QuietAnswer`: a query that overlaps no pass returns its page of exactly the
  records in range. (A query that does overlap one may miss the records on their
  way from the map to the file: the code looks for them in neither.)
* `PressedNear`: a dropped record is near the last one kept.

`AnswerFollowsArrival`, `FiledIsReturned` and `QuietAnswer` are about devices whose records arrive in the order
of time and that no kill met in the middle of a pass. Three kinds of records are
not found again, and `QuietAnswer` names them (`Unreadable`): those dropped by
the filter, those after a file that did not open, and those of an hour that
follow, in the vector, records of the same hour of another day, which are written
to the file of that day (`tide_persisitence.cpp:205`).

### Around files and their query (module `AroundFile`)

It extends `LiveMaps` with the around child of the pass and the query of the
devices in an area during a period. `WriteRecord` appends one record to the file
of its hour and cell (`Target`: another file when the hour of the day or the cell
changes), `OpenFails` ends the child. The query is `Ask`, one `query_mem` per
device of the current map, from its last record back, then `ReadFile` per cell
and `EndHour` per hour, from the last hour down through the numbers that are no
hour. `Fault`: the array `iOffsets` has one element fewer than there are files
(`hisaround_query.cpp:242`, `302`); with the flags of the Makefile some compilers
place the names of the files behind it.

* `FiledIsSeen`: whatever is stored and filed meanwhile, the answer has of each
  device of the area a record not older than any that was filed when it began;
* `AroundNewest`: a query that overlaps no pass reports the newest in the period.

Both are about devices that send in the order of time and have no record of the
hour of the day and the cell, but another date, of the line before it in the
vector: such a record goes to the file of that line (`Misfiled`). Pages, which
iterate over a hash map, and the geometry are left out.

### Statistics (module `Statistic`)

Time is counted in ticks of ten seconds. `Look` is a turn of `start_server` with
`timer`; `VisitDevice`, `AddToTotal` and `EndStatistic` are `do_statistic`, which
reads each count twice while writers count on; `timer_day` also opens the file of
the day, `WriteLine` and `WriteTotal` write it. `QueryDays` is a query of days,
which leaves a descriptor open for each file it has read; what it answers is the
operators `TotalData`, `EachData` and `DayRows`, evaluated by the property at each
state. Of a file that a kill left incomplete the end, and for a device the
contents of the buffer behind it, may be any number (`NoTotal`).

* `WindowsInStep`: the entries of a device are those of the last intervals of the
  sum, never decrease up to the present count, so that no unsigned difference
  wraps, and add up to at most the sum;
* `NoEarlyInterval`: no interval is counted before its end or twice, also after
  looks that came late;
* `DayFileInTime`: a complete day file counts all records of the day and none
  later than the next day; its lines add up to at most its sum;
* `MidnightFiled`: the first look of a day writes the file of the day before,
  unless no descriptor was left, or the process had not looked since its start;
* `DayRowsSound`: if every file read was completed, the rows of an answer are
  differences of days in range, whatever files are missing; while descriptors last no day with a file
  is left out. For single devices it holds if no other id contains the id, which
  the search with `strstr` requires, and for ids of fewer than ten characters
  (`sKey`).

### Dates and cleaning (modules `Calendar`, `Cleaning`)

`Calendar` has dates as integers `yyyymmdd`, `reduce_days` and `reduce_days2`
beside the calendar of the C library. In `Cleaning` the clock passes the minute of
the cleaning (`MinutePasses`) and midnight (`NextDay`); the thread looks within the
minute or misses it (`LookAtClock`), cleans the two directories one after the
other (`CleanDir`), and may be killed (`CleanKill`).

* `OldFilesGone`: no file outlives the configured days by more than the drift of
  30-day months (`Drift`, 6 days) and the days since its directory was last cleaned;
* `KeptOutsideMonthZero`: while the limit is not in a month 0, only files older
  than the configured days, less the drift, are deleted; in a month 0 also those
  of last year;
* `KeepsSavedDays`: only files older than the configured days are deleted. It
  fails, see section 5.

### Binary protocol server (module `BinaryServer`)

The stream of a client is tokens, a header or a record; `Send`, `Deliver` (any
segment), `Finish` (the client closes or dies) and `Reset` (its host answers a
reply to a closed socket) are the clients and TCP. The loop is `Accept`, `EpollWait`,
`HandleEvent`; one packet is `RecvHead`, `RecvBody` per record, `RecvDone` or
`RecvTimeout`, `WriteToMem` per record, `Reply`, `SaveCurTime`; `CloseSocket` ends
a connection, `Kill` and `GpsInit` a process. `ready` is the kernel's list of
events: an edge adds a client unless it is there. The buffer `m_psPacket` is shared
by all clients and never cleared; `BufferSize` is the number of records that its
32 MB (`BUFFER_SIZE`) hold. The code takes the length of a packet as it comes; the
model is about clients whose packets fit. A record read as a header has a wrong type; the
packet is refused, after as much was read as its length says.

* `SessionFaithful`: the records written for a client are those it sent, in
  order and once, and a reply counts records that are written, unless the client
  paused for three seconds within a packet: then the packet is taken as complete
  and old contents of the buffer are written;
* `NothingStranded`: a wait for events leaves nothing unread of a client that
  awaits its replies, its end included. (A client that sends several packets at
  once may wait: one packet is read per event.)
* `CurTimeKept`: between packets the file has the largest hour received, unless a
  reply failed;
* `PacketAnswered` (liveness): each client that awaits a reply gets it or is
  closed, if the loop does not block for ever. It may: a packet in two segments
  can give two events, and the second read waits for the next packet of that
  client while all others wait for the loop.

## 3. Runs

| run | instance | states | shows |
|---|---|---|---|
| `store_race` | binary and REST writer, 2 devices, 3 records (one batch of two), no crash | 1.4 M | all interleavings of two writers with passes: counts agree, and the store implements `LiveMaps` |
| `store_crash` | 2 writers, 2 devices, 2 records, 1 kill, 1 failing child, symmetry of the devices | 1.9 M | recovery, durability, last positions |
| `store_live` | 2 writers, 2 records of one device, 1 failing child, no kill, fair | 0.3 M | every record is filed |
| `live_query` | `LiveMaps` with 3 records of 2 devices, one query of 6 kinds at a time | 0.8 M | what queries of newest positions report |
| `around` | 4 records, 2 devices, 2 cells, 2 days, 3 requests, 1 failed open | 0.5 M | around files and their query beside passes |
| `gpsid_race` | 2 writers, 2 ids, 2 values, 2 kills, 1 failure of a file, symmetry of ids | 5.3 M | ids and information are kept |
| `pubsub_order` | 2 writers, 1 publisher, 2 customers with 4 requests, 2 records, 1 lost connection, 1 kill | 0.8 M | order, the right customers, subscriptions survive |
| `pubsub_reconnect` | 2 writers, 2 publishers, 3 records, 1 lost connection, `FairSpec` | 0.4 M | bounds of the queue; every queued record is taken |
| `locus` | 2 devices of one bucket, 5 records in 2 days, press filter, 1 kill, 1 failed open, 1 query of several | 0.5 M | whole segments, filter, and answers beside passes |
| `clocks` | `Statistic`: 2 devices, 2 records, 3 days of 3 ticks, 2 descriptors, 1 kill; `Cleaning`: 15 months, 7, 30 or 60 days kept, up to 2 missed minutes in a row | 0.2 M | windows, day files, answers; the cleaning |
| `clean_new_year` | expected violation | | finding 1 |
| `server` | 2 clients (one pipelining), 3 and 2 records, an empty packet, 1 kill, `FairSpec` | 0.4 M | sessions, events, the largest hour, replies |

`gpsid_race` checks `GpsidWriter` and `GpsInfo` as the one process they are in.
`clocks` checks two threads that share nothing but the clock, so each moves only
while the other has not begun; each alone reaches all its states. `around` leaves
out what its properties promise nothing about (a device out of order, a record that
missed the current map) and takes at once the steps that touch nothing the other
side uses, such as those of the child of the last data, which only reads the retired
map as the around child does. Empty passes are left out there and in `locus`.
`store_live` names two records of one device by who receives the first. Where a query is finished (`around`,
`live_query`, `locus`) nothing follows but the reply: its answer is compared with
what it found when it began, and whatever comes later only weakens the claim.

Why the bounds are enough: two writers are all the program has (one binary loop,
one REST loop). Two records on one device give the first-insert race, a dangling
iterator and a late push; a third on another device gives a scan that has
visited one key and not the other, and a batch gives a writer that continues
after a swap. A pass may start at any time, so any number of passes
fits between two steps of a writer. One kill gives every restart state; the
proofs cover any number.

For the queries of newest positions, two records of one device give an older and
a newer position, on either side of a swap, and a device of its own lets an
iteration end early. For the around files, an hour has two ticks and a day two
hours, with a number between two days that is no hour; records of one hour, of the
next hour in another cell, and of another device in the next day give every turn
of `Target`, and the period crosses a midnight. One query is enough, since it
leaves nothing behind.

For the register and the information, two ids let the insertion of one disturb the other, and a
second kill tests what the first restart read. For subscriptions, two customers
are one in front of and one behind a long line; any number
is covered by the proofs. For publication, a limit of one is the
smallest at which both writers can see room at once, three records are one more
than then fit, and a lost connection gives a blocked publisher beside a new one.

For the locus files, an hour has two ticks and a day two hours, so that five
records give segments of one, two and three lines, two hours and two days; a
pass may begin between any two arrivals, so one device has several segments in
one file, with those of another device between them. One query is enough, since
a query leaves nothing behind. A page of one row has its boundary between any
two rows.

For the statistics, an interval is two ticks and a day three, so that intervals
and midnights fall together and apart, a window of two drops its oldest entry, and
the days lie around the end of a February with a 29th. Two descriptors run out in
one query. For the cleaning, all dates from December 2015 to March 2017 meet the
limit in each month, in a leap year and in another.

For the server, a client that waits for replies sends a packet of two records and
an empty one, one that does not sends two packets at once, so a segment may end in
a packet, at its end or behind it, and the buffer holds longer old contents.

Fairness (`FairSpec`): the startup, the persist thread and its children are
ordinary threads that wait for nothing but joins and bounded sleeps, so each
keeps taking steps (weak fairness). `Core` counts its sleeps and starts a pass
after `PERSISIT_TIME` seconds even if the log is small, so `StartPass` is fair
too. Clients and writers are not assumed to be fair. `PubSub!FairSpec` assumes
that the event loop and each publisher keep running, that a redis command
returns, and that redis can be reached again. `BinaryServer!FairSpec` assumes that
the loop runs and accepts, and that TCP delivers what was sent and its resets;
clients need not send or close.

## 4. Proofs

`TideStoreProofs` proves, for every set of devices, records, writers and
requests and any `MaxCrashes`, `MaxFails`, from `StoreAssumption` only (each
record has a device, the two kinds of writers are different threads, a request
is a non-empty sequence of records):

* `TypeCorrect`: `Spec => []TypeOK`;
* `InvCorrect`: `Spec => [](TypeOK /\ StoreInv)`;
* `Durability`, `Reachability` and `PointersAgreeCorrect` (the current log and
  the current map are of one pair except between the two assignments of a swap) as
  consequences.

`Durable` is not inductive: nothing in it says that the truncation of a log
comes after the filing of its records. `StoreInv` adds what makes it so:
* `Phases`: what each program counter of the pass implies about the pointers;
* `Secured`: a record not yet filed is `Pending`, that is, in the current map
  *and* the current log, or in the retired map of a pass still to be joined *and*
  in a log;
* `InFlight`: a writer that saw no swap since it logged still has its record in
  the current log and its iterator in the current map, so that storing the
  record makes it `Pending`;
* `Progress`: a record in the retired map was there when the children
  started, and a child that visited its device or finished has filed it, so the
  truncation after the joins loses nothing.

The proof has one lemma per action. `StoreFacts` says what storing changes;
`ChildFrame` covers what all steps of the children leave alone.

Its second part adds, on top of that invariant, what readers and counts see
(`TideStoreMaps`):

* `LastFilesAgree`: `LastFilesCurrent`;
* `FiledOncePerLife`: `DuplicatesBounded`. `OnceInv` says that a record is in one
  place at a time (`OnePlace`: not yet sent, in the hands of one writer, in the
  current map or in the retired one), and that one still on its way to a child has
  been filed at most once per kill (`FiledOnce`). A kill is where the two copies, log
  and map, become two filings;
* `PositionsNeverRegress`: the action property `LastPosNeverRegresses`. Without races,
  the positions a pass is going to clear were moved before: `LastScanned` (a child
  whose scan is over has met all it must) and `Moved`;
* `TotalsCount`: `TotalsAgree`. In `TotalsInv` the running total of a device is the sum
  of four counts: moved statistics, retired vector not yet visited, current map, and
  writers between counting and storing;
* `StatisticsCount`: `StatisticsMatchLocus`, from `StatisticsInv`: what the child of the
  last data counted plus what it will is what the locus child filed plus what it will,
  in the middle of a pass too, where the two are at different devices;
* `MapsSeen`: the refinement `MapsAsSeen`, step by step (`StepSeen`), where no process
  is killed and no child fails, the condition under which it was checked.

Two more assumptions are used: `SentOnce` (a record is in one place of the requests;
what a client sends twice is two records of the model) and `FewThreads` (the writers are
finitely many).

`RealQueryProofs` proves `FreshAnswers`, that is `AnswersFresh`, for any devices,
records and requests. `QueryInv` follows each device through the query: as long as
it has no answer, either the running iteration must meet it (`MustMeet`) or one still
to come will find it (`FoundLater`), and what is found there is not older than what
was there when the query began (`Good`). `Settling` is why a pass may clear a map
under it: what a retired map holds is in `m_lastdata` once its pass is over.

`GpsidWriterProofs` proves `RegisterInv`, and from it `LoggedIsRegistered`,
`ListedIsKept` and `OnceUnlessRaced`, for any ids and writers. `LogsRegistered` is what makes it
inductive: a REST writer that is about to log has registered its id; `OnceInv` says that,
until a race, one thread inserts at a time, an id that is new. `RegisterInProcess` has the
same of the process of `GpsInfo`, whose REST thread has a second job, and
`InformationKept` is `InfoKept`, for any values and any number of kills: in `InfoInv`
the last line of a device is what counts, and a compaction that is cut short leaves the
old file in place.

The first part of `PubSubProofs` proves, of `Subscriptions`, `SubscribeInv`, and from it `SubscriptionsKept` and
`FileKeepsWanted`, for any customers and requests (customer ids are integers,
since the file is read in their order). `FileBehindCurrent` says that, before the
truncation, the file is behind for the customer of the request only, and
`WantedIsSaved` that what is not exempt is written and read back unchanged.

Its second part proves, of `PubSub`, for any finite non-empty sets of producers and publishers
and any limit above zero:
* `ComposesSubscriptions`: `Spec => SubscribeSpec`, so the theorems about
  `Subscriptions` hold in the composed system;
* `QueueBounded`: `Spec => []SizeBounded`. `PubInv` counts the producers past
  the comparison and the publishers past theirs: the sum with the size is what
  each step keeps;
* `InOrder`: if no two publishers are different, `Spec => PublishesInOrder`, the
  refinement of `LossyQueue`. It rests on `PubInv` (one publisher never finds
  the queue empty at its pop) and `HoldsFront` (what it copied is still at the
  front);
* `GoesToSubscribers`: `Spec => []PublishedToSubscribers`, for any number of
  publishers and finitely many customers. An iteration takes the least customer that
  is left, which exists because they are finitely many: the one place where
  that is used.

`LocusFileProofs` proves `LocusInv`, and from it `SegmentsWhole` and
`PressedNear`, for any devices, records, clock and filter, from
`LocusAssumption` and `NoFileAssumption` (the value for "none" is not a file).
`OpenSegmentWhole` makes it inductive: the open segment ends its file, begins
after all indexed ones, has a line before its entry is written, and the filter
compares with its last line. `AnswersAreSound` is `AnswerSound`: what a query has
collected is in `Results`, the results whose rows are records of the device in range
(`AnswerInv`). Its loops over entries, lines and map are folds: `FoldExists` shows that a
fold is defined, for any turn that stays in a set, and `PartsInduction` that it stays
there; each loop is an instance (`ReadRowsTurns`, `ReadFileTurns`, `ScanTurns`), and
`DecodedRows` is where the lines of a whole segment decode to their records.

Its second part is about the order and completeness of answers, for devices that send
in the order of their times and that no kill has caught in a pass (`Orderly`). It has one
hypothesis, `VectorsFit`: no map ever holds as many records of a device as `IndexRange`.
It cannot be dropped: `usNum` is an `unsigned short`, and with 65536 records it
returns to 0 and the records are filed again without end (`tide_persisitence.cpp:201`).
* `RecordsPlaced` is the inductive invariant `OrderInv`. `Placed`: each record that has
  arrived is in a line of a file, dropped by the filter or a failed open, still to be
  filed by the pass (`Waiting`), or in the current map, and what is in an earlier one of these
  places was sent before what is in a later one. `LinesPlaced`: the lines of a
  device are in the order of the hours of their files and of their offsets, no file is of
  a later hour than its records, and each line is in a segment with an index entry or in
  the open one. `LogsMatch`: outside a pass the logs are the maps, so a kill moves nothing.
* `AnswersInOrder` (`AnswerFollowsArrival`) and `FiledReturned` (`FiledIsReturned`)
  follow from `AnswersCollected`. In `CollectInv` a query has met the records of some set `D`
  (`Met`): a sequence lists, in order, the records of `D` it has counted, its rows are those
  of the page in it, and a record of `D` in range that is not in it came after all of it, when
  the page was full. A query that has ended is full or has met a record past its range
  (`EndSeen`). Between two hours `D` is of lines of earlier hours, and each
  record that was indexed at the start is in `D` or in a segment still to be read
  (`ToRead`), although the files grow meanwhile; before the scan `D` comes before the
  vector. Each row read makes `D` one record larger (`MetReadRow`, `MetScanRow`), and
  the loops are the folds above (`MetReadRows`, `MetFile`, `MetScan`). That a query ends at a
  row past its range loses nothing is `OwedMet`.
* `QuietAnswered` (`QuietAnswer`) is the other direction: what the answer must not contain
  or leave out. `QuietInv`: until a quiet query ends there is no pass, what was indexed when it
  began is all that is indexed in its hours, and its iterator is in the current map. Then
  `D` holds only records that can be read, and each that can be read and is in range is in
  `D`, unless the query had ended before it (`AllMet`, from `FilesAllMet` and
  `VectorAllMet`). So what was counted and what was to be counted (`ExpectedSays`) are both
  in the order of arrival and one begins the other (`SamePrefix`): up to the end of the
  page they are the same (`MetAnswers`).

`BinaryServerProofs` proves `TypeCorrect`, `CurTimeFollows` (`CurTimeKept`),
`NobodyStranded` (`NothingStranded`) and `SessionsFaithful` (`SessionFaithful`) for any
clients, packets, segments and kills, from `ServerAssumption`. Each follows from a part
of `ServerInv`:
* `ClockInv`: while a packet is written the hour before it is between the file and
  memory;
* `Awake`: a client with something unread, or with an end to be read, is in the list of
  events, in the batch, about to be reset, or the one being handled; edges come only
  with segments, so each step that takes an event must leave the client with nothing
  unread, or be handling it;
* `Followed`: as long as a client has not paused or been refused, what is unread of it
  (socket and network, `Stream`) is what follows, in the tokens of the packets it sent,
  those of the packets answered and of the part of the current one that was read
  (`Placed`); what was written for it are the packets answered and that part (`Served`);
  and the buffer holds the records of the current one, whatever was in it before
  (`Reading`). So a header is read where one stands;
* `Behind`: after a pause within a packet, the rest of the packet comes first, so a
  record is read as a header and the connection is closed;
* `Kept`: what remains of a client that is closed.

`ClockProofs` (statistics) proves the five invariants of the thread, its files and the rows of answers, for any
finite set of devices, any lengths of a day, an interval and a window, and any number of
kills, from `StatisticAssumption`:
* `IntervalsApart` (`NoEarlyInterval`). `IntervalInv` counts the entries of the window
  back from the due time; between the look that finds an interval over and the entry for
  it, the due time is one interval ahead;
* `DaysFiled` (`MidnightFiled`). `MidnightInv`: the static of `timer_day` is a midnight
  between the day of the first look and that of the last one, and that of the last one
  only after the file was written;
* `WindowsAgree` (`WindowsInStep`). `AddInv`: what an iteration has added, and what the
  counts of the devices it has still to add are now (`ToAdd`), never exceed what was
  counted. `EachInv`, `TotalInv` and `RowsInv` are the property in the middle of an
  iteration, where the devices already met are one entry ahead of the sums (`Ahead`);
* `DayFilesInTime` (`DayFileInTime`). `FileInv`: while the file of a day is written, what
  was counted when the day ended is at most what was added and what will be, and the lines
  written and added are at most the sum so far. A count of a past day must not change
  (`ClockInv`), so the dates of the clock must differ: `DatesInOrder` shows it
  from the calendar (`NextDate`).
* `DayRowsRight` (`DayRowsSound`). `LinesInv`: in a complete file the line of a device is
  its count at the end of the day. `DaysVisited` shows which dates an answer visits, from
  `ExactDaysBack` and the order of the dates; `InOrderIs` and `Placed` that an entry follows the
  one before it in the list; `RowsSound` that their differences are then counts of days.
  `EightDigits` is its hypothesis: the last date of the clock and the three days from which
  the earliest query starts are dates of eight digits, as the names of the files are.

The sum over the devices is a fold. What one changed count does to it (`SumChanged`), that it
is monotone (`SumMonotone`) and typed follows from a recursive function over the parts of
`Keys` (`Sums`), by the well-foundedness of the subset relation on finite sets.

`ClockProofs` (cleaning) proves what the cleaning deletes and what it keeps, for any dates, days
to save, missed minutes and kills, from `CleaningAssumption` (the first and last date are
dates of eight digits in order, and so are those of the files at the start):
* `OldFilesDeleted` (`OldFilesGone`), for a `Drift` of at least 6. `CleanInv` is the property
  with the types of the dates and the bound of the clock;
* `YoungFilesKept` (`KeptOutsideMonthZero`), for a `Drift` of at least 6 and at most 1000 days
  to save, the most `reduce_days` takes. Six days is what the code gives in both
  directions and no run of a year or two would find: `20010301` less 96 days is `20001200`,
  before which lies 30 November, 91 days ago;
* `ExactDaysBack`: `reduce_days2` is exact.

The bound of 6 comes from the calendar. `AboutRough` puts the number of a date between
bounds in months of 30 days, `Limit` shows that `reduce_days` goes back exactly the given
days in those, also where it ends in a month or day 0, and `LeapsGrow` that the 29ths of
February between the two dates, at most four years apart, are at most one. That dates in
order have numbers in order (`NumberOrder`), and that `Tomorrow` and `DayBefore` change the
number by one, is shown from the lengths of the months.

`AroundFileProofs` proves `FiledSeen` (`FiledIsSeen`) and `NewestAnswered` (`AroundNewest`)
for any devices, records, cells, clock, requests and number of files that do not open,
from `AroundAssumption`. Neither is inductive: they speak of the end of a query only.
`AroundInv`, which TLC also checked on the instance of the run `around`, claims nothing
once a record has missed the current map, and otherwise that
* `OrderInv`: of a device that sends in the order of time, the files and the retired map
  hold the older records and the current map the newer ones, each vector sorted;
* `FilesInv`: each line is in a file of its cell and of its hour of the day, the most
  `MemToAroundFile` guarantees (`TargetIs`); so a line that is not `Misfiled` is in the
  file of its hour;
* `Conserved`: what was stored is in a file, in the current map, or in the retired map
  behind the place of the child, unless a file did not open;
* `SearchInv`: of what was filed when the query began and is wanted, either the device is
  reported with a record not older (`Covers`), or the line is in an hour not yet reached,
  or in a cell of this hour not yet read, or what this hour gave so far covers it
  (`SeenOrToCome`); what was in the current map is filed, reported, or of a device the
  query has still to meet there (`MetInMap`).

`BesideQuery` states once what the writers, the pass and the child must leave as it is for
the second half to hold beside them: a map that is read may only lose records or gain newer
ones. That counting the hours down passes every hour of the period follows from `HourIs`
and `HoursGrow` (the number of an hour grows with time across the gaps between days), and
what a file gives from `TakenIs`, an induction over its lines.

In `BinaryServerProofs`, the first packets as one sequence, and the sum of the first replies, are recursive
functions (`Joined`, `Total`). What they are for every number (`JoinedIs`, `TotalIs`) is
an induction over data; so are the days `reduce_days2` goes back. No theorem with an
operator parameter is used for it: `SetInduction` is about a set of numbers, and follows
from the well-foundedness of `<`.

Only model-checked: `EventuallyFiled`, `QueuedIsTaken` and `PacketAnswered`, because
liveness under fairness is beyond the prover. Every other property of the passing runs is
stated by a theorem.

## 5. Findings

1. *Young files are deleted early in the year.* `reduce_days` counts months of 30
   and years of 365 days and may end in a month 0. With the configured 60 days
   (`conf/gps.conf:40`) the limit computed on 30 January 2016 is `20160000`; every
   file of 2015, however young, is before it and is removed (run
   `clean_new_year`). `file_manager.h:35-37` and `utils.h:432` promise days.

Other behaviour that the properties name as exceptions, where the sources promise
nothing: the named races of `TideStore`, totals of recovered records that may be
counted twice at a start, last positions that a kill while their file is rewritten
loses, an id that two writers keep twice, records filed under the wrong day, queries
that a swap between two looks makes miss devices, a loop that one silent client
blocks, and the largest hour that is not saved after a failed reply. For more than 1000
days to save, `reduce_days` changes nothing, so all files but those of the day go:
`YoungFilesKept` has the 1000 days as a hypothesis, and the runs configure fewer.

## 6. Plan

Done: `TideStore` with its view `LiveMaps`, `RealQuery`, `GpsidWriter`, `GpsInfo`,
`Subscriptions`, `PubSub`, `BinaryServer`, `AroundFile`, `LocusFile`, `Statistic`, `Calendar`
and `Cleaning`, with proofs of all their safety properties. Left: a module `ConfigReader`
(one stream offset shared by the threads that read the configuration at startup), if the
buffering of the C library can be stated well enough to say anything.

## 7. Not modelled

* REST server: one event loop, one handler after the other; the handlers that keep
  state are in the modules of their components, and what remains is parsing of
  requests and formatting of replies.
* Configuration file: read at startup, through one `FILE` that a thread started
  early may seek under another; what a look-up then finds depends on byte offsets
  and the buffering of the C library.
* Thread pool, circular queue, list: nothing in the server calls them.
  `thread.cpp` wraps `pthread_create` and `pthread_join`, which the modules contain
  as steps.
* Argument parsing, logging, `/proc` reading (pure input and output); `url_parse`
  (text parsing); geometry in floating point (distances, polygons, geohash
  bisection).
* Inside modelled components: the export of histories to csv files, the column names
  of device information, limits on the number of results, a temporary log whose last
  line a kill cut, and threads that cannot be created.
* Vendored libraries (mongoose, hiredis, jsoncpp, GDAL, zlib): their headers are most
  of the lines below `include/`; only what the server relies on appears in the
  models.
