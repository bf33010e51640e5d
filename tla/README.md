# A TLA+ model of distfs

distfs serves a read-only file system to diskless nodes. `distfs build` packs a
directory into an image of 4 MB chunks, `serve` and `mirror` publish an image,
`mount` mounts one, fetching chunks from its peers on demand and keeping them in a
bounded cache on disk and a smaller one in memory. The peers find each other by
gossip. This directory holds specifications of the parts where concurrency, failures
or arithmetic make the code hard to test, the TLC configurations that check them, and
TLAPS proofs. Paths below are relative to the repository.

## The system

| Component | State | Operations | Hard because |
|---|---|---|---|
| `data/chunk_provider` | map id -> entry, a mutex per entry, LRU list | `read_chunk`, eviction callback | every FUSE thread calls it; an entry's mutex is held across a network fetch; failures, retries and evictions replace entries under running readers |
| `common/lru_collector` | list and index of ids | `update` (calls the owner's remover) | the remover runs under its mutex; an id may be touched after it was evicted |
| `data/chunk_store` | files, `in_store`, LRU list | `read_chunk`, `write_chunk`, `remove_chunk`, `available`, constructor | FUSE threads, RPC handlers and the mirror loop use it at once, and no lock spans file and index; short writes, failing calls, kill and restart |
| `network/connection_pool` | connections, `active_peers`, candidates, two mutexes | four phases of a worker thread, `info_from`, `pex_from`, `fetch_chunk` | the worker holds one mutex or both across RPCs, whose handlers take the same two, possibly in this very process; `active_peers` is changed in line 110 without its mutex |
| `network/distfs_service` | none | RPC handlers | call into pool and store from any number of threads |
| `network/chunk_availability` | a set of ids | bit mask encode and decode | boundary arithmetic; the answer is old when it arrives |
| `data/chunk_builder`, `data/compressed_store`, `meta/metafs_builder` (`create_chunks`, `build`) | one chunk in memory, position, store | `reserve`, `add_file`, `write`, `build`, destructor | comes back to chunks it has left, over an older image; every step may fail, and some results are ignored |
| `network/connection_pool` (`fetch_chunk`), `GetChunk`, mirror loop of `main` | a buffer per call | choose a peer by its mask, receive, verify, retry, write | the mask is old, the peer fails half way or sends another chunk, the result of the write and of the fetch are ignored |
| `meta/metafs_builder` (`scan_dfs`) | a byte buffer | scan a source directory into nodes, entries, names, attributes | offsets and lengths computed in advance; the directory changes meanwhile |
| `meta/meta_file_system` | that buffer, read only | lookup, listings, attributes, links | offsets; a binary search; resumed listings; buffers of the caller that are too small |
| `data/data_provider`, `fuse/fuse_main` | none | split of a read into chunks, error codes | boundary arithmetic without a sign |
| `network/distfs_metadata`, `distfs_bootstrap`, `checksum_engine` | chunk hashes, fs id | computed once at start | a product modulo 2^64 as id; the ids of a store must have no hole |
| `main`, `network/distfs_server` | - | wiring | the mirror loop ignores failures |

Interaction: FUSE -> `DataProvider` -> `ChunkProvider` -> `CompressedStore` ->
`ChunkStore`, and on a miss `ConnectionPool::fetch_chunk`, which writes to the
`ChunkStore` of this node what `GetChunk` of another reads from its own. The worker
of the pool calls `InfoExchange` and `PeerExchange` of other nodes; their handlers call
`info_from` and `pex_from`. `available()` of the store is what both sides advertise.

What makes each part correct:
* cache: a read returns the bytes that were asked for, or an error of its own; nobody
  reads an entry that is being filled; no entry is left that nobody fills; bounded size;
  every read returns;
* store: files, index and LRU list agree up to the calls in flight and what failed calls
  left; bounded size; files are whole; all of it also after a restart;
* overlay: connections, `active_peers` and candidates are consistent, up to the one connection
  that is being added or erased; the limit; the
  order that `explore` relies on; no connection to itself; no deadlock between nodes or
  with itself;
* mask: a peer is believed to have what it had when it made the mask;
* fetching: what is written to the store is the chunk of the image, whatever the peers send; a
  mirror lacks only what its peers were not known to have;
* builder: an image that is reported as built reads back as it was written, and can be
  served;
* metadata: what was scanned is found, listed and read, with the bytes and attributes it
  had; nothing is written behind the buffer, no search looks outside its table.

## Modules

**LruCollector** is the list of `LruCollector` as operators: `Updated(queue, id, size)` is
the list after `update`, `Victims` what it evicts. The interleaving of an eviction with
other threads belongs to the two owners.

**ChunkProvider** is `ChunkProvider::read_chunk`, one action per critical section.
`entries` is the map, `data[e]` and `owner[e]` are the buffer and the mutex of entry `e`,
`lru` the list, `pc`, `req`, `ent` and `buffer` the locals of each caller.

| Action | `chunk_provider.cc` |
|---|---|
| `LookupFound`, `LookupAbsent` | 15-23 |
| `LockLoaded`, `LockFailed`, `Replace` | 26-28, 33-38 |
| `LoadOk`, `LoadError` | 43-49 |
| `Unlock`, `MissCopy`, `MissTouch` | 52-55 |
| `Fail` | 57-62 |
| `HitTouch`, `HitCopy` | 29-32 |

A copy happens without the entry's mutex and is one step: that nobody writes the buffer
meanwhile is `ExclusiveFill`. Loads (store, network) are one step with either outcome, which may
never come.

**ReadService** is what the callers of `read_chunk` are promised: one answer per call, the
bytes asked for, or an error after this caller's own load was refused. `ChunkProvider`
implements it under the mapping `RS`: a call is pending from its first to its last step,
it is refused while its thread is about to run the error branch, and its answer is what
was copied to the caller.

**ChunkStore** is `ChunkStore` over a directory of inodes: a directory entry names an
inode, an open descriptor keeps one alive, an inode holds the set of parts written to it.
`open`, each `write`, `update` of the list, `unlink`, and the insertion and the erasure in
`in_store` are separate steps; a write may be short; writes and unlinks may fail
(`WriteError`, `UnlinkError`); `Restart` is a kill at any step followed by the constructor, which
takes over the files that it finds and evicts those too many. It may fail to unlink some of them
(`Unlinkable`, counted in `failures`): these stay on disk and in `in_store`, outside the list.
The mutex of the collector (`lruOwner`) is held through an eviction.
Three history variables name what failed or overtaken calls left: `torn` (inodes whose
writer failed or was killed), `stray` (ids whose file a failed call left outside the
list), `overtaken` (ids unlinked while a write of them was in flight).

**OrderedSet** is the bounded queue of candidates as operators.

**ConnectionPool** is one node's overlay: the worker thread through `worker_get_info`,
`worker_get_pex`, `worker_expand`, `worker_explore`, one action per lock, call, answer and
loop turn, and the handler threads through `info_from` and `pex_from`. A refused ping takes two
steps, `InfoRefused` (line 110, `active_peers`, whose mutex the worker does not hold there) and
`InfoDrop` (line 111, the connection): handlers run between them and may make the address a
candidate again while it is still listed. Other nodes are the
environment: they answer anything or not at all. A call of an own address is served by a
handler of this node (`LoopBack`), which is how it can block on itself. The mutexes are
`connOwner` and `peerOwner`. A ping that another node sends is any url, node and set of
chunks. Time is kept only as "due or not" for each connection at each ping.

**ChunkAvailability** encodes, sends and decodes the mask of stores that change meanwhile:
as the answer to a ping of this node (`Answer`, `Receive`, `TimeOut`) or with a ping of the
peer (`Ping`, `Pinged`), in either order. Bytes are sets of bits. `heard[p]` is the set the
last mask that arrived was made from, `view[p]` what was decoded.

**FsId** is the product of all characters of all checksums modulo 2^Width.

**FetchChunk** extends the two with `fetch_chunk` for any number of threads: those of a mount,
which miss chunks and evict them, or the one of `mirror`, which asks for each chunk once.

| Action | Code |
|---|---|
| `Mirror`, `Miss` | `main.cc` 42-44, `chunk_provider.cc` 43-47 |
| `Pick`, `NotFound` | `connection_for_block`, `connection_pool.cc` 68-83 |
| `Call`, `Reused` | 47-48; a context that is used twice may end the process |
| `Absent` | 48; the peer has dropped the chunk since it made its mask, `distfs_service.cc` 16-18 |
| `Read`, `Failed` | 49-54; the stream ends at any part |
| `Verified`, `Mismatch` | 55-60 |
| `Write`, `WriteFails` | 61-63 |
| `Mask` | the worker and handlers, through the actions of `ChunkAvailability` |

A chunk has `Parts` parts, each the right one at its place or not; the checksum tells exactly
the files that are right as a whole. `Served` is what a peer sends: that chunk if its image
has it, otherwise anything else, since a peer with another image and the same fs id is
connected too (`SameFs`); `Damaged` is a file of it that is cut short or being rewritten.
The store begins with whatever files the cache directory has (`Old`): of another image, or cut short
by a kill. The code looks into none of them, so neither does the model: a mount takes one as the
chunk, a mirror overwrites it when it fetches the chunk. `found` remembers which files those are.

**ChunkBuilder** is `ChunkBuilder` with what `CompressedStore` stores of a chunk and the calls
`MetaFSBuilder::create_chunks` and `build` make; bytes are members of a small set.
`Move` and `MoveFails` are the two outcomes of `move_pos`, `Copy` is one turn of
`write_data`. `Torn` is a file that does not decompress. `Serve` is the `serve` command on
what is there then: `DistfsMetadata` throws if the ids of the store have a hole. The metadata
is a string of fixed length, its content is in the next module.

**MetaBuilder** is the rest of `build`: `scan_dfs` walks through a source directory that answers
each system call as it likes (an entry may be gone when it is visited, a file shorter when it
is read), and appends nodes, attributes, entries and names to `data`; `create_chunks` then walks
through the result with the queue `Q` and places the files. `data` is a sequence of cells, one for
each struct, name and value, so that offsets stay small and an offset taken at the wrong
moment still leads to a wrong cell. `stack` holds the calls of `scan_dfs` that are under way.
`Added` is what `add_file`, `add_link`, `add_dir` append. Each of the three may have attributes:
`XattrLists` is what `llistxattr` lists, sorted, with the values that `getxattr` gives; that follows a
link, which the list does not, and a value that cannot be read is empty (`Unread`).
`PlaceHeader` is a turn of the queue for an entry that had vanished: the header is taken for a
node, and depending on what the length looks like as a mode nothing happens, the fields of a file
are written over the root, with the place and length of what is at the path by now or with those
of a failure, or what follows is read as a directory.

**MetaBuffer** is the buffer behind it, in bytes and without contents: `SumName` and `SumXattr` are
turns of the loops that sum up what an append will write (lines 82-85 and 181-187), `Double` a turn
of `reserve_buffer`, and `AddNode`, `AddXattr`, `AddTarget`, `AddEntries`, `AddName` the writes that
follow, each with its NUL or length in front, from the byte where the last one ended. `SetOffset`,
`WriteLength` and `SetFields` write to earlier places, the last one also to offset 0 for a vanished
entry. `writes` is where the writes of the last step end. Kinds, strings and numbers of nodes come
in any order, as a source directory may have them.

**FindEntity** is `find_entity`, one action per turn of its loop, over any table.

**Mount** composes both with the handlers of `fuse_main.cc` and the loop of `DataProvider::read`.
It reads the metadata from the chunks as the constructor of `MetaFileSystem` does, then answers
requests: `Begin`, `GetChild`, `FindEntity`, `Enter` resolve a path, `Resolved` ends there (getattr,
open), and `ReadLink`, `OpenDir` and `ReadDir`, `ListXattr` with its loop `ListName` and
`ListEnds`, `GetXattr` and `AnswerXattr`, `Read`, `Chunk` and `ReadEnds` go on from it. The handlers share read-only data alone, so one
request at a time is enough. Where the code takes bytes for an `Entry` or a `Node` that are none,
the answer is "undefined". Offsets are numbers modulo `Wrap` (2^64), ids of chunks modulo `IdWrap`
(2^32, `data_provider.cc:6`). Failing loads are `ChunkFails`; what they come from is in
`ChunkProvider` and `FetchChunk`.

**MC** modules name small constants and, for `ChunkStore`, a symmetry set. **Proofs** modules hold theorems.

## Runs

| Run | Bounds | Shows |
|---|---|---|
| `ChunkProvider_reads` | 2 threads, 2 chunks, limit 1, 5 entry names, fairness | `ReadIntegrity`, `ExclusiveFill`, `NoAbandonedEntry`, `CacheBound`, that the cache implements `ReadService`, and `EveryReadReturns` |
| `ChunkStore_failures` | 2 threads, 2 chunks of 2 parts, limit 1, 2 failures (those of the constructor included), 1 kill | `Tracked`, `StoreBound`, `NoHiddenChunk`, `AdvertisedOnDisk`, `WholeFiles` |
| `ConnectionPool_rounds` | 4 urls (1 own), 2 nodes, 1 chunk, 1 handler, limits 2 and 2, fairness | `PeersAreConnections`, `OnePerUrl`, `WithinLimit`, `PoorestFirst`, `NoLoop`, `CallsAreServed`, `RoundsEnd` |
| `ConnectionPool_explore` | 3 urls, 1 handler | **violated** `SomethingToReplace` |
| `FetchChunk_safety` | 2 peers, 2 chunks of 2 parts, 1 reader or a mirror, a cache directory with any number of files that are not the chunks, ids of 3 bits, 1 fault | `AllButTheTop`, `OnlyGenuine`, `PartsFit`, `GapsAreKnown`, `MissedIsUnheard` |
| `FetchChunk_mirror` | 1 peer, 1 chunk, no fault | **violated** `MirrorComplete` |
| `ChunkBuilder_safety` | chunks of 2 bytes, 5 bytes of metadata, 2 files of up to 2, 1 failure, 1 read error | `FilesKept`, `CompleteIfUndisturbed`, `Servable`, `LeftoversAreFailures` |
| `ChunkBuilder_incompressible` | 1 file, one chunk that does not compress | **violated** `CompleteWhenReported` |
| `Mount_safety` | 3 entries in any arrangement and 1 attribute, or 1 entry and 3 attributes, with or without a NUL, files of 1 or 3 bytes, chunks of 4 cells, 1 entry, file or value lost, buffers of 0, 2, 3 and 4 | `TreeKept`, `SearchRight`, `LookupRight`, `ListingComplete`, `XattrsRight`, `ReadsOwnBytes` |
| `MetaBuffer_safety` | 2 nodes of up to 2 attributes and 2 entries with strings of 0, 1 and 22 characters, a buffer of 64 bytes at first | `Reserved` |
| `Mount_xattrs` | 1 entry, 1 attribute | **violated** `FindsEveryEntry` |
| `Mount_read` | 2 entries, chunks of 1 cell | **violated** `ReadsNothingElse` |

One run of each component also checks its `TypeOK`, but for `MetaBuffer`, where the types are part of
the invariant that is proved.

Why these bounds: a cache of one entry makes every second access an eviction, and two
threads meet as reader and loader, as the loader that failed and its waiter, and in two
loads of different chunks that evict each other; the theorems hold for any number. With a
limit of one, two chunks evict each other, so that a write, an eviction and a second write of
the same chunk meet; two parts make short writes and interleaved writers possible, and one
leftover makes a restart find more files than fit. Two connections, two candidates and a third
address are the least for an exchange while one is being lost; one handler is enough for a deadlock,
because a handler holds one mutex at a time and waits for none while it holds it. Ids 0 and 1
are enough for the mask in the run, since 0 is a multiple of eight; the theorem is about any set
of ids. Two parts let a stream end half way, and leave the first part of an earlier
attempt in the buffer; a chunk that a peer has dropped takes one fault, the change of its store,
so that the run meets it as well as the files found at start. In the real program the fs id has 64 bits and checksums have 64
characters; three bits and checksums of two keep the effect, a product that is 0 for both
images. Five bytes of metadata over chunks of two make `reserve` skip a whole chunk and let the
metadata share one with the first file. Three entries are what a binary search needs to run
its lower bound past its upper one; attributes of one and three characters and buffers of 0, 2,
3 and 4 let a list, and a value, fit, fit exactly, or not fit; `Wrap` is 64 in place of 2^64, more than any
offset, and `IdWrap` 16 in place of 2^32. Nodes have 72 bytes, entries 16, lengths 8, as in `types.h`; strings of 22
and 0 make a node end exactly at the border of a buffer that was doubled once (byte 128), so that
one byte too few in a sum is one byte too far in a write. The names of entries and inodes are enough for all that can be reachable at a time, the
counters `failures`, `crashes`, `readErrors`, `faults` and `bounds` (one of `Limits`) are bounds and nothing else.

### What the violated runs show

* `ConnectionPool_explore`: when the last connection was lost and a candidate appears
  between `worker_expand` and `worker_explore`, line 264 dereferences and erases
  `begin()` of an empty list.
* `FetchChunk_mirror`: `bitmask()` sizes the string `id / 8 + id % 8` instead of
  `id / 8 + 1`, so that the largest chunk is not advertised if its id is a multiple of 8. An
  image of one chunk cannot be mirrored or mounted from a node that has it, because nobody
  advertises chunk 0. The mirror command does not look at the result and serves without it.
* `ChunkBuilder_incompressible`: LZ4 returns 0 when its output does not fit, the code
  looks for less than 0. The chunk is stored as an empty file, the build reports success.
* `Mount_xattrs`: `get_child` looks for the entries of a directory right behind its node, where
  the builder has put its extended attributes. In a directory that has one, entries are
  listed but not found. `LookupRight` holds for paths without such directories (`Plain`).
* `Mount_read`: the kernel bounds reads by the size that `lstat` gave to the build. If less was
  stored of the file (it shrank, or could not be read), a read behind what was stored
  computes a length without a sign and returns bytes of what comes next in the image.
  `ReadsOwnBytes` holds for reads that begin in what was stored, or at its end, as long as the
  image is not longer than offsets and ids of chunks reach (`Addressable`: 2^64 bytes, but a chunk
  id has 32 bits in `data_provider.cc:6`, which makes it 2^54).

More disagreements are in the models without a run of their own. `create_chunks` and
`build` ignore the results of their last two calls (`metafs_builder.cc:222`, `:238`): a
failure there ends with status 0 and an image that is incomplete or was deleted again; that is
why `CompleteIfUndisturbed` asks for no failure. A read error before the first byte of a
chunk (`chunk_builder.cc:31`) overruns the read buffer (`ReadError`, `pc = "dead"`). An entry
that vanishes between listing and visit keeps offset 0, and `create_chunks` takes the length of
the metadata for the mode of a node (`PlaceHeader`); the properties of `MetaBuilder` and `Mount`
leave out the case where this overwrites the root (`RootKept`). `list_xattr` reports success when the names fill
the buffer exactly before the last of them (`XattrsRight` says so), and values are cut at a NUL
(`Copied`). `fetch_chunk` asks a peer again as long as it advertises a chunk and sends another: with a
colliding fs id for ever. A file that the cache directory has from an earlier image is taken for the
chunk of its number and given to readers and peers; nothing verifies it (`chunk_provider.cc:43`), and
`OnlyGenuine` leaves it out (`found`). `Servable` is about an older image whose ids have no hole;
where an aborted build has left one (`LeftoversAreFailures`), an image that is built over it may
not be servable, since files behind its end are counted.

### Fairness

* `ChunkProvider`: weak fairness of each thread's steps inside `read_chunk` but the end of a load:
  threads are scheduled, and a mutex that is free for good is obtained. A load may go on for
  ever, because `fetch_chunk` has no deadline and asks again as long as the peer advertises the
  chunk; so `EveryReadReturns` is conditional: a read of a chunk returns if no load of that
  chunk goes on for ever, whatever loads of other chunks do. No fairness for making a call.
* `ConnectionPool`: strong fairness of the worker and of each handler. A mutex is
  released again and again rather than for good, and `std::mutex` promises no order; the
  worker sleeps two seconds per round with no mutex held, so that a waiting handler is
  not passed over for ever. Every RPC of the worker has a deadline, so that a call always
  ends, also one of this node that waits for a mutex the worker holds. Lists of peers are
  finite: `PexTake` and `PexHeard` are not fair.

## Proofs

All hold for any finite sets of threads, chunks and peers and any positive limits (the `ASSUME`s
of the modules; the limits of 0 that the command line accepts are excluded and
undefined in the code, `lru_collector.cc:12`).

* **LruCollectorProofs**: `Updated` keeps a list well formed, what it holds afterwards, and how
  a set that is covered by a list and a few extra ids is bounded.
* **ChunkProviderProofs**: `TypeCorrect` first, with the locals each `pc` implies. The
  invariant for the rest is `CacheInv`: an entry is filled by the thread that owns its
  mutex (`LockInv`); an entry belongs to one chunk only, whoever refers to it (`OneChunk`);
  an entry that is neither loaded nor being loaded has only waiters, and one that is past its
  wait is loaded (`Progress`). `ReadIntegrity` alone is not inductive: that the buffer
  a reader copies is still the one it tested needs all three. From it follow
  `ReadIntegrityHolds`, `ExclusiveFillHolds`, `NoAbandonedEntryHolds`, and
  `ReadServiceImplemented`, where each step maps to one of `ReadService` or a stutter.
  `CacheBounded` goes through `Tracked`: each cached id is in the list or owned by a miss
  in flight.
* **ChunkStoreProofs**: `TypeCorrect`, then `TrackedHolds` and from it `StoreBounded` by
  counting, `AdvertisedHolds`, `NoHiddenChunkHolds` and `WholeFilesHolds`, each with a
  strengthening of its own: who may still insert an id (`Author`, `Visible`, where `stray` says which
  files of the constructor are advertised without being listed), that no
  two names share an inode (`Distinct`), and how far each writer of an inode has got (`Kept`).
  Failures and restarts are unbounded there (any `MaxFailures`, `MaxCrashes`).
* **ConnectionPoolProofs**: for any addresses, nodes, chunks, handlers and limits. The properties
  are stated for every state, the one between lines 110 and 111 included: a connection that is
  being dropped (`Dropping`) is listed and not active, and may be a candidate again, but no other
  is. They are inductive together, with three more: who holds which mutex at which `pc` (`Locking`), that
  the position in the list is valid (`Iterating`), and that the address being called is neither
  connected nor a candidate any more, and a call of this node by itself is stuck in a handler
  at the mutex that the caller holds (`Called`). The last is what `NoLoop` needs: the call can
  only time out, and what times out is not added. `PoorestFirst` needs that sorting permutes
  the list, and that whoever changes a mask sorts before the mutex is free.
* **FetchChunkProofs**: `DecodedBitmask` says what decoding an encoded set gives for every
  finite set of ids, `MasksLoseTheTop` carries it to the exchange of `ChunkAvailability`.
  `MasksImplemented`, that fetching implements this exchange, gives `AllButTheTopHolds`. The
  rest is for any image, any peers and threads, any number of parts and faults: a part fits as
  long as what is sent and what was received are a file together; a thread in `write` has
  verified its buffer (`WritesVerified`), from which `OnlyGenuineHolds`, for any files in the cache
  directory: a file that this node wrote is genuine, as `found` loses it to the write; each chunk the mirror
  has passed is there, or missed, or torn, or the one in hand (`Passed`), from which
  `GapsAreKnownHolds`; and `MissedIsUnheardHolds` from the view of the peers.
* **ChunkBuilderProofs**: for any size of chunks, files and metadata, any bytes and any number of
  failures. `TypeCorrect` needs to know where the builder is (`Placed`: `buff` is the chunk of `pos`, what is
  still to be written fits into what is left of the room for files) and where files lie
  (`LaidOut`). For `LeftoversAreFailuresHolds` the files that `in_store` ignores are counted
  (`Ghosts`): each is the file of a write that failed. The other three are about builds in which no
  call fails, and take `[]Readable` as a hypothesis: nothing was stored that does not decompress.
  `CompressibleReadable` proves it of chunks that LZ4 does not enlarge, which makes
  `CompressibleBuild` free of it; without it they are false (`ChunkBuilder_incompressible`).
  `FilesKept` is not inductive: the file being added is partly in the image and partly in `work`
  (`InTransit`), and so is the metadata, which is written in front of the files at the end;
  with that (`Clean`), `MoveKeeps` (a chunk that is left is stored, one that is entered again is
  brought back) and `CopyKeeps` (a turn of `write_data` changes only the positions it writes)
  give `FilesKeptHolds` and `CompleteHolds`. For `ServableHolds`, `Gapless` says where the store may have
  holes: none above the chunk in hand and none between it and the metadata's last one, until
  the metadata has filled those below.
* **MetaBuilderProofs**: about the image, for any names, attributes and depth, three invariants
  that the first state has and every step of `MetaBuilder` keeps. `TreeKept` says nothing while
  `scan_dfs` runs, so `BuildInv` says what is already laid out then. Every node holds the
  `lstat` of its path and is followed by its entries and their names (`Tabled`); each entry
  either leads to the node of its path, or is still awaited; what is awaited are the entries at
  or behind the position of one of the open calls, which form a path from the root. A step of
  the scan appends a node with its cells (`Extended`), sets one entry (`Entered`) or ends a
  call, and none of them disturbs another node; `create_chunks` changes only the length and the
  offset of files (`Touched`), or, by way of an entry that had vanished, the root, which is
  where `RootKept` is needed. `ImageInv` adds that every scanned path was listed by the directories
  above it (`Rooted`), that no entry leads behind the end (`Inside`) and that the header has the
  length (`Measured`). `LayoutInv` is about attributes and bytes: every node is followed by a
  span of cells that is its own, with the entries of its attributes in the order of their names,
  and each entry leads to its name and the cut value (`Owning`); the spans do not overlap and no
  two nodes have a path in common (`Spread`), so that placing one file changes no other.
  `create_chunks` works from a queue; a file that is not yet placed lies below one of the
  directories in it, and one that is placed is empty or in the chunks with its own bytes
  (`Placing`, `Stored`). Once the queue is empty, every file is therefore placed.
  The last part is about `MetaBuffer`, for strings of any length, any number of nodes, attributes and
  entries and any first size of the buffer: `ReservedHolds`. `Reserved` looks at one step; the
  invariant `BufferInv` says what is still to come. While sums are made, the last one is what the
  strings behind it will add up to when they are written (`NameSums`, `XattrSums`); once room is
  made, what is left of the attributes, and of the entries and names, fits between `current_pos` and
  the end of the buffer (`XattrsFit`, `NamesFit`), and the entries that a loop fills in lie before it
  (`Behind`), so that each write takes from that room exactly what it was given. Nodes and
  tables of directories lie before `current_pos`, which covers the writes to earlier places
  (`Written`).
* **MountProofs**: about the search, for tables of any length and any metadata: what is sought
  lies between `a` and `b` as long as it was not found (`SearchInv`), `a` stays in the
  table although `b` may fall below it and below 0 (`ProbesStayInside`), and each turn shrinks the
  range (`SearchEnds`). No handler changes the image (`StepsAre`), so the invariants of
  MetaBuilderProofs hold of the mounted one: `TreeKeptHolds`.
  About the requests: `Serving` says what a request holds while it runs: the image it reads is
  the one that was built, its offset lies inside, and a listing has delivered exactly the
  entries before the one it goes on from, whichever buffers ran full (`ListingCompleteHolds`).
  `Walking` says that n names of the path are resolved to the node of that beginning, and that
  the table being searched is that directory's; by `SearchRight` the next name is then found if
  and only if it was listed, and by `Rooted` a name not listed means that the path was not
  scanned (`LookupRightHolds`). The hypotheses of `LookupRight`, `ListingComplete` and
  `XattrsRight` are where the code goes astray: attributes on the way, which `Mount_xattrs`
  shows, and a root that was overwritten through an entry that had vanished (see above).
  What the handlers keep in their locals (`Handling`) completes `TypeCorrect`. `list_xattr` has
  written the first names that fit and counted all it passed, and once `left` is 0 it only
  counts (`ListedNames`); `get_xattr` searches the node's own sorted entries (`SoughtXattr`),
  whence `XattrsRightHolds`. In `DataProvider::read` what has been got is the beginning of what
  was asked for, and the next chunk and place in it are where that ends (`ReadSoFar`): division
  with remainder of an offset by the chunk size, kept from chunk to chunk, and an id that does not
  wrap as long as there is something left to read (`DividedBelow`), whence `ReadsOwnBytesHolds`.

With that, every invariant and action property of the passing runs is a theorem. Model-checked
only are the temporal properties `EveryReadReturns`, `CallsAreServed` and `RoundsEnd` (fairness
is beyond the prover) and the properties that the runs expect to be violated.

## Not modelled

* Data races inside the standard library's containers (`chunk_store.cc:136`,
  `connection_pool.h:86`, and `connection_pool.cc:110`, which changes the set `active_peers` while
  handlers may look into it; the model has its two orders, not the race itself): undefined, so that a model would say nothing of this code. The
  hazard list names them.
* A limit of 0 for the store, which makes `lru_collector.cc:12` undefined at once.
* `GetMetadata` and `fetch_metadata`, one call at start without state; `run_server_blocking`; the
  destructor of `ConnectionPool`, which a serving node never reaches; the shutdown of a mounted
  node.
* The generated gRPC code, LZ4, SHA-256 and libfuse, whose results are modelled where they
  matter; sizes in bytes in `MetaBuilder` and `Mount` (all cells have size 1 there); the numbers of
  `stat`, which are copied; what `get_symlink` does to the buffer of its caller: line 32 of
  `meta_file_system.cc` writes one character behind any buffer, and a target that is too long is
  cut; a source directory that does not exist;
  logging.
* `LruCollector::remove` and `get_file_position` of a path, which have no caller.
