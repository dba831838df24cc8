# Verification of network-disk-server

TLA+ modules, TLC runs and TLAPS proofs for the network disk server under `code/`.
Paths below are relative to the repository unless they name a file of this
directory. "Design document" is `docs/设计文档/大规模网盘系统设计文档.md`.

## 1. The system

A client registers a user over a *short connection* and uploads files over a
*long connection* (brpc). The server is one process (`code/cmd/serverMain.cpp`)
with both servers in it, a directory tree and a MySQL database:

    <usr_dir>/<usr>/                 home, made by registration
    <usr_dir>/<usr>/tmp/<sign>/<i>   parts of a file on their way in
    <files_dir>/<sign>/<i>           published files, one copy for all users
    <usr_dir>/<usr>/files/<sign>     symlink to the published file
    Usr(name, passwd)  SignMap(sign primary key, fileName, reference)

A client cuts a file into `shard` parts and sends one UPLOAD request per part.
The request that finds all names in place moves the directory to the store,
links it to the user and counts the reference. A file whose sign is already in
the store is only linked and counted ("speed upload").

### Inventory

| component | state it keeps | operations | modelled |
|---|---|---|---|
| upload service, `long_connect/upload_rpc.cpp` | files, SignMap, `_sql_mutex` | `Do`, `allPartArrived`, `linkToUsr`, `addSignMap` | `UploadRpc`, all operations; `DedupStore` is what they promise |
| RPC dispatch, `long_connect/long_connection.cpp` | the service object | construction, `Send` | `UploadRpc` (around `Do`), `NetDiskMessages` (every `op_type`), `UploadClient` (the answer) |
| file system wrapper, `file_sys.cpp` | descriptors | `Mkdir ExistDir ExistFile LsDir Write DeleteFile Link` | `FileSys`, `WriteLoop`, `UploadRpc`; the descriptors in `UploadClient` |
| SQL wrapper, `mmsql.cpp` | one connection | `Init RunQuery FetchRes Close` | `RunQuery`, `FetchRes` in `UploadRpc` and `ShortServer` |
| shell helper, `public.cpp` | output buffer on the stack | `ShellOut`, `Md5Sum` | outcomes in `UploadRpc` |
| upload client, `long_connect/brpc_client.cpp` | loop over parts, channel | `DoRequest`, `doUploadFile` | `UploadClient`, all operations |
| client program, `cmd/clientMain.cpp` | `g_is_login` | menu, `registOp`, `uploadOp`, `sendShortReq` | `UploadClient` (menu, upload), `ShortServer` (messages) |
| short-connection server, `short_connect/short_connection.cpp` | pipes to workers | accept, hand over | `ShortServer` |
| worker threads, `short_connect/mpthread.cpp` | event loop | `recvClientMsg` | `ShortServer` |
| request dispatch, `short_connect/control.cpp`, `view.cpp` | map of views | `Process` | `ShortServer` |
| registration, `short_connect/register_view.cpp` | Usr table, homes | `usrNotExist insertUsr createUsrDir` | `ShortServer`; `Accounts` is what they promise |
| MD5, `md5.cpp` | buffer, count, state | `init update finalize hexdigest transform` | `Md5` (the object), `Md5Transform` (the 64 steps) |
| messages, `proto/NetDisk.pb.*` | fields, `_has_bits_`, unknown fields | accessors, `Clear`, `MergeFrom`, `CopyFrom`, swap, serialize, parse, size | `ProtoMessage`, `NetDiskMessages`; not arenas, reflection and descriptors |
| server program, flags, logging | - | start | start and end of the process: `Restart`, `Kill` |
| `demo/` | - | - | not linked into the program |

### How they interact

* brpc runs `Do` for several requests at a time; the executions share the file
  system, and one `UploadRpc` object with one MySQL connection and one
  `_sql_mutex`. The mutex is held around the INSERT and the UPDATE of SignMap, not
  around the SELECT.
* Between two system calls of one execution any other may run: the name of a
  part appears before its content, a directory may be renamed while another
  execution has a file of it open, and `md5sum` and `mv` are other processes that
  work on paths.
* Registration runs in another thread with its own connections; the upload
  service meets it only in the home directory.
* Nothing is cleaned up after a crash. What survives is the tree and the tables, and for
  a while an `mv` that runs and a statement that MySQL has received.

### What makes it hard, and what makes it correct

| behaviour | property |
|---|---|
| parts of one file, and the same file of two users, in parallel | `PublishedHasAllParts`, `PublishedPartsAreWhole`, `AckedUploadIsLinked`, `PublicationIsStable` |
| renaming under an open descriptor, md5 of a path that is gone | `PublishedPartsAreWhole`, `PublicationIsStable`, `TypeOK` |
| `mv` reports through an uninitialised buffer | `NoDanglingLink`, `AckedUploadIsLinked` |
| crash between move, link and row; an `mv` that outlives the process | `CountedFilesAreLinked`, `PublicationIsStable` |
| unlocked SELECT on a shared connection | `WritesAreSerial`, `ConnectionIsExclusive` |
| statements that MySQL executes after the unlock or after a kill | `RequestsCountOnce`, `CountedFilesAreLinked` |
| a lock on an error path | `EveryRequestIsAnswered`, `WritesAreSerial` |
| SELECT-then-INSERT: counting the users of a file | `AckedUsersAreCounted`, `ReferenceCoversLinks` |
| chunks, zero bytes, short writes, old content | `LoopComputesWritten`, `OldTailSurvives`, `ShortBodyIsStored`, `BodyIsStored` |
| check-then-insert on Usr by several workers | `NameIsGivenOnce` |
| a crash or failure between account and home | `HomesAreRegistered`, `SuccessIsUsable` |
| blocking `recv` in an event loop | `SendersAreAnswered` |
| message types without a view | `ServerStaysUp` |
| a client that times out, retries and ignores failures | `OrderlyUploadHasAllParts`, `OrderlyAckedUploadIsLinked`, `SmoothUploadIsStored`, `UploadEnds` |
| cutting a file into parts that are used as C strings | `EveryByteIsStored` |
| symlinks when `opendir`, `popen` or `mv` may fail | `DanglingLinkNeedsFailure` |
| what the two servers amount to | `ImplementsStore`, `ImplementsAccounts` |
| a hash that is fed in pieces, its 64-bit count in two words | `StreamIsHashed`, `DigestIsRfc`, `DigestIsKnown` |
| messages that are reused, damaged, or written by another version | `UnsetIsDefault`, `SizeIsExact`, `SentIsReceived` |
| required fields a branch forgets | `AnswerIsComplete` |

`PROJECT.json` lists every hazard with its line.

## 2. The modules

| module | content |
|---|---|
| `FileSys` | what `FileSys::Write` leaves in a file, as operators on byte sequences |
| `WriteLoop`, `MCWriteLoop` | one call of `Write`, one action per system call; checks that the operators of `FileSys` are what the loop computes |
| `UploadRpc`, `MCUploadRpc` | concurrent executions of `UploadRpc::Do` over file system, SignMap and connection; uses `Written` for the effect of a `Write` |
| `DedupStore` | abstract specification of the upload service |
| `UploadClient`, `MCUploadClient` | client programs, channel and descriptors, composed with `UploadRpc` |
| `ShortServer`, `MCShortServer` | the short-connection server: main thread, workers, dispatch, registration |
| `Accounts` | abstract specification of registration |
| `Md5`, `Md5Transform`, `MCMd5` | class `MD5`; the transform of a block, on words of 32 bits |
| `ProtoMessage` | a generated message class: objects, their operations, the bytes between two of them |
| `NetDiskMessages`, `MCNetDiskMessages` | the two messages of the program and the code that fills them |
| `Arithmetic` | lemmas about division with remainder, least and greatest numbers, and induction over a set of numbers |
| `FileSys_proofs`, `WriteLoop_proofs`, `UploadRpc_proofs`, `UploadClient_proofs`, `ShortServer_proofs`, `Md5_proofs`, `NetDiskMessages_proofs` | the theorems |

### FileSys and WriteLoop

`Write` takes `strlen` of the body, writes chunks of `WRITE_LEN` that all start
at the beginning of the string, and opens without `O_TRUNC`. So
`Written(str, old)` is `Overlay(Emitted(CStr(str)), old)`. `WriteLoop` has the
variables of the function (`len`, the descriptor's `offset`, the `file`) and its
calls `Open`, `Chunk`, `Last`; a `write` stores any number of the bytes it is
given, because its result is never read.

### UploadRpc

A *handler* is one brpc worker. `pc[h]` is the next call of `Do`, `req[h]` the
request, `cmd[h]` the SQL statement, `fd[h]` what the descriptor inside `Write`
refers to: a file under `tmp`, a file that has since moved to the store
(`"pub"`), or a removed file (`"gone"`). Each action is one system call, shell
command or lock operation, with the computation that follows it:

| action | code |
|---|---|
| `Receive` | `Send`, the beginning of `Do` |
| `MkFilesDir` | `Mkdir(usr/files)`, fails while the home is missing |
| `ExistDir` | the test for a speed upload |
| `MkTmpDir`, `ExistFile`, `Md5Old`, `DeletePart` | up to the write; a matching old part is written again all the same |
| `OpenPart`, `WritePart` | the two steps of `Write` others can see |
| `Md5New`, `AllPartArrived` | the check of the part, the count of names |
| `MvDir` | `mv`, with the four outcomes: moved or not, reported or not |
| `LinkToUsr` | `symlink`; an existing link is a success |
| `SendQuery`, `CleanReply`/`RacedReply`, `FetchRes` | `mysql_real_query` in two steps, `mysql_store_result` and `mysql_fetch_row` |
| `ExecuteLate` | MySQL comes to a statement whose thread or process has gone on |
| `Lock` | `pthread_mutex_lock`; the unlock is part of the reply |
| `CreateUsrDir` | registration |
| `Kill`, `Restart` | the process |
| `OrphanEnds` | the end of an `mv` that outlived the process |

The file system is `homes`, `dirs` (which `tmp/<sign>` exist), `tmp`, `pub` (which
`files/<sign>` exist), `stored`, `links`; the table is `ref`. `delivered`,
`restarts` bound the run, `acked` remembers the parts answered with success.

Undefined behaviour is a choice. `ShellOut` returns an uninitialised buffer when
the command prints nothing: `AfterMv` takes either branch, and the md5 of a path
that is gone may compare either way (`Md5Matches`). Two threads on one MySQL
connection: from the first overlap of two exchanges on (`mixed`) every call on it
may do anything. `RacedReply` lets a thread read any answer, and its own statement
may be executed, or lost, or still to be executed: then it stays in `late`, the
thread unlocks and goes on, and `ExecuteLate` runs it later with nobody holding the
mutex. `mysql_fetch_row(NULL)` kills the process.

A process that dies (`Die`) leaves two things behind: the statement that a waiting
thread has sent may still be executed (`late`), and an `mv` is a process of its own
that may end after the restart (`orphans`, `OrphanEnds`). Either may also be lost
with the process.

`Faults` names the calls that may fail in an instance: `mkdir`, `opendir` (also for
want of a descriptor: `ExistDir` and `LsDir` leak one per call), `open`, `write` (disk
full), `remove`, `symlink`, `popen`, `mv`, `sql`, and `kill`, which ends the process
between any two steps. A statement that fails may have been executed.

Abstractions: a file name, user and sign are model values; the sums of different
contents differ; requests for one sign agree on `shard`; the three `mkdir` of
`MkTmpDir` are one step, since nothing depends on their intermediate states;
`readdir` sees one state of the directory; the logs and the text of responses are
left out.

### ShortServer

A client connects, sends one message or stays silent, and may hang up at any
time. `MainConnectByClient` takes the head of `backlog` and appends it to the
`pipe` of any worker. A worker `w` goes through `ReadFd`, `Recv` (blocked while
its client is silent), `UsrNotExist`, `InsertUsr`, `CreateUsrDir` and
`SendResponse`; `pc[w]`, `client[w]` and `text[w]` are the place, the
`client_fd` and the pending response. `rows` is the set of names in table Usr,
where name is unique (design document 6.4.1), and `homes` the directories that
`UploadRpc` calls `homes` too: `UploadRpc` lets `CreateUsrDir` happen at any time,
so it covers whatever registration does.

The kinds of messages are what `Control::Process` tells apart. The client sends
its type under the key `Type` and the server reads `TYPE`; a missing key reads as
0, which is REGISTER, so the registration of `clientMain` works. `HangUp` before
a message leaves an empty buffer, which does not parse. A message that parses but
is no object, or whose `TYPE` or `Name` cannot be converted (`asInt`, `asString`),
throws out of the callback and ends the process (kind `illtyped`). `Faults`: `sql`,
`mkdir`, `kill`. Left out: a failing write to a pipe, messages that arrive in pieces
or exceed the 512-byte buffer, and the length limit of the columns.

### DedupStore and Accounts

`DedupStore` has what a user sees of the upload service: which files are
`published`, who has `owned` which, and the `count` of each file. A file is
published for ever, owned only when published, counted by one at a time and only
when somebody owns it. `UploadRpc` implements it with `pub`, `links` and `ref`;
the visible steps are `MvDir` and `OrphanEnds`, `LinkToUsr`, and the reply to a statement
or its late execution.

`Accounts` takes a name from "free" over "claimed" to "ready" and then tells one
client. `ShortServer` implements it: a name is claimed with its row in Usr and
ready with its home; `told` is who got "Success" as answer.

### UploadClient

The module extends `UploadRpc` and leaves its actions as they are; a handler
receives what a client put on the `wire` (`Deliver`), and the step of `Do` that
ends it is the answer (`Serve`, `Reply`).

| action | code |
|---|---|
| `Register` | `registOp`, by its effect on the home |
| `UploadOp` | `uploadOp`, `DoRequest`, the beginning of `doUploadFile`: channel, sum of the file, `fopen` |
| `SendPart` | the body of the loop: `fread` into a buffer, `md5`, the setters, `Send` |
| `TimeOut` | `timeout_ms` has passed; the call fails, the loop goes on |
| `Reconnect` | brpc's retry when the connection is gone, `max_retry` times, then failure |
| `Proceed` | end of a call, answered or not: next part, or "success" |
| `ServerDies`, `ServerStarts` | the process, with its connections and descriptors |
| `Aftermath` | what it left behind: `ExecuteLate`, `OrphanEnds` |

`Slice` is what `fread` reads, and `BodiesOf` what is left of it as a C string:
the buffer has no terminator, so anything in `Behind` may follow. A part beyond
the end of the file has no bytes of its own. A failed call changes nothing in the
loop: after the last part `DoRequest` returns 0 and the user reads "success".
"not login" is printed and has no effect. Every client of the program runs as the
user `DEFAULT_USR`, hence `UsrOf`. A file that does not open is closed all the
same, which ends the client ("dead").

A connection is gone (`Broken`) in two ways. The server died or was not there, and
nothing stands for the call any more (`Lost`). Or the network broke it, at most
`MaxBreaks` times, with a live server: the request is then still on its way or at
work, and the retry is a second delivery beside the first.

The server has `MaxFds` descriptors. `ExistDir` and `LsDir` lose the stream they
open (`Leaks`); `Holds` counts these and the files open in `Write`. `opendir` and
`open` need one, `popen` two for its pipe, of which it keeps one while the command
runs (`Needs`). `Finds` says whether a handler finds what it needs; other handlers
that are at a command may hold an end or two of a pipe at that moment or not. Without
a descriptor the call fails (`Fails`); with one it works, or fails as `Faults` allows:
`mv` and the `fork` in `popen` may fail with descriptors left.

`serial`, `smooth` and `failed` record whether two handlers (or one, and an `mv` left
behind) ever ran at a time, whether any call failed or timed out, and whether a system
call that needs a descriptor, or an `mv`, did not do what it does on what exists
(`Works`), for want of a descriptor or without. They name the conditions under which
the properties of a client hold.

### Md5 and Md5Transform

`Update` is the entry of `update()`; `Fill`, `Chunk` and `Rest` are its three
copies, a step per block; `Finalize` and `AppendLength` are the two calls of
`update()` in `finalize()`, `Store` its end. What `transform()` does is the
parameter `Transform`; `Md5Transform` defines it as the code does, with `F G H I`,
the shifts and the sines of the 64 steps on words of 32 bits. `count` keeps its
two words of `WORD` values. `finalized` is checked where the code checks it: a
second `finalize()` does nothing, an `update()` after it fills a zeroed buffer and
leaves the digest.

### ProtoMessage and NetDiskMessages

All classes that protoc generated are alike, so a class is a sequence of fields,
and `ProtoMessage` has two objects of one class. An object is the values of its
fields, the set bits (`has`) and the unknown fields. `Clear` resets what the bits
say and all numbers if one of them is set; `Serialize` writes what is set and then
the unknown fields; `ByteSizeLong` has the fast path for a complete message. The
parser is a step per entry (`ReadNumber`, `ReadText`, `ReadUnknown`), with the
bits it collects stored at its end (`Collected`), also after a failure. Bytes are
entries of number, wire type and value; sizes are those of the encoding. `Tamper`
shortens what was written or adds an entry of another version. Values stand for
contents; a varint's bytes and the check of UTF-8 are left out.

`NetDiskMessages` adds what the program does with them: `SendPart` is the setters of
`doUploadFile`, `Send` the setters of `NetDiskServiceImpl::Send` for each `op_type`
and each outcome of `Do`.

## 3. Runs

| run | instance | shows |
|---|---|---|
| `write_loop` | `WRITE_LEN` 2, all bodies up to 5 bytes over two values, with zero bytes, over old files of 0, 1, 3, 6 bytes | the four properties of `WriteLoop` |
| `write_long` | the same | *violated* `BodyIsStored` |
| `upload_once` | 2 handlers, 2 users, 1 sign, 2 parts, each part once, noticed failures | safety of publication, `DedupStore`, liveness |
| `upload_faults` | 2 handlers, 1 user, 2 parts, each part twice, all faults, 1 restart | what holds whatever happens, with late statements and an `mv` that outlives the process |
| `upload_alone` | 1 handler, 2 users, each part twice with either of two bodies | resumed and repeated uploads: `PublishedPartsAreWhole` |
| `upload_client` | 1 client, 2 handlers, 2 parts of which the last is empty, 1 retry, 1 broken connection, 4 descriptors, 1 restart, failing `opendir`, `open`, `popen`, `mv`, kill, faults of the client | what a client may rely on; liveness |
| `upload_reference` | 2 handlers, 2 users, 1 part, no fault | *violated* `ReferenceCoversLinks` |
| `upload_connection` | 2 handlers, no fault | *violated* `ConnectionIsExclusive` |
| `short_server` | 2 workers, 2 clients, 1 name, all messages but LOGIN and EXIT, all faults, 1 restart | registration, `Accounts`, liveness |
| `short_login` | 2 workers, 2 clients, no fault | *violated* `ServerStaysUp` |
| `md5` | 9 pieces of 0 to 130 bytes, up to 3 of them, at most 200 bytes, words of the count of 1024 values | the object, and the digest of the RFC |
| `messages` | both classes, own and other object, 3 calls, a cut or an added entry | the messages |

Bounds. Two parts are the least for which "all parts" differs from "this part", two
handlers the least that interleave, two users the least that share a sign; signs do
not interact except through the connection, which two handlers of one sign already
contend for. Every chunk boundary of `Write` (shorter, equal, longer, two chunks)
occurs for bodies up to five bytes with `WRITE_LEN` 2. A part is delivered at most
`MaxDeliver` times and the process restarts at most `MaxRestarts` times; `Drained` and
`Finished` are the states where the bounds leave nothing to do, so deadlock checking
stays on in the runs of both servers and would report a handler that is stuck.
`MCWriteLoop` ends in `Done`; an `MD5` object may be left alone after any call and a
message too, so their runs allow a deadlock at the bounds `MaxUpdates` and `MaxCalls`.
Two clients on two workers put both on one pipe or both in the check-then-insert;
names meet nowhere but in `rows`, so one is enough to compete for. One client and two
handlers suffice in `upload_client`, because a time-out makes a client compete with
itself. One broken connection and two deliveries put the retry beside its first
delivery; more need more handlers. Four descriptors are the least with which an upload
can go through, with leaks on the way, and few enough to run out within one upload.
The pieces of `md5` hit every branch of `update()` and `finalize()`: an empty piece,
one that just fills the buffer, one with whole blocks behind it, ends before and
behind 56 of 64 bytes; with `WORD` 1024 the low word of the count overflows at 128
bytes. In `messages` only the fields the program varies have more than one value, and
texts are short, so a length is always one byte, while a number may need two. Symmetry
over handlers and users is used in safety runs only.

Why the properties are split over runs: `NoDanglingLink`, `PublishedHasAllParts`,
`PublishedPartsAreWhole` and `AckedUploadIsLinked` are false when `mv` or `popen`
fail unseen, when a disk is full, or when a part is redelivered while its first
delivery is still in progress; the runs state them where they hold. In ordinary
use as well a file may be in the store for a while with a part whose name exists
and whose bytes do not: the count of names does not tell. `PublishedPartsAreWhole`
is therefore about the end of the requests: the late write goes through the
descriptor to the moved file. On a full disk a part that failed its check stays
under `tmp`, is counted by a later request and published.

What a client may rely on, from `upload_client`:

* A call that times out sends the next part while the server works on the last one.
  That loses nothing, and neither does sending a part again after a connection that is
  gone, alone. Both together may: without the condition `Orderly`, a part can be
  missing from what is published.
* "success" is true if nothing failed on the way. It is also shown when every
  call failed, when the sum of the file could not be computed, and to a user
  without an account, whose parts the server refuses; `smooth` excludes these.
* When `LsDir` fails, as it does when the descriptors are used up, the last part of an
  upload succeeds and nothing is published; a `mv` that failed, or could not be
  started, counts as done: a symlink without a file. `DanglingLinkNeedsFailure` says
  that nothing else leads there: no time-out, retry, kill or orphaned `mv`.
* Every byte of the file is at its place in what is published. Behind it there may be
  bytes that lay behind the client's buffer: `EveryByteIsStored` tolerates them.
* The upload ends (`UploadEnds`), because every call has a time-out.

### Violations

* `write_long`: the loop repeats the first chunk (`file_sys.cpp:50`). With
  `WRITE_LEN` 4096 and parts of two bytes the client never meets it.
* `upload_reference`: two users upload a file for the first time, both SELECTs see no
  row (`upload_rpc.cpp:153`), the second INSERT hits the primary key: two links,
  reference 1. A deletion that trusted it would take the file from one of them. The
  user whose INSERT failed is told "link failed", so whoever was told success is
  counted: `AckedUsersAreCounted`, checked in `upload_once`. With requests one at a
  time the reference is never too small (theorems `AloneReferenceCovers`,
  `SerialReferenceCovers`). It may be too large, and for that needs no concurrency: each
  part of a speed upload, and each repeated delivery, adds one (`upload_rpc.cpp:164`).
  `RequestsCountOnce` bounds it by the requests that came in.
* `upload_connection`: the SELECT holds no lock.
* `short_login`: `_view_map` has no entry for LOGIN and EXIT; the null view ends
  the process, and the upload service with it.

## 4. Fairness

`FairSpec` adds `WF(Progress(h))` for every handler: brpc's workers are threads
that the operating system schedules, and MySQL, the shell and the file system
answer. No fairness is assumed of clients, registration, faults, crashes or
restarts. `RacedReply` is excluded: a thread whose answer was read by another one
may wait for ever. Hence `EveryRequestIsAnswered` is stated for behaviours in which
no exchange overlaps; in those no handler waits for ever for the mutex. Weak
fairness of `Lock` suffices there, because requests are finitely many.

In `UploadClient`, only the client program is fair: `WF(SendPart(c))`, because
`fread` and the setters return, and `WF(TimeOut(c))`, because brpc's timer fires.
Nothing is asked of the server, of the connection or of the user. `UploadEnds`
holds with no help from the server: it may be dead or never answer.

In `ShortServer`, `WF(MainConnectByClient)` and `WF(Work(w))` stand for the event
loops of the threads. Clients are not fair. A silent client holds its worker in
`recv` for ever, so `SendersAreAnswered` assumes that every connected client sends
or hangs up in the end.

`Md5`, `WriteLoop` and the messages are sequential and state no liveness.

## 5. Proofs

The theorems hold for every value of the constants that the modules' assumptions
admit, which the runs evaluate:

* `WriteLenAssumption`, `ContentsAssumption`, `UploadAssumption`, `NoReqAssumption`:
  constants are of their types, `Absent` is no content, `NoHandler` no handler,
  `NoReq` no request.
* `ClientAssumption`, `ShardAssumption`, `BodiesAssumption`: the
  server has finitely many handlers, and a body that a client may read is one of
  `Bodies`.
* `ShortAssumption`, `Md5Assumption` (a word is a multiple of 512 and larger; pieces
  are shorter than a word can say).
* `ClassAssumption`, `OwnAssumption`, `FilledAssumption`: a class is a sequence of
  fields in the order of their numbers, with tags of one byte and defaults among the
  values; an entry of a later version is one that the class does not know; what the
  program fills in are values of the fields.
* `SizeAssumption`: a value takes a natural number of bytes, as numbers of 32 bits
  and texts shorter than such a number says do.

| theorem | property | for every |
|---|---|---|
| `WrittenType`, `ShortBodyIsWritten` | of `Written` | body, file, `WRITE_LEN` |
| `LoopTypeCorrect` | `TypeOK` | body, file, `WRITE_LEN`, failing writes |
| `OldTail` | `OldTailSurvives` | the same |
| `LoopComputes` | `LoopComputesWritten` | the same |
| `ShortBodyStored` | `ShortBodyIsStored` | the same |
| `TypeCorrect` | `TypeOK` | handlers, users, signs, parts, deliveries, restarts, faults, bodies |
| `CountedFilesLinked` | `CountedFilesAreLinked` | the same |
| `WritesSerial` | `WritesAreSerial` | the same |
| `RequestsCounted` | `RequestsCountOnce` | the same |
| `PublicationStable` | `PublicationIsStable` | the same |
| `NoDangling` | `NoDanglingLink` | the same, if `mv` and `popen` do not fail |
| `StoreImplemented` | `ImplementsStore` | the same, if `mv` and `popen` do not fail |
| `PublishedComplete` | `PublishedHasAllParts` | the same, if no part is delivered twice |
| `AlonePublishedComplete` | `PublishedHasAllParts` | one handler, any deliveries, any fault but a kill |
| `PublishedWhole` | `PublishedPartsAreWhole` | as `PublishedComplete`, if `write` and `remove` do not fail and bodies are short |
| `AlonePublishedWhole` | `PublishedPartsAreWhole` | the same with one handler, any deliveries |
| `AckedLinked` | `AckedUploadIsLinked` | as `PublishedComplete`, if `opendir`, `mv` and `popen` do not fail |
| `AloneReferenceCovers` | `ReferenceCoversLinks` | one handler, no failing statement and no kill, any other fault |
| `SystemIsService` | `SysSpec => Spec` | clients, files, uploads, retries, descriptors, and what `TypeCorrect` has |
| `SysTypeCorrect` | `SysTypeOK` | the same |
| `LinkHasFile` | `DanglingLinkNeedsFailure` | the same |
| `OrderlyUploadComplete` | `OrderlyUploadHasAllParts` | the same |
| `OrderlyAckedLinked` | `OrderlyAckedUploadIsLinked` | the same |
| `SystemImplementsStore` | `ImplementsStore` | the same, in behaviours in which no `opendir`, `open`, `popen` or `mv` fails |
| `SerialReferenceCovers` | `ReferenceCoversLinks` | the same, requests one at a time, no failing statement and no kill |
| `OrderlyPublishedWhole` | `PublishedPartsAreWhole` | the same, `Orderly`, if `write` and `remove` do not fail and bodies fit one write |
| `EveryByteStored` | `EveryByteIsStored` | the same, if `write` and `remove` do not fail and bodies fit one write |
| `SmoothUploadStored` | `SmoothUploadIsStored` | as `EveryByteStored`, if `mkdir` does not fail either; `~failed` is part of the property |
| `ShortTypeCorrect` | `TypeOK` | workers, clients, names, kinds of messages, faults, restarts |
| `NameGivenOnce` | `NameIsGivenOnce` | the same |
| `SuccessUsable` | `SuccessIsUsable` | the same |
| `HomesRegistered` | `HomesAreRegistered` | the same |
| `AccountsImplemented` | `ImplementsAccounts` | the same |
| `ObjectTypeCorrect` | `TypeOK` | texts, pieces, word sizes, transforms |
| `EveryByteHashed` | `StreamIsHashed` | the same |
| `DigestCorrect` | `DigestIsRfc` | the same |
| `UnsetFieldsAreDefault` | `UnsetIsDefault` | classes, values, calls, and messages that arrive as written, cut, or with unknown entries behind |
| `AnswersAreComplete` | `AnswerIsComplete` | values, calls, messages |
| `MessagesTypeCorrect` | `TypeOK` | classes, values, objects, calls, and messages as for `UnsetFieldsAreDefault` |
| `MessagesAreReceived` | `SentIsReceived` | the same |
| `BufferFits` | `SizeIsExact` | the same |

**Write.** `FileInv` bounds the position and the rest of the string by what the
loop has tested, and says that the bytes behind the position are the old ones.
`FullInv` adds, for calls in which no write falls short, that position and rest
add up to the length of the string, that the loop stops at multiples of
`WRITE_LEN`, and that the bytes before the position are the first `WRITE_LEN` of
the string over and over. When the loop is done, file and
`Overlay(Emitted(...), old)` agree byte by byte.

**Upload service.**

* `TypeInv` is `TypeOK` with `ReqInv` (a busy handler has a request) and `FdInv` (a
  descriptor is open only inside `Write`; one to `tmp` refers to an existing part,
  one to the store to a part of a published file). `FdInv` is what makes `TypeOK`
  inductive: `Written` is applied to a file only if there is one, across the rename
  that turns descriptors from `"tmp"` into `"pub"`.
* `CountInv` adds `SqlInv` (a writing statement is at the connection only while its
  handler holds the mutex) and `LinkInv` (after `LinkToUsr` the handler's user has
  the link) and `LateInv` (so has the thread of a statement in `late`). An INSERT or
  UPDATE can then only count a linked file, in the exchange or after it.
* `RequestsCounted`: `OnceCounted` adds the requests being handled to the reference and
  the statements in `late`. The sum never exceeds the requests that came in: the answer
  to a writing statement either executes it or leaves it in `late`, at most once, and
  ends the request; a death moves at most one request to `late`, since of the
  threads that wait at most one has sent a write (`SqlInv`).
* `StoreInv`: a part in the store lies in the directory of a published file.
* `PlaceInv`: while a handler works on a part its directory is under `tmp` or the
  sign is published; at the link it is published. The rename of another handler
  moves a directory from the first alternative to the second. With `StoreInv` a
  refused `mv` means that the sign is published.
* `PublicationStable` needs `TypeInv` only: `mv` replaces no directory with files
  in it, also when it outlives its process, and a write to the store comes from a
  descriptor opened before the move.
* `StoreImplemented`: a step of `DedupStore` is a `MvDir`, a `LinkToUsr`
  (allowed by `PlaceInv`), a reply (allowed by `LinkInv`), an `ExecuteLate` (allowed by
  `LateInv`) or an `OrphanEnds`; all others leave `pub`, `links` and `ref` alone.

The next ones are about the parts of a file, and all go through one lemma
(`NextPartStep`): of a handler's steps only `Makes`, `Removes`, `Opens`, `Stores` and
`Moves` touch the files, each in its own way; every other step looks and moves on.
Around the handlers only the end of an orphaned `mv` touches them.

* `PublishedComplete`: between the count of the names and the `mv` a part could go, by
  the `DeletePart` of another delivery of it, or because somebody else moved the
  directory and a third one made a new one. `MoveInv` says that neither has happened
  to a directory that an `mv` is about to move (`Moving`), be it that of a handler or
  one of `orphans`. It is not inductive by itself. With single delivery, `OnceInv` is
  what it needs: no two handlers have the same part (`DistinctParts`), and a part
  under `tmp` or in the store came in and its handler is past the open (`Opened`), so
  nobody is left to delete it or to begin again. With one handler and no kill
  `OneAtATime` and `orphans = {}` do the same (`AlonePublishedComplete`); with a kill,
  the handler of the restarted process and the `mv` of the dead one are two. Both
  together, a second delivery and a second handler, lose parts; no theorem can hide
  that.
* `PublishedWhole`: `WholeInv(W)`, where `W` says which body fits which part. A file
  under `tmp` or in the store is in `W` or is open (`TmpWhole`, `StoredWhole`); what is
  open is empty or already what its writer will put there (`ToBeWritten`), since
  `O_TRUNC` is missing; and the descriptors on one published part belong to one
  user (`OneUpload`), because the directory of a second user cannot be moved over
  it. The hypotheses are the code's: a body longer than `WRITE_LEN` or with a zero
  byte is stored damaged, fails its md5 check, and stays under `tmp` where the next
  part counts it; so does one cut short by a full disk; and where `DeleteFile`
  fails, a shorter body is laid over a longer one.
* `AckedLinked`: `AckInv` says of every upload that it is linked, or its handler is
  between the `mv` and the link (`Owed`), or its answered parts all have their names
  and one part is not answered. The last handler to count is the one that closes
  the gap. An upload whose `mv` was orphaned is linked or lacks an answer for ever
  (`OrphanOwed`). `opendir` is excluded because a failed `LsDir` makes the last part
  succeed without publishing.
* `AloneReferenceCovers`: `AnswerInv`, that no exchange overlaps another and that a
  SELECT that found a row is still right when the UPDATE goes out, `NewInv`, that with
  working statements and no kill no statement is late and there is still no row when the
  INSERT goes out, and `CoverInv`,
  that links are at most the reference plus the statement that is on its way: a new
  link adds at most one (`Cardinality` of a set with one element more). The steps
  (`AnswerStep`, `CoverStep`) need only `OneAtATime`, not a single handler.

**Clients.** `SystemIsService` maps every step of the composition to a step of
`UploadRpc` or a stutter, so each theorem about `Spec` holds with clients. The
conditions of the properties become the left sides of the invariants:

* `PlacedUnlessFailed`: `PlaceInv` as long as nothing failed that needs a descriptor, nor
  an `mv` (`NothingFailed`); `LinkHasFile` is one of its conjuncts.
* `SerialPublished`: while requests came one at a time, `OneAtATime`, `LeftAlone` (an
  orphaned `mv` has no handler beside it; the next request ends `serial`) and `MoveInv`
  hold; with `OncePublished` it covers both halves of `Orderly`, and
  `OrderlyUploadComplete` follows for any faults and crashes.
* `OrderlyAckedLinked` has two cases. Parts delivered once: `AckInv`. Parts
  delivered again, one at a time: `SerialAckInv`, in which an answered part has its
  name except between the delete and the open of its next delivery (`Held`). A
  crash at that very place loses an answered part, which is why the property, and
  the invariant, are about a server that never died (`NeverDied`).
* `SystemImplementsStore`: with `PlacedUnlessFailed` in the place of `PlaceInv` every step
  of the composition is one of `DedupStore` or a stutter, until an `opendir`, `open`,
  `popen` or `mv` fails.
* `SerialReferenceCovers`: `AnswerInv`, `NewInv` and `CoverInv` while requests come
  one at a time (`SerialAnswered`, `SerialCovered`), for any number of handlers.
* `OrderlyPublishedWhole`: `FileWhole` and `OrderlyUploadComplete`. An orderly run
  publishes all parts, and each of them whole.
* `EveryByteStored` puts the chain together, from the file of the client to the
  bytes in the store. `BodyInv`: a body that waits, travels or is worked on is one of
  `BodiesOf` its part. `FileWhole`: `WholeInv` with exactly these. The rest is
  arithmetic: byte i is byte `(i - 1) % M + 1` of part `(i - 1) / M + 1`
  (`PlaceOfByte`), a part is a contiguous piece (`SliceFacts`), and what lies behind
  it in the buffer comes after it (`CStrReadsOn`). The hypothesis that a body fits
  one write holds for the program: `MAX_SIZE_PER_SHARD` is 2 and `WRITE_LEN` 4096.
* `SmoothUploadStored` ties a client's place in its loop to what the server has done
  for it. `ServInv`: a handler works on the request of the call it will answer.
  `SmoothInv`: the parts before the one a client is at stand under `tmp`, or the file
  is published. A request that ends without a failure leaves its own part standing
  (`AnswerStores` goes through every place of `Do` that answers), and the last one
  cannot miss a name, so it publishes. Each condition of the property is used:
  `smooth` because a call that timed out goes on to the next part all the same,
  `serial` because another handler may remove or overwrite a part before the one that
  wrote it checks it, `~failed` because a `popen` that fails ends the request and a
  failed `mv` passes for one that worked, `NeverDied` because a part may be lost in a
  crash. That the link is counted is a separate invariant: `AnswerInv`, which holds
  whatever statement fails, and `SerialCounted`, in a process that never died: the
  answer that completes an upload comes from an INSERT or UPDATE that succeeded.

**Registration.** `ClientInv` says that a worker past `recv` serves a client with
a message, and that the message of a client is set once. `NameInv` is about
*winners*: the clients for which a worker has inserted the row and those told
"Success". Their names are in `rows` and differ. The insertion is the only step
that makes a winner, and it needs a name that is not in `rows`; hence the unique
column, not the check in front of it, carries the argument. For
`AccountsImplemented` an answer must never be replaced: `PlaceInv` says that a
descriptor is in one place only, in the backlog, in one pipe or with one worker,
and that its client has no answer yet.

**MD5.** `Md5Inv` says where the bytes of the stream are at every step of
`update()`: block k holds bytes 64(k-1)+1 to 64k; the input is the end of the
stream; the buffer begins with the bytes behind the last block, as many as `index`
while a call is in progress. Each copy preserves it because the lengths add up.
That `index` is the number of bytes held, and that the test `count[0] < length <<
3` detects the carry, is arithmetic modulo a parameter (`CountFacts`,
`CountedFacts`), which rests on the uniqueness of quotient and remainder
(`Arithmetic`); it uses that a word is a multiple of 512.

`DigestCorrect` needs more than the place of the bytes. `RfcInv`: until `finalize()`
is done the state is the fold of the transform over the blocks (`Digested`), and the
stream is the text; when `finalize()` calls `update()` for the second time, the stream
with the length behind it is the text as the RFC pads it. A late `update()` leaves
digest and `text` alone, and so does a second `finalize()`. The fold of the library is
a recursion over the length of its sequence. The prover knows nothing of such a
recursion, so its existence and uniqueness are proved first (`RecursionExists`,
`RecursionUnique`), hence that one block more is one transform more (`FoldAppend`).
The padding is equal byte by byte (`PaddingIs`, `AppendedIsPadded`): the number of
bytes `finalize()` chooses by comparing `index` with 56 is the least that leaves room
for the length.

**Messages.** In every object, and in the one the parser is filling together with
the bits it has collected, a field without its bit has its default value. For the
objects filled by the program the inductive part is that `filled` names what was
done last.

`TypeOK` is not inductive, because the parser takes values from the wire.
`MsgTypeInv` adds what can be there: fields of the message `sent`, unknown entries,
and either of them cut (`Piece`, `CutOff`). A class has one field per number, so an
entry that is not cut has the value its field was sent with (`FieldRead`), and one
that no field matches is unknown (`UnknownRead`).

`MessagesAreReceived` follows the parser with `ReceiveInv`. Whatever was done to the
wire, the fields read so far have the values sent (`AsSent`): the parser stops at a
cut entry, and what is accepted has all fields. While the wire is as it was written,
the parser at entry n has read the first n - 1 fields of the class and then the
unknown entries in their order (`Got`), so it never fails, and ends with the message
sent. `SerializeAll` and `UntouchedWire` say where on the wire each of them is.

`BufferFits` compares two sums: `ByteSizeLong` adds what is set field by field, in no
order that matters, and the wire is a sequence. `Adds` describes a sum over a finite
set by what it does for one element more, `AddsStep` shows that any element may be
taken out first, and `AddsExists` that there is one. On the wire field n is the n-th
that is set (`Rank`, `Nth`), so each is written once (`FieldsAreWritten`), and
`RunningTotal` adds up along the sequence.

**Induction.** The library's induction rules take a formula as an operator, which
the provers cannot instantiate. `Arithmetic` has the rule for a *set* of numbers:
one that has 0, and with n also n + 1, is `Nat` (`Induction`). It follows from the
well-foundedness of `<`, and a formula becomes a set by comprehension. Everything
above that is about sequences and sums of any length rests on it.

Checked by TLC only:

* `DigestIsKnown`: the sums the RFC lists for given texts. They are facts about the
  one transform of `Md5Transform`, which is computed with recursive operators on
  words of 32 bits; the provers reach neither. `DigestIsRfc` is proved for every
  transform.
* `EveryRequestIsAnswered`, `SendersAreAnswered`, `UploadEnds`: liveness under
  fairness.

## 6. Not modelled

* `demo/`: stand-alone trials of libraries, not linked into the program.
* Of the generated code: arenas, reflection, descriptor tables, the default
  instances and the service stub. They hold no state of the program and only hand
  on what the modelled operations do.
* Opening and closing the SQL connection: `Init` is called once at the start and
  its failure is not handled.
* The 256-byte buffer of `ShellOut` and its missing terminator: the commands of
  the program print a sum and a name, and what a longer output does to the stack
  is not a behaviour of the program.
* Logging and flags: no state.
* `loginOp`, `exitOp`, `downloadOp` and the DOWNLOAD branch of `Send`: empty in the
  code. `AnswerIsComplete` says what becomes of the latter.
* The text `parseRespons` prints for each answer.

## 7. Plan

1. Done: `FileSys`, `WriteLoop`, `UploadRpc`, `ShortServer`; `DedupStore` and
   `Accounts` with their refinements; `UploadClient`; `Md5`; the messages; the
   proofs of section 5.
2. Theorems left: none of a property that is in the prover's reach. What the service
   promises is also proved of the composition with its clients, under the conditions
   of `Orderly` and `serial`.
3. Models left: none that would add a behaviour; several clients in
   `upload_client` and names of several signs are larger instances of what is there.
