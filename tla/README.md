# face_id: TLA+ models, model checking and proofs

face_id is a face-recognition server. Clients connect over TCP, send one JSON
request per frame (register, withdraw or recognise a face, with the picture in
it) and read one reply per request. This directory holds TLA+ models of the parts of the
server where threads, failures and orderings decide whether it is correct, and
of the code that looks at pictures, where buffers, offsets and boundaries do;
TLC configurations that check them on small instances; and TLAPS proofs of the
most important properties for every size of instance.

Paths below are relative to the repository; `base/` stands for
`3rdparty/base/`, the project's own utility library, and files without a
directory are in `src/`.

## The system

| Part | State | Operations | Talks to |
|---|---|---|---|
| Reactor (`base/base_reactor.cpp`) | epoll set, map fd -> handler | `svc`: accept, dispatch a readable fd, close | calls the event handler, in one thread |
| Event handler (`req_tcp_event_handler.cpp`) | none between calls | `handle_accept`, `handle_input`, `handle_close` | reads a frame, pushes a `Request` |
| Request queue (`req_mgt.cpp`, `base/base_queue.inl`) | deque, limit, mutex, condition | `full`, `push`, `pop` | reactor produces, workers consume |
| Workers (`req_processor.cpp`) | one request each; the global `g_mode` | `svc`, called for ever by each thread | queue, handler pool, recogniser, socket |
| Handler pool (`face_handler_mgt.cpp`) | array of handlers with busy flags, free counter, mutex, condition | `get_handler`, `put_handler` | workers |
| Reply (`msg_oper.cpp`) | one mutex for all sends | `send_evg_msg`, `send_msg` | writes to the fd noted in the request |
| Protocol (`protocol.cpp`) | none | `req_parse`, `gen_*` | writes the `mode` member into `g_mode` |
| Users (`user_mgt.cpp`, callers in `*_recognizer.cpp`) | vector `m_users` | `init`, `user_exist`, `add_user`, `del_user` | MySQL session |
| MySQL session and pool (`mysql_conn.cpp`, `mysql_mgt.cpp`) | connection, autocommit mode, `_used` flags | `execute_sql`, `commit`, `rollback`, `autocommit`, `get_conn`, `release` | MySQL server |
| Recogniser (`insightface_recognizer.cpp`, `facenet_recognizer.cpp`) | the network, the threshold | extract features, search for the nearest user | users |
| Detector (`mtcnn.cpp`, `face_detector.cpp`) | three networks, lists of boxes | propose, suppress (`nms`), move and cut (`refine`) | the engine |
| Network engine (`ncnn/`) | layers and blobs; per extractor the blobs' Mats, which share counted buffers | load parameters and weights, `extract`, layers, borders, scaling, pixels | files |
| Codecs (`codecs.cpp`) | none | base64 to and from pictures | OpenCV |
| Framing (`base/base_socket_oper.cpp`) | none | `recv_n`, `send_n` with timeouts | kernel |
| Threads, smart pointers, singletons (`base/`) | thread ids, reference counts | `run`, `inc_ref`, `dec_ref`, copies and destruction of pointers | everything |
| Configuration, start up (`conf_mgt.cpp`, `main.cpp`) | values read once | `Conf_Mgt::init`, `refresh`, `main` | everything |

A request's way: the reactor thread accepts, reads a frame with
`handle_input`, builds a `Request` that carries the descriptor number, tests
`full()`, then pushes. A worker pops it, parses it (which sets `g_mode`),
decodes the picture, takes a face handler or waits for one, detects, then
registers, withdraws or recognises, puts the handler back, and sends the reply
to the descriptor number.

What is hard here, and what makes each part correct:

- *Handler pool.* Waiters, newcomers and signals interleave. A handler has one
  user; the counter that decides who waits is exact; no wakeup is lost.
- *Queue.* Two-step full/push, broadcast, a pop that waits only once. Requests
  are taken once and in order, the limit holds, nobody sleeps over work.
- *Request path.* Requests outlive connections, descriptors are reused, a
  global is shared by all workers. Each request has one reply, it reaches its
  sender, in the mode that was asked for.
- *Framing.* Bytes arrive in pieces, clients leave or stall anywhere, one
  thread reads for all. Requests are the client's frames, whole and in order;
  a close does not overtake frames; a stalled client does not stop the others.
- *Users.* Two tables and a vector change in four SQL calls whose results are
  partly ignored; the connection may break and the process is stopped with
  `kill -9`. Tables and vector agree; a confirmed user is stored.
- *What a request needs.* The request object and the MySQL connections are
  counted objects shared by threads; connections are taken under one mutex and
  given back under another; a client may stop reading its reply; threads may
  fail to start. Nothing is freed twice or early, no connection has two users,
  replies do not mix, and whoever can connect is served, if a thread runs that
  could.
- *Pictures.* Networks share buffers and reuse them, boxes grow past the
  picture, vectors go through six digits of text, channels have gaps. An output
  has the value its file says, crops lie inside the picture, no box is lost
  without a better one, and a registered face is recognised after a restart.

`PROJECT.json` lists every hazard at its line with the properties that cover it.

## Modules

| Module | Models | Extends / instantiates |
|---|---|---|
| `AbstractPool` | what the pool promises: exclusive owners, refusal only when all are in use | |
| `HandlerPool` | `Face_Handler_Mgt`, one action per critical section | refines `AbstractPool` |
| `HandlerPool_proofs` | theorems about it | `HandlerPool`, `TLAPS` |
| `AbstractQueue` | what the queue promises: bounded FIFO, one consumer per request | |
| `ReqQueue` | `X_Queue` and its callers' two-step protocol | refines `AbstractQueue` |
| `ReqQueue_proofs` | theorems about it | `ReqQueue`, `TLAPS` |
| `FaceService` | clients, reactor, workers, replies | composes `ReqQueue` and `HandlerPool` |
| `FaceService_proofs` | theorems about it | `FaceService`, `TLAPS`; instantiates `ReqQueue_proofs` and `HandlerPool_proofs` |
| `Framing` | the reactor's event batch, `handle_input` up to the request, `recv`, `recv_n` | |
| `Framing_proofs` | theorems about it | `Framing`, `TLAPS` |
| `UserStore` | `User_Mgt`, the two tables, the MySQL session, crash and restart | |
| `UserStore_proofs` | theorems about it | `UserStore`, `TLAPS` |
| `Server` | the threads, requests and descriptors the next four share | |
| `SharedPtr` | `RefCounter`, `Smart_Ptr_T` | |
| `ConnPool` | `mysql_mgt`, `MySQL_Guard` | `Server` |
| `ReplyChannel` | `send_evg_msg`, `send_n`, the clients' reading | `Server` |
| `Startup` | `main`, `Thread::run` | `Server` |
| `RequestLife` | the request from its `new` to its `delete` | composes the four above |
| `RequestLife_proofs` | theorems about `SharedPtr`, `ConnPool`, `Startup` and the whole | `RequestLife`, `TLAPS` |
| `Mats`, `Pixels` | `ncnn/mat.*`, `mat_pixel.cpp`: layout, views, borders, scaling, pixels | |
| `ParamDict`, `Layers` | `ncnn/paramdict.*`, `layer/`: parameters, weights, the layers of MTCNN | `Mats` |
| `NcnnNet` | `ncnn/net.cpp`: loading and the extractor | |
| `NcnnNet_proofs` | induction in first-order form, the engine's invariant | `NcnnNet`, `TLAPS` |
| `Detection` | `mtcnn.cpp` | |
| `Recognition` | recogniser and text form of the features | |
| `Codec`, `Config` | `codecs.cpp`, `conf_mgt.cpp` | |
| `Kernels` | no code: what the pure functions ought to compute, and the inputs they are compared on | the five modules of pure functions |
| `Vision` | the picture code as one specification | `NcnnNet`, `Detection`, `Recognition`, instance of `Kernels` |
| `Vision_proofs` | theorems about it | `Vision`, `NcnnNet_proofs` |
| `MCHandlerPool`, `MCFaceService`, `MCFraming`, `MCVision` | the above, with symmetry sets for the safety runs, or with concrete streams, networks, pictures and faces | |

### HandlerPool

`busy` and `free` are the busy flags and `m_free_handler_num`; `pc[w]` says
whether worker `w` is outside, in the condition variable's wait set, woken and
on its way to the mutex, using a handler, or back from `get_handler` with
nothing. `Get` and `Wait` are the two ways through `get_handler` up to its end
or its wait, `Resume` is what follows the wait, `Put` and `PutNull` are
`put_handler`. Each action is one stretch under the mutex, so it is atomic.
The wait is behind an `if`, so `Resume` scans without testing the counter again.

### ReqQueue

`Receive`, `CheckFull` and `Push` are the end of `handle_input`: `full()` and
`push_req()` take the mutex separately. `Pop`, `PopWait`, `PopResume` are
`pop`. The two outcomes of a full queue are kept apart: `rejected` (told by
`full()`) and `failed` (told by `push`). `arrived` keeps each request from
arriving twice; it is no state of the code. The handler is run by one reactor
thread in the server; the queue itself is checked with two producers, and
`FaceService` uses it with one.

### FaceService

The composition instantiates the two modules with the one reactor as producer
and the workers as consumers and pool users, and adds descriptors (`peer`),
clients, the stages of `svc` and `g_mode`. `accept` hands out the lowest free
descriptor, as the kernel does. The content of a request is the branch it
makes `svc` take (`Kinds`) and its `mode`. `handle_input` reads whole frames
here: how they are cut out of the byte stream is in `Framing`.
The reply is lost when nobody is behind the descriptor.

### Framing

`Stream[c]` is what client `c` has to send and `Start[c]` where its frames
begin; `arrived` and `read` count the bytes that reached the socket and those
the server took, `end` is the client's close or reset. `Wait` is `epoll_wait`,
`batch` the events still to be handled. `Header`, `HeaderEof` and `HeaderError`
are `handle_input` up to the one `recv` that is taken for the whole length;
`RecvSome`, `RecvNothing`, `RecvEof`, `RecvError` and `Timeout` are the turns
of `recv_n`'s loop, which polls this connection alone. A header that came in
pieces gives a length from the bytes that were there, with zeros for the rest
(`Length`); a length of zero makes `::recv` return 0, which closes the
connection; a time-out drops what was read and keeps the connection. After
either the server is out of step with the client, so the history variable
`upset` marks the connection, and the safety properties speak of the others.

That is a limit of the code worth knowing: four bytes split over two segments,
or a body that takes more than a second, and every later request of the
connection is garbage until it closes. Nothing in the repository promises
otherwise, so it is no finding. (The buffer for a length that is garbage,
`req_tcp_event_handler.cpp:86`, may be larger than the memory there is; the
`bad_alloc` that nobody catches then is not modelled.)

### UserStore

One action per SQL call of `add_user` and `del_user`, in their order, with the
rollback macro and the ignored results as they are. The MySQL side is external
and modelled from how the code uses it: an implicit transaction while
autocommit is off, its loss when the connection or the process dies,
`MYSQL_OPT_RECONNECT` (`mysql_conn.cpp:272`), which re-establishes a broken
connection at the next call unless the client library believes a transaction is
open, and a new session's autocommit mode, which is on. A call may also be
carried out and its answer lost. One operation runs at a time because it needs
a face handler: `face_handler_mgt.cpp:27` makes one, and `HandlerExclusive` says
it has one user.

### RequestLife and its parts

`SharedPtr` has one slot per pointer variable of the program. A copy or a drop
changes the count under the object's mutex and is one step; the `delete` comes
after the mutex and is another (`life` "doomed", then "deleted"). `Construct`
sets the first pointer of a new object.

`ConnPool` makes the scan of `get_conn` a step per connection, because
`MySQL_Guard` releases through the singleton, whose mutex is not the one
`g_mysql_mgt` scans under: marks vanish behind and before the iterator. The
pool has `thr_num` connections and `EXTRA_CONNCTION_POOL_NUM` more
(`conf_mgt.cpp:339`); the run has no extra ones, which is harder.

`ReplyChannel` cuts a reply into `MsgLen` units. `SendSome`, `SendNothing`,
`SendTimeout`, `SendError` are the turns of `send_n`'s loop, all under the one
mutex of `Msg_Oper`; `cut` records the replies it gave up on, after which the
connection stays open and the next reply follows the torn one.

`Startup` is `main` statement by statement, with any step of `MayFail` failing,
and the loop of `Thread::run`, which goes on when `pthread_create` fails,
detaches an id that is undefined then, and reports the last detach only. That
detach may fail, work, or take the process down (`CreateFails`, `ReactorFails`),
so the server may be up with fewer workers than it asked for, with none, or
without the thread of the reactor (`serving`).

`RequestLife` puts them together. Its pointer variables are the locals,
parameters and container elements the code has: `handle_input`'s local,
`push_req`'s parameter by value, the queue's element, `svc`'s local; the pool's
element, the local of the `User_Mgt` operation, the guard's member. What
`ReqQueue` and `HandlerPool` say of waiting and waking is not repeated; more
than one worker may be in the database, although the one face handler of today
forbids it.

### Vision and its parts

A handler calls the engine, the detector and the recogniser one after the other
on data of its own, so that the parts do not interleave: a behaviour of `Vision`
is one of one part.

`NcnnNet` loads a network from a text file, a binary file or memory (files as the
converters write them, `WellFormed`, or such files spoilt: a wrong magic number,
an unknown type, weights that break off), then the caller makes an extractor, with light mode or without, and extracts blobs in any
order. A value is the list of layers it went through, each with the weights it
used: `load_model` gives the layers theirs in turn and stops at the first that
does not find all of its own ("partial": there is room for them, or not even
that), and those behind it have none. The detector does not look at the result
(`mtcnn.cpp:25-30`) and extracts all the same. A layer that runs with weights
that were never read computes from memory nobody wrote, or the process dies
(`ExtractCrashes`, `form` "gone"); without any it cannot but die, except that
`PReLU` may not need them. A Mat is a number of a
buffer in `heap`, so that sharing, cloning and writing in place are visible;
`Holders` is the reference count by which `forward_layer` decides whether to
clone before it works in place. In light mode only outputs are asked for, as
MTCNN does: a blob that was consumed has been released.

`Detection` lets the networks answer anything from a set and makes exact what
the C++ does with the boxes, in integers: coordinates in pixels, scores in
hundredths, regressions in quarters. `Nms` is the order of the marks; `Refine`
squares, moves and cuts. `Endless` is the call of `nms` that does not end,
`CutOutside` the cut or the scaling of a box too small for it, which reads beside its
source: the networks answer anything, or the process dies (`stage` "broken"). The
history variable `gentle` says that no answer so far moved a side by more than a
quarter of it.

`Recognition` keeps vectors in thousandths and texts of `Digits` significant
digits (two where the code has six, so that the loss shows), and lets
registrations, withdrawals, restarts and questions follow each other.

`Mats`, `Pixels`, `ParamDict`, `Layers`, `Codec`, `Config` are pure. They keep
the flat buffers of the code: channels start at multiples of four floats, gaps
hold `Junk`, kernels run over offsets, output rows come in pairs. `Kernels` says
the same without buffers and `Vision`'s `CallStep` compares the two. Numbers
are integers, so that rounding of floats is out of reach; divisions are kept as
numerators, exact by the choice of inputs, or pairs.

Limits of this code that reading and checking brought up, none contradicting
anything the repository says:

- nothing bounds what the networks answer, and regressions of more than a
  quarter of a box can leave boxes one pixel wide, or none (two sides moved in by
  half). `resize_bilinear` then reads beside its source, and `nms` in mode "Union"
  does not end, because the overlap counts one border more than the area does,
  so that a box does not overlap itself; `vPick` is then written past its end.
  The answers of `MCVision` contain such regressions and the run reaches both;
  `FacesInside` says over which boxes alone it happens, and that gentle answers
  make none;
- a model file that breaks off is noticed by `load_model` and by nobody else:
  the detector computes from what it has, or dies at the first picture;
- the average pooling scales its last row and column for the padding also when
  the last window does not reach it (stride 2, padding 1); MTCNN uses maximum
  pooling only, and `PoolJobs` leaves those sizes out;
- the scaling of float Mats extrapolates before the first pixel when it
  enlarges; those pixels are not compared. The three- and four-channel byte
  scaling computes both rows anew every time;
- when the extraction of features fails, `recognize` still compares the empty
  vector, `cv::norm` throws and nobody catches: the process ends (`"dead"`);
- a configuration without `max_queue_size` reads the text of the node before it
  (`thr_num`, or `port` when that is missing too), which becomes 100000 when it
  is smaller; ports and thread numbers are taken modulo 2^16.

## Runs

| Run | Result | Shows |
|---|---|---|
| `handler_pool` | holds | four workers, two handlers, spurious wakeups: exclusive use, exact counter, no lost wakeup, refinement of `AbstractPool`, and no waiter stranded beside a free handler |
| `handler_pool_empty` | violated | a woken waiter can find nothing and return success (`GetReturnsHandler`) |
| `req_queue` | holds | two producers race for the last place: the limit, no sleeper over work, refinement of `AbstractQueue`, and an accepted request is taken |
| `service` | holds | see below |
| `service_reuse` | violated | a reply reaches the next owner of the descriptor (`ReplyToAsker`) |
| `service_mode` | violated | a request is served in another request's mode (`ServedInAskedMode`) |
| `service_busy` | violated | a full queue's rejection is never sent (`BusyIsAnswered`) |
| `framing` | holds | see below |
| `user_store` | holds | see below |
| `user_store_commit` | violated | an ignored commit failure: OK is answered, nothing stored (`RegistOkIsStored`) |
| `request_life` | holds | see below |
| `vision` | holds | see below |

In `service` the clients may close at any time. Whatever they do, no request is
answered twice (`AtMostOneReply`), and push does not fail after `full()` said no (`PushAfterCheckSucceeds`, which needs the single reactor).
While nobody has closed before the reply, replies pair with requests
(`PairedReplies`) and each unanswered request is in exactly one place
(`NothingLost`). A waiting client is answered in the end, or was turned away
(`EveryRequestAnswered`).

In `framing` bytes arrive in any pieces and clients close or reset anywhere.
Requests of a connection that was not upset are its frames (`FramesIntact`);
when it is closed, every frame that had arrived has been read, also if the
client's close was reported together with the bytes (`NoArrivedFrameLost`). A
client that has sent everything is read to the end, or upset, although another
one stalls in the middle of a frame (`EveryFrameTaken`), and a client's leave
is noticed whatever happened before (`LeaveIsNoticed`).

In `user_store` any statement may be refused, the connection may break before,
during or after any call, the process may be killed between any two, and a
withdrawal may carry a wrong name. Whatever happens, the vector holds no id
twice (`UniqueIds`) and no operation leaves a transaction open in the pooled
session (`NoOpenTransaction`). While the connection has held, the vector and
`tbl_user` agree between operations (`MemoryMatchesTable`) and a confirmed user
stays stored (`PromiseKept`); if moreover no name was wrong, the two tables
agree at every moment (`TablesAgree`). Those conditions are necessary: the
history variable `seen` records what happened, and without the condition TLC
finds the silent reconnect that turns the two inserts into single statements
(an insert into `tbl_user` that stays when the other fails), and the withdrawal
that deletes the image row only and is answered "Face delete OK.".

In `request_life` any step of the start may fail that `MayFail` names, clients
stop reading or leave in the middle of a reply, and the queue fills. Counts
equal the pointers there are, and an object lives exactly as long as one points
to it (`ReferencesExact`): no use after the delete, no second delete, no leak.
A connection has one user (`ConnExclusive`) and a scan always finds one
(`ConnAlwaysFound`). What a client sees is one reply after the other, each whole
or given up by the time-out (`RepliesWhole`).
If at least one worker could be started, every request that was read is deleted
in the end, although clients stop reading (`EveryRequestReleased`); with none
the requests are accepted and stay in the queue. `stage = "up" => running # {}` is
no invariant: TLC refutes it on this instance (every `pthread_create` fails, the
detach of the id it left returns 0), although `main.cpp:194` logs "complete to start
req processor" then.

In `vision`, whatever the form of the file and the order of the calls, every Mat
a caller holds has the value its file gives the blob and keeps it; of a file that
cannot be loaded all Mats are empty; and where the weights break off, what is
extracted rests on weights that were never read exactly if the file lacks those
of a layer on the way (`ExtractAgrees`). A suppression
leaves no two boxes that overlap too much and takes out none without one
that is left, overlaps it and is at least as good (`NmsSound`). What is cut out
of the picture never begins before it nor ends behind it, whatever the networks
answer; detection breaks down (an endless suppression, a read beside the source)
only over a box less than three pixels wide or high; and as long as the answers
are gentle it never does, and every box has the two pixels the scaling needs
(`FacesInside`). A face is recognised as the nearest registered user below the
threshold, up to what the digits of the text may move a vector, after any
registrations, withdrawals and restarts (`RegisteredIsRecognised`). The pure
functions agree with their definitions (`KernelsAgree`).

The violated runs are disagreements between the code and something the
repository says; `PROJECT.json` "findings" quotes each. One more, found by
reading: `readme.txt` says to make the tables with `user_db.sh`, which creates
only `tbl_user`, while `add_user` also inserts into `tbl_img`; with those
tables no registration can succeed. `UserStore` starts with both tables.

### Bounds, and why they are enough

- *Handler pool*: four workers, two handlers: two users and two waiters
  at the same time, so a signal can choose, and a newcomer can steal while
  another waiter sleeps. The proofs remove the bound.
- *Queue*: two places, three requests, two consumers, and a second producer for
  the race between check and push. The proofs remove the bound.
- *Service*: two clients with two requests each, two workers, one handler, so
  that workers wait for the handler; one place in the queue, so that it fills;
  two descriptors, the lowest free one reused at once. `ReqNum` is the one
  bound on behaviour: requests per client. The passing run uses a request that
  does not parse and one with a face; the other three kinds take subsets of
  the same steps (`noimage` and `badimage` skip the handler as `bad` does,
  `noface` uses it as `face` does; that the reply to `noimage` is empty is left
  to reading).
- *Framing*: a byte has two values and the length is still four of them, so
  lengths are small; frames of two and one byte from one client and of one byte
  from the other: a next frame to lose or misread, another connection to hold
  up, short headers whose length is zero, right or too small. The proofs remove
  the bound.
- *Users*: two ids and two names: a duplicate id under another name, and a user
  that is not involved. Nothing counts, so histories of every length are
  covered for these sets.
- *Request life*: two workers, two requests, two descriptors, so that two
  replies may go to one client; one place in the queue; two connections, no
  extra one; replies of two units with room for one, so that every reply to a
  client that does not read is torn. `Request` is the one bound on behaviour.
  The proofs remove it for pointers, connections and replies.
- *Vision*: a network with the shape of PNet and one whose branches share a
  buffer that layers write into; four broken files, in two of which the weights
  break off, before a convolution and before a `PReLU`. Pictures of one and of two
  scales, whose sides are no multiples of ten (there the float decides the
  size of the map); at most two boxes found (`MaxFound`), five answers of each
  network, which move sides in and out, by a quarter or as far as leaves no box or
  one beside the picture: enough for ties, overlaps, cuts at each border,
  suppressions that do not end and cuts outside. Chains of three boxes, where one
  taken out would have taken out another, are left to the proof. `MaxLevel` is a scale too small for both pictures. Three ids, four
  faces at different distances, three thresholds between them. `MaxBuf` is above
  what the networks need. The proofs remove these bounds. `Kernels` takes shapes with gaps
  and without, odd and even heights, every kernel size the unrolled code knows,
  strides, dilations and borders, texts of each length modulo three, and
  configurations with each node missing. A bug that needs a larger picture than
  two windows of the kernel would not show.

`CHECK_DEADLOCK FALSE` is used in the runs where the clients may have nothing
left to send and the workers sleep on the empty queue, as the server does, where
the start may have failed, and in `vision`, where a call is made once.

### Fairness

Weak fairness only, of steps a thread that is runnable will take: a woken
worker gets the mutex, a worker in `svc` goes on, the reactor finishes the
`handle_input` it began and epoll (level-triggered) reports a readable
descriptor again. In `Framing` one weak fairness says that the reactor thread
goes on, which includes that `recv_n` looks at the clock in every turn. In
`RequestLife` the reactor, the deletes and every worker go on, which includes
that a worker in `send_n` reaches its time-out; nothing is assumed of the
clients nor of the start, and the mutexes are free again because no thread
blocks while it holds one. No client is bound to do anything, no spurious wakeup is
relied upon, and no thread is bound to start a call it has no reason for.

## Proofs

Eight modules hold theorems, all checked by TLAPS: about `HandlerPool`,
`ReqQueue`, `Framing`, `FaceService`, `UserStore`, `RequestLife` (with
`SharedPtr`, `ConnPool` and `Startup`), `NcnnNet`, and `Vision` (with `Detection`,
`Recognition` and pure functions of `Mats` and `Layers`). They rest on these assumptions on constants only: finitely many workers
and `HandlerNum` a positive number (`HandlerPool`); `NoReq` is no request,
`MaxSize` a number, `Spurious` a truth value (`ReqQueue`); streams are
sequences of bytes, made of whole frames that are not empty and whose headers
tell their lengths (`Framing`); finitely many pointer variables, objects that
are not the null pointer (`SharedPtr`); finitely many workers, at least one, and
a number of extra connections (`ConnPool`); the slots and objects are those of
the server, a reply and the room in a socket are not empty (`RequestLife`); what
the queue and the pool assume, and that `NoClient` is no client and numbers are
numbers (`FaceService`). `UserStore` assumes nothing of its ids and names: they
may be infinitely many. For the pictures: files are as converters write them and
there are more buffers than a file has blobs, twice over (`NcnnNet`); the sides
of pictures are numbers, some scale is too small for all of them, answers are a
score and four regressions, whole numbers of quarters, `MaxFound` is a number
(`Detection`); ids are
not the words for no user, thresholds are whole numbers, the text has at least
one digit, and the faces' features are vectors of one positive dimension, no
longer than `One` (`Recognition`).

| Theorem | Says |
|---|---|
| `TypeCorrect` of `HandlerPool`, `ReqQueue`, `Framing`, `FaceService`, `UserStore`, `RequestLife` | type correctness |
| `ExclusiveUse` | no two workers hold one handler |
| `CounterExact` | the counter equals the number of free handlers, so it cannot underflow |
| `WakeupNotLost` | while somebody sleeps there are as many woken workers as free handlers |
| `PoolRefinement` | `HandlerPool` implements `AbstractPool` |
| `BoundHolds` | the queue's limit, for any number of producers |
| `NoSleeper` | no worker sleeps over a request |
| `OneProducerPushSucceeds` | with one producer push cannot fail after `full()` said no |
| `QueueRefinement` | `ReqQueue` implements `AbstractQueue` |
| `FramesAreIntact` | requests of an undisturbed connection are its frames, for all streams and arrival patterns |
| `NothingArrivedIsLost` | a close loses no frame that had arrived |
| `CountsAreExact` | of `SharedPtr`: counts are exact, objects live as long as they are pointed to |
| `ConnectionExclusive`, `ConnectionFound` | of `ConnPool`: one user per connection, a free one for every scan |
| `ServerMovesPointers`, `ServerUsesPool` | the composed server implements `SharedPtr` and `ConnPool` |
| `ServerCountsExactly`, `ServerConnections` | so their theorems hold of it, for any workers and requests |
| `RepliesAreWhole` | of `RequestLife`: replies lie on a connection one after the other, whole but for a last one given up |
| `IdsStayUnique`, `MemoryIsTable`, `TablesStayInStep` | of `UserStore`: one user per id; while the connection holds, the vector is the table; while moreover every name was right, the two tables never disagree |
| `PromisesHold` | while the connection holds, a confirmed registration survives refused statements, kills and restarts |
| `SessionHandedBackClean` | the pooled session goes back with no transaction open |
| `QueueInService`, `PoolInService` | `FaceService` implements `AbstractQueue` and `AbstractPool` |
| `PushNeverFails`, `HandlersNotShared` | theorems of the queue and of the pool, of the service |
| `NoSecondReply` | no request is answered twice, descriptors being reused |
| `SuppressionSound` | of `Detection`, whatever the networks answer: no two boxes left overlap too much, none is taken out without a better one |
| `FacesStayInside` | whatever the networks answer: no box that is cut out begins before the picture or ends behind it, and detection breaks down only over a box less than three pixels wide or high; with gentle answers it never does, and every box cut out is two pixels wide and high at least |
| `ExtractionAgrees` | of `NcnnNet`: for all files, forms and orders of calls a Mat has and keeps the value its file gives the blob, through unread weights exactly where the file lacks them |
| `RecognitionIsRight` | of `Recognition`: for all users, vectors, thresholds and numbers of digits a face is recognised as the nearest registered user, up to the digits left out |
| `UnrolledConvolution` | of `Layers`: the unrolled 3x3 and 5x5 kernels of the x86 layer compute the general convolution, for all images, weights and numbers of outputs |
| `ScalingIsBilinear` | of `Mats`: a scaled picture is the bilinear mean of its source at every pixel not in front of the first, for all sizes from two pixels a side |
| `BorderComesOff` | of `Mats`: a border surrounds the picture with its constant or its nearest pixels, and taken off gives the picture back, for all sizes |
| `AllAccountedFor`, `RepliesPaired` | while no client leaves early: a request is in one place or answered; the k-th reply answers the k-th request |

*The pool's invariant* is the conjunction of the type invariant,
`HandlerExclusive`, `BusyIffHeld`, `FreeCountExact` and `NoLostWakeup`: none is
inductive alone. Exclusive use needs the flags to tell the truth; the counter
needs the flags (a handler found by the scan was free, one put back was not);
the absence of lost wakeups needs the exact counter, and counts woken workers,
because a woken worker may be overtaken: a newcomer that takes the handler
lowers the counter, a `Put` raises it and wakes one more.

*The queue's invariant* adds to the types and the bound what each place of a
producer implies about `cur` and each place of a consumer about `got`, and, for
`OneProducerPushSucceeds`, that between the check and the push the queue has
room: only the producer lengthens it. The refinement maps `items` to the
abstract queue and `rejected` together with `failed` to its rejections.

*The framing's invariant* says where the server is in the stream of each
connection that was not upset: within the body of the frame after those taken,
with `from` and `want` the extent of that body, or between frames, or at the
end of what a client that left had sent of one; that a closed connection has
nothing left to read; and that only open connections are handled, once in a
batch. `NoArrivedFrameLost` follows because positions of frames increase.

*The pool of connections.* `ConnAlwaysFound` is not inductive: the invariant
counts. A connection the scan has passed was in use by a worker that cannot have
taken another one since, because the scanner holds the mutex, even if it gave
that one back; and the scanner has none. So the connections passed and those in
use ahead of the iterator are together fewer than the workers, and a free one is
ahead.

*The server.* `RoleInv` says which pointer variables each place of the reactor
and of a worker has set; from it every action is a step of `SharedPtr` and of
`ConnPool`, or leaves their variables alone, so that the theorems of the parts
carry over by refinement instead of being proved again. `StartInv` says that the
Thread object's count is that of the threads that run, but for one just created.

*The replies of the server* need the way of a request through it. `HandsInv`
says in whose hands it is: before its `new` and until it is pushed nothing else
knows it; in the queue it is there once and unanswered; a worker has its own from
the pop to the end of `svc`, and is in `send_n` exactly while it has the mutex.
On top of that `WireInv` says of a connection's units that each belongs to a
request of that connection, that they are in order (a message begins at 1, goes
on where it stopped, and is followed only by another one's beginning), that a
last message which is short was given up or is the one under way, and that of
the message under way exactly `len` units are on the wire. A second reply of the
same request would break the order, so the proof needs that `svc` comes to
`send_n` once per request, which is what `HandsInv` gives.

*The users.* `SessionInv` says that a transaction is open only in manual mode, on
a live session, between the first statement and the end of commit or rollback.
`OpInv` says that the id `user_exist` found free stays free in the vector, and
that a withdrawal has taken the promise back before it deletes. `KeyInv` says that
the id is a key of the committed table and of the transaction's view of it.
`SteadyInv` describes every place of an operation while the connection holds:
which mode the session is in, what the transaction has done to the tables so
far, and how the committed tables relate to the vector. It carries no claim once
the connection was dropped, when the vector and the tables may part;
`TablesAgree`, `PromiseKept` and `UniqueIds` do not depend on it there, and a
restart establishes it again. `PromiseKept` is not inductive without it: the
promise is made at the answer, several calls after the commit.

*The service* is proved by composition. `FaceService_proofs` instantiates the
proof modules of the queue (with one producer, the reactor) and of the pool, so
that their lemmas are at hand with the service's variables: every step of the
service is shown to be a step of `ReqQueue` or to leave its variables alone, the
same for `HandlerPool`, and from there both inductive invariants and both
refinements carry over. What lies between the parts is the service's own:
`OnePlace`, a request is with the reactor, at one place of the queue or with one
worker, and once gone never comes back; `OneReply`, an answered request is in
none of them; `Owed`, while no client left early each is owed at most one
reply, and the request it waits for carries its number and a descriptor that
is still its own. `Owed` is where descriptor reuse would do harm: it fails as
soon as a client leaves with a request under way, which is why `PairedReplies`
says nothing then, and what the run `service_reuse` shows.

The invariants of `RequestLife`, `UserStore` and the service were also checked
by TLC, on the instances of `request_life`, `user_store` and `service`.

*Recursion and loops* occur in all the code that looks at pictures. The
library's induction theorems take an operator as parameter, which the provers
cannot instantiate, so `NcnnNet_proofs` begins with the same facts about sets and
functions: a set of numbers that is not empty has a least one (`Least`, from the
library's `WFMin`); a set that has a number whenever it has the smaller ones has
them all (`Induction`); a functional that looks only at arguments of smaller
rank has a fixed point (`FixedPoint`, `TypedFixedPoint`), so that what the models
define by recursion is what the recursion says. `Loop` and `Powers` are the two
patterns of it that `Vision_proofs` needs most, and `Flatten` says where each
part lies in sequences joined end to end.

*Suppression.* Of the boxes left some box is best (the one fewest are better
than), so the loop always picks; it picks by turns until none is left, and a box
taken out overlaps the one picked in that turn, which was at least as good. The
rest of `DetInv` says that boxes stay boxes and, by the arithmetic of `refine`'s
cut, that none begins or ends outside the picture.

*Boxes stay large enough* (`SizeInv`). PNet looks at a scale only if the picture
is large enough for it, so a window is at least 41 pixels wide and leaves the
picture by no more than a quarter. As long as regressions have moved a side by at most a
quarter of it (`gentle`), the box is at least 18 pixels wide inside the picture after the
first `refine`, 8 after the second and 3 after the third (`RefinedInside`, from
the rounding and cutting of one side, `SideLeft`). A box of three pixels whose
`area` is what its corners say overlaps itself by more than every threshold
(`SelfOverlap`), so that each turn of `nms` takes out at least the box it picked
and the loop ends (`PicksEnd`). Read the other way, a suppression that does not
end was given a box that is not so large (`SuppressBreaks`), and that is all that
is said of answers that are not gentle: two sides moved in by half leave nothing.

*The engine.* The tops of a file number its blobs (`Numbering`); from that the
three ways of loading are shown, record by record, to build the same net
(`TextLoads`, `BinLoads`), with the weights where they belong as far as they reach (`Weights`), or to
fail for the same file. `MeaningEquation` says what value the file gives a blob,
by that of the blob its layer reads. No more buffers are held than there are
blobs, the caller's and the extractor's, so a free one is always found
(`FreshBufIsFree`, by counting). `LayerRuns` is the step: each Mat keeps or gets
the value of its blob, and in light mode the blob that was read is gone but not
needed again, because it has one reader (`OneReader`). `ForwardRuns` is the
induction over the blobs a blob rests on, and `NetInv` puts this together.

*Recognition.* Text read back is the vector of its rounded numbers. A rounded
number differs by a fraction of its size at most, which bounds the length
of the difference of the vectors; the triangle inequality, from Cauchy and
Schwarz', over whole numbers without roots, carries this to distances.
The loop of `recognize` finds the first of the nearest under the threshold.
The invariant says that a row is the text of what was registered and the vector
in memory either that or what its row reads as, in the same order.

*Pure functions, for all sizes.* The unrolled convolution runs through the image
with four or six row pointers and makes two rows of output in one turn; each
pointer is at the beginning of the row it stands for (`RowsInPairs`), so both
convolutions add the same products in the same order. It is asked of images
the kernel fits in, as the network's are: on a smaller one there is
no pixel to compute. Of the scaling's two row buffers an
induction over the output rows shows that they hold the rows wanted, computed
for this row or left by the one before (`RowsInBuffers`). All three theorems
need that element `y * w + x` of channel `q`, gaps between channels included, is
found again by quotients and remainders (`Offset`).

Only model-checked, and why:

- the liveness properties `NoStrandedWaiter`, `AcceptedIsTaken`,
  `EveryRequestAnswered`, `EveryFrameTaken`, `LeaveIsNoticed` and
  `EveryRequestReleased`: they need fairness and ENABLED, which the prover does
  not handle;
- `KernelsAgree`: it compares the pure functions with their definitions on the
  listed inputs. Which inputs these are is part of the invariant, so that it is
  decided by evaluating both sides, which is TLC's work and not a prover's. What
  it says of the unrolled kernels, of scaling and of borders is proved for all sizes by
  `UnrolledConvolution`, `ScalingIsBilinear` and `BorderComesOff`; base64 is left to
  TLC because `SelectSeq` is built into the prover, which does not expand it.

## Not modelled

- *ARM code*: `ncnn/layer/arm/` and the NEON branches of the shared files. The
  build links `layer/x86` only (`CMakeLists.txt:44`); they repeat the same loops eight or four elements at
  a time in intrinsics and assembly.
- *Floating point*: rounding, and the approximations of `exp` and `log` in
  `sse_mathfun.h`, `avx_mathfun.h`, `neon_mathfun.h`. Integers take the place
  of floats where only order and place matter.
- *TensorFlow and OpenCV*: the feature networks, JPEG, and the alignment of a
  face (`face_aligner.cpp`), a least-squares fit handed to OpenCV.
- *rapidjson, tinyxml*: parsers; only what their callers do with the results.
- *Logging, timers, UDP, the TCP client, strings, files, signals of `base/`*:
  not used by the server, or formatting and I/O. Likewise `suspend`, `resume`
  and `stop` of `Thread`, `del_fd` and the output events of the reactor, the
  timed `pop` and the rate limit of the queue, `mysql_mgt::check`.
- *Parameter lines that cannot be read*: `load_param` passes over such a line of
  the text after it has entered its blobs (`net.cpp:182-193`), so that the layers
  behind it move up, producers name the wrong ones and a slot stays null, at which
  `load_model` dies unless it stops before. `WellFormed` leaves such files out.
- *`COMMIT`, `ROLLBACK` or the autocommit switch refused on a live session*
  (`mysql_conn.cpp:563-589`): they fail here only when the connection breaks.
- *Ids that differ in case only*: whether MySQL takes them for one depends on
  the collation of a database the repository does not set up.
- *Dead code*: the `return -1` at `req_processor.cpp:106`, which would keep the
  handler, is unreachable because `face_detect` never returns an error.

## Plan

Done: `HandlerPool`, `ReqQueue`, `Framing`, `SharedPtr`, `ConnPool`, `Startup`,
`ReplyChannel`, `RequestLife`, `FaceService`, `UserStore`, `NcnnNet`, `Detection`
and `Recognition`, each with the proofs of its safety properties; the pure
functions of the picture code, model-checked, and the unrolled convolution, the
scaling and the borders proved for all sizes.

What could follow:

1. Of the other pure functions, one by one, that they agree with their definitions
   for all sizes: the conversions of pixels, pooling, parameters there and back.
2. `ReplyChannel` shown to implement an abstract channel that takes whole
   replies, with the reply given up as its one failure.
3. Of `Startup`, that whatever was opened when the start failed is what the
   exit leaves behind.
4. In `NcnnNet`, text files with parameter lines that cannot be read.
