# A TLA+ verification project for oj_engine

oj_engine is an actor framework in C++20: an application is a process, actors
are its components, and each actor offers interfaces that others call by
request (and reply) structs.  The repository holds the headers of the engine,
with the templates and inline code an application compiles, and a demo.  The
bodies of most member functions are in a static library, `libengine.a`, that
is not in the repository.  What is modelled from source and what is assumed of
that library is kept apart here, see *External code*.

Paths are relative to the repository; `src/include/engine` is written `engine/`.

## 1. The system

    console thread --> app_t ------------------ session / tcp ---- other apps
                        |  threads drive actors                      |
                        v                                            |
    actor_t  = mailbox (queue_rw_t) + rpc_t (client + server) <------+
               + one coroutine: handlers, ticks, startup, close

| Component | State | Operations | Interacts with |
|---|---|---|---|
| Mailbox `queue_rw_t`, lock (`engine/base/queue_write_read.h`, `lock.h`) | two deques, a counter, a mutex | `push`, `pull(fun)`, `pull(xx)`, `empty`, `size`, destructor | any thread pushes; the coroutine of the owner pulls |
| rpc client (`engine/rpc/rpc.h`, `client/client.h`, `client/task.h`) | table of tasks, the task id counter, each task's callback | `call`, `post`, `request`, `package`, completion, timeout | posts to a channel, is completed by replies, blocks the caller |
| rpc server (`engine/rpc/server/server.h`) | interfaces by hash of their name | `register_`, `invoker` | runs handlers, answers through the channel |
| Actor, session, app (`engine/actor`, `engine/app`) | id, tick, status, the actors of an app | `actorMake`, `actorFor`, `closeSet`, `request`, `call`, `post` | own the two above (only declared here) |
| Load generator `qps_rpc_t` | mode, number of calls, `s_asyncRep` | start-up, tick, the callbacks of its calls | calls `show_rpc_t` |
| Load counter `show_rpc_t` | counters, the last values shown | two handlers, tick | called by `qps_rpc_t` |
| Demo actors `test_a/b/c` | none | handlers | a calls b calls c, synchronously |
| Console commands | none | close, actor, dbcreate, dbquery, loglevel, testabc | use the app from the console's thread |
| Asynchronous logging (`spdlog/async_logger-inl.h`, `details/thread_pool-inl.h`, `details/mpmc_blocking_q.h`, `details/circular_q.h`) | a ring buffer, a mutex, two condition variables, worker threads | post (wait or overrun), dequeue, destructor | any thread logs; workers write |
| Database adapter (`adapter/adapter.h`) | none | `dbCreate`, `dbQuery`, `dbUpdate`, `dbDelete` | calls the database actor |
| codec, casts, hash, MD5, options, buffers (`engine/base`) | buffers: two cursors; options: what was parsed | pure functions, cursor moves | used by all of the above |

What is hard in it, and so what the properties are about:

* **mailbox**: `pull` decides without the lock; the swap of the deques must not
  lose, repeat or reorder a message; a callback may push into the queue it is
  being fed from; no message may be forgotten.
* **remote calls**: request, reply and timer race on one task; the callback of
  a synchronous call writes into the caller's frame; it is installed after the
  request was sent; calls nest and may form a cycle; the table of tasks is
  bounded; messages get lost; a post must not be answered.
* **rep structs**: one struct travels to the handler and back; a caller may use
  one for many calls, whose replies are late, lost or unreadable.
* **load test**: replies outlive the round that counts them; two ends count the
  same calls; what was printed is remembered in function statics.
* **console and adapter**: calls in sequence whose results are not looked at;
  a count that is cut to an `int` and counted down in a callback.
* **asynchronous logging**: wake-ups after the mutex is free, a full ring, and
  a destructor that ends its workers through the same queue.
* **pure parts**: the boundaries of MD5's padding and of words that overflow.

PROJECT.json lists every component, and each hazard with its line.

## 2. Modules

| Module | What it is |
|---|---|
| `Mailbox` | abstract: a FIFO channel from any thread to one owner |
| `QueueRw` | `queue_rw_t`, one step per access to shared memory; refines `Mailbox` |
| `QueueRwProofs` | its inductive invariant and theorems |
| `RemoteCall` | abstract: one call, the handler at most once, "ok" only after it finished |
| `Rpc` | client and server templates, tasks, messages, timer; refines `RemoteCall` |
| `RpcProofs` | its inductive invariant and theorems |
| `QpsRpc` | `qps_rpc_t`: rounds of asynchronous calls |
| `Options` | the command line parser, and what a command line means without loops |
| `RepData` | the rep struct of calls: what goes out, what comes back, into whose memory |
| `RepDataProofs` | its inductive invariant and theorems |
| `ShowRpc` | `show_rpc_t`: handlers, tick, the shared statics |
| `ShowRpcProofs` | its inductive invariant and theorems |
| `Load` | composes `QpsRpc` and `ShowRpc` by requests and replies |
| `LoadProofs` | the inductive invariants and theorems of `QpsRpc` and of `Load` |
| `Adapter` | `dbcreate` and `dbquery` over `RemoteCall`, with a database that may refuse |
| `AdapterProofs` | its inductive invariant and theorems |
| `Console` | `close name count` over actors that come and go |
| `LogQueue` | abstract: a bounded FIFO that drops its oldest |
| `AsyncLog` | the thread pool of spdlog's asynchronous loggers; its ring refines `LogQueue` |
| `AsyncLogProofs` | its inductive invariant and theorems |
| `Md5` | the padding and the schedule of MD5 |
| `Hash` | the hash of interface names, two names side by side |
| `Sequential` | the parts that work alone, one beside the other: `Options`, `Md5`, `Hash`, `Console` |
| `SequentialProofs` | their inductive invariants and theorems |
| `MCRpc`, `MCQpsRpc`, `MCLoad`, `MCSequential` | small instances for TLC |

The other modules are given to TLC as they are.

### QueueRw

The variables `m_queueRead`, `m_queueWrite`, `m_sizeWrite` and `m_mutexWrite`
are the members of the class.  `pushPc` and `pullPc` say where each thread is in
`push` and in `pull`: the call, the lock, `emplace_back`, `++m_sizeWrite`, the
unlock; the unlocked test, the lock, `m_sizeWrite = 0`, the swap, the unlock, and
the loop of `front`/`pop_front`/`fun`.  One pull serves both overloads: with
`one` the callback stops the loop after its first message and pushes nothing.
A callback that returns non-zero and one that throws leave the same state, the
popped message gone and the rest in order (`PullReturn`).

There is one Consumer, as `m_queueRead` is not protected at all: the coroutine
of the actor.  Its callback may push (an actor that sends to itself), so
the Consumer also is a Thread.  `Destroy` runs only when nobody is inside, which
is what C++ asks of any object's users.

`m_sizeWrite` is a plain `int` read without the lock, formally a data race.  The
outcomes a build gives are the value before and the value after a concurrent
update: `PullCheck` interleaves with `PushSize` and gets either.

`Size` and `Empty` are what `size()` and `empty()` return to the owner.

History variables: `pushed` (order of `emplace_back`), `delivered` (order of
`fun`), `mark` (what a pull could count on when it was called).

### Rpc

A *runner* is a coroutine of an actor or the console's thread; the console uses
the app's `rpc_t` (`Rpc(r)`).  `Request` is `rpc_t::request` down to `taskMake`,
`CbOkSet` and `Wait` are the two statements that follow it in
`rpc_client_t::request` (`client.h:65,68`), which another thread may come
between.  `Wait` of an asynchronous call or a post returns at once; that of a
synchronous one returns when its task is over, or by itself (`GiveUp`), as
`task_t::wait(int ms)` is timed: at any moment, in the middle of a callback too.
The task then stays where it is; that the library takes it out of the table is
a `Timeout` that follows.  `left` remembers the calls that were given up so.

An actor takes a request only when its coroutine is idle; a handler that waits
for a call of its own keeps the coroutine.  `serving` is the request being
served.  `Return` is the tail of the invoker: a post yields `nullptr` and no
reply.  `Throw` is a handler that throws inside `std::apply`.

`Response` takes a reply and pulls its task from the table.  `Callback` begins the
callback, if the task has one by then, and `Complete` ends the task when it has run:
another thread may act between the two.  `Timeout` pulls and ends a task
in one step of the timer's thread.  A reply whose task is gone is dropped.
`Outcome` is what a caller has been told, which for one who has given up is
a failure, whatever becomes of the task.

A lost message is one that is never taken: no fairness is asked of `Serve`,
`Refuse` or `Response`.

`Route` says which interface a call can reach: `request` looks for those of
`register_local` (`REQUEST`), `call` and `post` for those of `register_remote`
(`RPC_ROUTE`).  `Uses` and `Interfaces` say which actor calls what and who
registered what; `Skewed` are interfaces whose callers were built with other
structs, so that the arguments do not unpack.  The chain of `test_a`, `test_b`, `test_c` is an instance, folded
onto two actors so that it can become a cycle.

### QpsRpc

`m_run`, `m_times` and `s_asyncRep` are the members; `i` is the loop of
`test_rpcAsyncCall`.  The loop makes each call in a step of its own, and any
earlier call's callback may run between two.  `back`, `logs` and `round` are
history.  `OnStartup` reads its two numbers by `Casts` (`oj_string::casts`),
for which a field that is no number is 0.  `n` and `waits` are the loop of the
synchronous test and the call it is in.  The local test (`m_run = 3`) only
measures time.

`s_asyncRep` is a plain `int`.  A callback is three steps: the load (`ReplyRead`) and the
store (`ReplyWrite`) of `++s_asyncRep`, and the test with the log line (`ReplyTest`), for
which a build may take the value it has just stored or read the member again (`Seen`).
Which threads run callbacks is decided in `libengine.a`.  `Workers` are those threads;
with `Exclusive` they run one callback at a time, and none beside the tick that resets the
counter.  What is claimed under `Exclusive` only is said with each property.

### RepData

A field of the struct holds a default, garbage (a plain field nobody
initialised) or the number of the call whose handler wrote it.  `CallSync`,
`CallAsync` and `Package` differ in what they send: the caller's own struct, an
uninitialised local, nothing.  `Handle` is the invoker: unpack, apply, pack.
`Filled` and `Unfilled` are the two ways in which a call that is still waited for
returns; a reply whose caller has gone (`Timeout`) is never taken.

### ShowRpc and Load

`show_io()` is two steps: the log line, and `last_x = g_x`.  A
handler runs on the actor's coroutine, so not between them.  `last` has one copy
for all the instances, as the statics have.  `shown` and `taken` are history.
A handler of `show_rpc_t` runs on one coroutine whatever `Workers` are: it is no callback.
`Load` extends `QpsRpc` and instantiates `ShowRpc`; the actions of the two are
taken together with the messages between them: `answered`, the replies on their
way; `stale`, requests whose caller's timer fired before they were handled.

### Adapter

The console's thread makes one synchronous call after the other.  `Call` is an
adapter function up to its wait, `Back` what it waits for, and `Answered` and
`LogMessage` its tests of the reply.  The database actor is not in the
repository: `Accept` and `Refuse` say only that it needs the table for updates
and queries, and answers a refusal with a message.  `Report` may leave `rep`
as it was although the call is ok, which is what `Rpc` shows (`SyncRepFilled`); or bring the
answer although the call failed, if the wait ended in the middle of the callback.

### Console

`actorFor` shows each actor of the name once, until the callback returns other
than 0.  `n` is the callback's `int`, which holds -`IntMax`-1 to `IntMax`; `--n` of its smallest
value is undefined, so both what wraps and what the test then gives are allowed.

### AsyncLog

One step is what is done with the mutex held; `notify_one` comes after it is
free, and wakes any one of those that wait, who then looks again.  `TimedOut` is
the 10 s of `dequeue_for`.  `Terminate` and `Join` are the two loops of the
destructor, which runs when the last owner has let go (`Release`) and nobody is
inside a post, as `weak_ptr::lock` sees to.

### Md5 and Hash

`strByte` is kept as its bytes, four to a word, so that a shifted, sign-extended
`char` is a byte and, above it, bytes of ones (`char` is signed in the builds for x86).
`NoSpill` says that a string has bytes of
128 or more only at the end of a word, where there is nothing above them to spoil; only
then is what is padded the string that was given.  `UIntMod` is what an `unsigned int`
counts modulo, so that a cut length needs no string of 512 MB; `LengthByte` is what the
code stores.  What is asked of it is stated apart: `LengthRead` reads the last
eight bytes as one number, as MD5 does.  `mixed` counts how often each word
goes into `mainLoop`.  `Hash` computes modulo `Modulus`, what a `size_t` holds, and runs `bkdr_hash` over two names in step, aligned at
their ends, so that each pair of names is one behaviour.

### Options

The state is that of `parse()`: the index `i`, the option that takes values and
how many it has (`n`), and what was collected: of each option and of the program the
positions of their values in `argv`.  `option = 0` is the outer loop;
`Interrupt` is the `goto` from the inner loop back to the head of the outer.
Lines and arguments are already cut into names, words and values.  `Placeholders`
keeps what `parse_placeholders` does with the end of a line: a word is stored at
the space behind it, so the placeholder of a line without explanation is
lost and the option takes one value fewer.  `num_args = -1` is `MaxUInt`.  A line
whose names are malformed (`invalid_option` in `parse_names`) ends the program
before `parse()`; such lines are not among the declarations.

### External code

`libengine.a` is not in the repository.  What the models take from it follows
from the declarations and from what the templates need to work at all:

* `taskMake(channel, ...)` is the one step of a request that is given the
  channel and the payload, so it is the one that posts;  it may return
  `nullptr` (`client.h:61`), and the members of `task_mgr_t` give the reason:
  `m_tasks` has a `m_maxSize`;
* a task leaves `m_tasks` once (`pull`), and whoever pulled it completes it;
* the sync caller is blocked in `wait`, so another context completes its task;
  `task_t` has a timer, which ends it with an error;
* `wait(int ms)` may return by itself.  Whether the library ever lets it, with a
  time shorter than the timer's, is not in the repository; the models allow it;
* an ok reply runs the callback and then ends the task: `m_onRepOk` and
  `m_wait` are members of the same task, and a caller woken first would read a `rep`
  nobody has written;
* which threads run the callbacks of asynchronous calls is open.  "Every actor has a
  coroutine of its own that handles its data" (src/README.md:13) speaks for one at
  a time (`Exclusive`), and the counter of `qps_rpc_t` relies on it; the run
  `qps_threads` is without it;
* an actor runs its handlers and ticks on one coroutine ("every actor has a
  coroutine of its own that handles its data", src/README.md:13);
* an interface that is not there, or whose arguments do not unpack, may
  or may not be answered with an error: both are modelled (`Refuse`);
* a post needs no entry in the table: its caller does not wait, and no reply
  comes for it.  It is refused like the others when the table is full.

PROJECT.json marks the definitions that rest on this as external.

## 3. What the runs check

| Run | Question | Instance | Distinct states |
|---|---|---|---|
| `queue` | is the queue correct under every interleaving, and is a message ever forgotten? | 2 producers and a consumer that pushes too, 2 messages, 4 pushes | 333 582 |
| `rpc_calls` | do calls keep their promises when replies, timers, waits and callers race, and does every caller come back? | console, a, b; 2 calls out of chains, posts, a self-request, a cycle, a missing interface and skewed structs; 1 task a table | 80 505 |
| `rpc_rep_race` | does a synchronous call fill `rep`? (src/README.md:97) **No** | 1 synchronous call with a reply | few |
| `rep_data` | is `rep` only ever written by its own call, and whole? | 3 calls, a struct of a plain field, an object and one the handler writes | 1 464 |
| `qps_rounds` | does the counter of a round count it, and do the two ends of the load test agree? | 3 rounds of -1, 0, 1 or 2 calls, or 4 synchronous calls; callbacks one at a time | 60 118 |
| `qps_threads` | what is left of that when callbacks run beside each other? | 2 rounds, 2 threads | 24 670 |
| `qps_late_replies` | is a logged round complete? (comment at `qps_rpc.hpp:86`) **No** | 2 rounds of 2 calls | few |
| `show_two` | does each of two actors print its own? (src/README.md:13) **No** | two actors, 2 requests each | few |
| `adapter` | what may a user of the database conclude? | 4 calls | 187 407 |
| `async_log` | does the ring keep, order and drain what it should, and does everybody get through? | one thread that waits, one that overruns, 2 posts each, 2 items, 2 workers | 18 467 |
| `sequential` | do the parts that work alone compute what they are for? | all lines of up to 4 of 9 arguments for 2 lists of options; 19 strings; pairs of names of up to 3 of 5 bytes; 3 actors and counts from -9 to 9 | 123 227 |
| `md5_chars` | does a word hold its four chars? (`MD5.h:88`) **No** | the strings of `sequential` | up to 123 160 |

**Queue.** `QueueInv` is the lock discipline: whoever is between lock and
unlock is alone there, the counter equals the length of `m_queueWrite`
except inside a critical section, and a swap only happens with `m_queueRead`
empty, although the decision was taken without the lock.  `FifoConserved`: what
was handed over, then the two deques, is what was pushed.  `SelfSendDeferred`:
the messages a callback sends to its own queue wait for a later pull.
`PullServesCompleted`: a pull called after a push has returned with something
waiting hands over at least one message.  `MailboxSpec` and
`MailboxFairSpec` are the refinement, `EventuallyDelivered` the liveness.
`SizeToOwner`: `size()` and `empty()`, read without the lock, tell the owner no
less than the pushes that have returned and no more than those that were begun.

**Calls.** `WaiterHasWaker`: whoever waits has a task in the table, where the
timer finds it, or a reply that has pulled it and is about to end it, so that a wait
without end would end too.  `TaskEndsOnce`: no callback or promise is used twice.
`CallbackInFrame`: from the beginning of the callback of a synchronous call, which
captures `rep` by reference, to the end of its task the caller is inside that
call, unless its own timed wait has returned by itself: no other order of reply,
timer and caller takes the frame away.  With a `wait` that does return by itself the
callback may write to a dead frame, and the model shows such runs; that is why the
property has the exception.  `PostSilent`: a post is never answered.
`RemoteCallSpec`: refinement of `RemoteCall`, so "ok" is only told when the handler has
finished, and not when it threw.  `CallsReturn`: every caller comes back, in a cycle
too.

The header lists as still to be solved that the end of a call should be the end of its
whole chain (`rpc.h:13-15`).  It is not: a call that its timer ended may still
run at the other side.  So nothing of that kind is claimed.

**Rounds.** `CounterCovers`: between callbacks the counter has missed no reply of its own
round.  `AllBackIsLogged`: a round whose replies are all back has been logged.
`LoggedOnce`: and at most once.  All three are claimed of callbacks that exclude each
other: on two threads (the instance of `qps_threads`) each of them fails, by a lost count,
a test that is passed by, or two that see the same value.  `LoggedMeansHandled` holds
there too, as counts are only ever lost.

**Reply structs.** `RepIsTransferred`: `rep` changes all at once, only while its own
call is out, and the fields the handler does not write keep what the caller had
in them.  `HeardIsOwn`: an asynchronous callback is given nothing of another call.

**Load test.** `ShownOnce`: no request falls between two lines of the
log, and none is in both.  `EndsAgree`
and `LoggedMeansHandled` relate the counts of the two actors, whatever is late or
lost; `RoundIsLogged` is what a round is for: it is logged if nothing is lost.

**Database.** `CreateComesFirst`: the records do not overtake the table.
`QueryIsTrue`: a query without an error returned what the database held while
the query was out.  (`ErrorIsRefusal`, an error in the log of a create or an update
is the answer to that very call, is proved and not run.)

**Logging.** `LogInv`: each message is in the ring, with one worker, written, or
overrun and counted, and only the oldest is ever lost.  `DrainedAtExit`: the
destructor ends with everything written and each worker ended by a message of its
own.  `LogQueueSpec`: the ring refines `LogQueue`.  `PostEnds` and
`DestroyEnds`: no wake-up is lost.

**Parts that work alone.** `ParsedAsMeant`: every argument ends up where its place
says (`IsValue`, `Gives`, stated without loops): a word is a value of the nearest
option before it while that takes more, counting the one behind `=`, and an
argument of the program otherwise.  `ParserEnds`: the jump out of the inner loop
does not keep `parse()` from ending.  `PaddedAsMd5` and `EveryWordMixed`: the mark
and the zeros of MD5 where no sign spills, its length where an `unsigned int` holds it, its
number of blocks always; and each word mixed in once a round.  `OneByteApart`: names of one length that differ in one
place never share a hash (others may).  `MarksCount`: `close` marks as many actors as asked.
`PartsTypeOK` says that no index, counter or word leaves its range; its
mutants drop a wrap-around or swap two tests.

### Disagreements with what the repository says

* *A synchronous call may return 0 with `rep` unset* (`SyncRepFilled`).  The
  request is posted by `taskMake`, its callback is installed afterwards.  A reply
  that is completed in between finds `m_onRepOk` empty: the task ends ok and
  nobody writes `rep`.  The README reads `rep` straight after the call.  The run
  finds it with a single call.  It rests on `taskMake` posting and on
  another context completing, as said under *External code*.
* *A round is logged while its replies are out* (`LogMeansAllBack`).  Replies
  of the round before count into the new one, so `s_asyncRep` reaches
  `m_times` early and the logged time is too short.
* *Two `show_rpc_t` print each other's differences* (`ShownIsCounted`): what was
  printed is remembered in statics of the function.
* *A char of 128 or more damages its neighbours* (`CharsKept`).  `MD5.h:89` shifts a
  signed `char`, whose sign fills the rest of its word; `MD5.h:88` says that a word keeps the
  information of four chars.  Any text that is not ASCII is affected.

Seen while modelling, without a run of their own:

* The length of a long string is cut: `MD5.h:77` asks for it in 64 bits, `MD5.h:94` stores
  32 of them, as the comment on line 93 says, so strings of 2^29 bytes or more get another
  padding than MD5's.  `PaddedAsMd5` claims the length only where an `unsigned int` holds it.
* The comment at `rpc.h:109` calls the local `rep` of an asynchronous call of no
  use, but the handler starts from it and returns it: uninitialised memory of the
  caller comes back in every plain field the handler leaves alone (`Local` in
  `HeardIsOwn`).
* The handler of asynchronous requests counts in `g_syncCallRep` (`show_rpc.hpp:36`),
  so the column printed for them (`show_rpc.hpp:66`) stays 0 (`OnAsync`, `EndsAgree`).
* `dbcreate` can fail in silence: a call that fails leaves `rep.message` empty, and
  nobody looks at what `call` returned (`adapter.h:31`).
* `enqueue_nowait` returns nothing and drops the oldest message; the
  comment at `mpmc_blocking_q.h:8` says that it returns false.

### Bounds

* `MaxPush` 4: two pushes can be in progress while the Consumer
  swaps and its callback sends; a second swap finds what was left behind by the
  first.  Two messages are enough to see a swap of order; two
  producers to have one wait for the lock while the other holds it.
* `MaxCalls` 2 and `MaxSize` 1: each kind of call meets each other kind and a call nested
  in its handler (a asks itself, a and b wait for each other), and a table is full as soon as
  one call was made without waiting or was given up.  The cycle with three calls and tables of
  two tasks (648 583 states) was checked as well, without liveness, and the safety properties
  are proved for any number of calls and any size of the tables.
* `MaxArgs` 4: an option of two values with one behind `=`, one after it, one too
  many, and another option; `MaxUInt` only has to be larger.
* `MaxRounds` 3 and at most two calls: late replies of two earlier rounds can
  meet, and the counter can pass `m_times`.  `MaxTaken` 6 lets all their requests be
  handled, `MaxSync` 4 lets several synchronous calls be given up.  With callbacks that
  exclude each other one of the `Workers` is as good as more; `qps_threads` has two,
  enough for one to be between load and store while the other runs through.
* `RepData`: three calls, so that a reply of the first may come in the second or
  the third, of the same or another form; one field of each sort.
* `ShowRpc`: two requests for each actor are enough for one to print what the other
  has counted.
* `Adapter`: two `dbcreate`, or one and two queries; a late update of the first may
  meet the create of the second.
* `Console`: `IntMax` 3 puts both ends of an int, and counts beyond either, within
  nineteen counts.
* `AsyncLog`: a ring of three slots wraps twice in six messages (four that are
  logged and two that end the workers); a thread that waits meets one that overruns
  and the destructor.
* `Md5`: lengths 0, 1, 3 to 5, 54 to 57, 63 to 65, 119 and 120: each side of every boundary;
  a `char` of 128 or more at the end of each word, where it does no harm, and in front
  of it, where it does.  `UIntMod` 512 lets strings of 64 bytes be too long to be counted
  and those of 63 not.  `Hash`: a `Modulus` of 15 bits holds two bytes to the base 131 and not three.

`CHECK_DEADLOCK FALSE` is set where the model stops at its bound: when all
`MaxCalls` calls were made and their messages were dropped, or all rounds
counted, or `parse()` has returned, a string is hashed, or the log is drained.  `QueueRw` never stops: its owner can always poll, and a destroyed
queue stutters by an action of its own; deadlock is checked there.

### Fairness

* `QueueRw`: threads inside `push` or `pull` go on (weak fairness per thread:
  the mutex is only ever held for three straight-line statements), callbacks
  return, and the owner polls again, which is what the loop of an actor's
  coroutine is for.  Nobody has to push.  The lock needs no strong fairness for
  these properties: with pushes bounded by `MaxPush` the pushers leave.
* `Sequential`: the parser is not interrupted.
* `Rpc`: a runner that can go on does, handlers, ticks and callbacks end, and the timer
  of a task fires.  No message has to arrive, no wait has to return by itself
  (`GiveUp`) and no handler has to throw.  That is the least under which
  a caller can be promised anything, and all that `CallsReturn` needs.
* `Load`: every request is handled, every reply comes and callbacks go on.  `RoundIsLogged` is a
  property of a link that loses nothing, and says so; without that the code promises
  no such thing.  Strong fairness of `ServeAsync`, because the actor is busy at
  each tick, again and again.  The safety properties of the run need none of it.
* `AsyncLog`: threads go on, time passes, and who asks for the mutex again and
  again gets it (strong fairness of `Enqueue` and `Dequeue`: other threads may
  take the room or the message first, but not for ever).

## 4. What is proved

The proofs hold for any number of producers, messages, pushes, actors, calls, rounds,
threads, any capacity of the ring, any command line, string and name.  All the
safety properties of the passing runs are proved: the invariants, the action properties
and the safety half of the three refinements (`Mailbox`, `RemoteCall`, `LogQueue`).

**QueueRwProofs.**  From `QueueAssumption` (the Consumer is not a
producer, nobody is called NoThread, `MaxPush` is a natural number):

* `TypeCorrect`: `Spec => []TypeOK`; in particular `m_sizeWrite` is never negative.
* `QueueSound`: `Spec => []QueueInv`; `Fifo`: `Spec => []FifoConserved`;
  `SelfSends`: `Spec => []SelfSendDeferred`;
  `PullServes`: `Spec => PullServesCompleted`; `Refines`: `Spec => MailboxSpec`.

The inductive invariant `IInv` is `TypeOK`, `QueueInv`, `FifoConserved`,
`SelfInv` and `ServeInv`.  `FifoConserved` alone is not inductive: the swap keeps the
order only when `m_queueRead` is empty, which `SwapInv` carries from the
unlocked test to the swap (only the Consumer ever fills that deque).
`SwapInv`'s second half, that the counter stays positive until it is zeroed,
needs `SizeInv`, which needs `LockInv`.  `SelfInv` bounds what the running loop
can still reach; `ServeInv` says where the promised work is at each point of a
pull.  The proof goes action by action (`OnePusher`, `OnePuller` and
`NobodyInside` give the exclusion each needs).

`OwnerCounts`: `Spec => []SizeToOwner` needs nothing more: it follows from
`FifoConserved` and `SizeInv`, the counter being one short exactly while a push is
between `emplace_back` and `++m_sizeWrite`.

**RpcProofs.**  From `RpcAssumption` (the console is no actor, the app is one; who calls
what, who has registered what and which structs differ is arbitrary):

* `TypeCorrect` (with the bound of the tables, `FiniteTables` and `OneTaskMore`),
  `TasksEndOnce`, `PostsAreSilent`, `WaitersHaveWakers`, `CallbacksInFrame`: `Spec` implies
  `[]TypeOK`, `[]TaskEndsOnce`, `[]PostSilent`, `[]WaiterHasWaker` and `[]CallbackInFrame`;
* `Implements`: `Spec => RemoteCallSpec`.

The properties need the rest of the invariant to be inductive.  `KnownInv`: what is not made yet is nowhere, so a new
task cannot meet a message of an old one.  `TableInv`: a task that has not ended
is in the table of its own `rpc_t` or with the one reply that pulled it, which is why
the timer and the reply cannot both end it.  `MessageInv`: a request is one message
at a time, and a reply says what became of the handler; two replies to one request
are the same (`OneReply`).  `HandlerInv` ties a coroutine to the request it serves,
`FrameInv` each synchronous call that is not over to the frame of its caller, unless that
wait ended by itself: from that and `TableInv` follows `CallbackInFrame`.

**LoadProofs.**  First `qps_rpc_t` by itself, from `QpsAssumption`, for any `Workers`.
`TypeCorrect`: `Spec => []TypeOK`.  `NeverLoggedTwice`, `CompleteIsLogged` and
`CounterIsSound`: `Spec` implies `[]LoggedOnce`, `[]AllBackIsLogged` and `[]CounterCovers`
if `Exclusive`, an assumption of each of the three.  The invariant `QpsInv` holds in any case: `AheadInv`
(nothing has happened in rounds to come), `SyncInv` (a synchronous call is only
waited for inside its loop) and `NoCallsInv`.  `CountInv` needs `Exclusive`: `HeldInv` (one
callback at a time, whose register is what it left in the counter), `CoverInv` (the
counter is behind by that callback only) and `LogInv` (the current round is logged exactly
when the counter has passed `m_times`, or stands there and was tested).

Then the two actors together.  `Components`: `LoadSpec` implies the specification of each
part, so what is proved of a part alone holds here too; `PrintedOnce`
(`LoadSpec => []ShownOnce`) is nothing but the theorem of `ShowRpcProofs`.
`SameAtBothEnds` and `RateWasHandled`: `LoadSpec` implies `[]EndsAgree` and
`[]LoggedMeansHandled`.  They need what is on its way between the parts: `ServedInv` (a handled
asynchronous request is a reply on its way or one that came), `RateInv` (neither the counter,
which knows nothing of rounds, nor what a callback holds of it exceeds the replies of all
rounds; for this no `Exclusive` is needed) and `AskedInv`
(a synchronous request made is handled, or on its way with its caller waiting or gone).

**RepDataProofs.**  `NothingMixed` and `Transferred`: `Spec => []HeardIsOwn` and
`Spec => RepIsTransferred`, for any fields, any of them written by handlers, and any
number of calls.  Neither says what is in a message; the invariant adds it: `IdsInv`
(calls are numbered as they are made, so a new one is nobody's), `CurInv` (what the
request and the reply of the call that is out carry, which is where the
caller's own `rep` comes in) and `AsyncInv` (what those of asynchronous calls carry).

**ShowRpcProofs.**  `PrintedOnce`: with at most one `show_rpc_t` in the process, `Spec`
implies `[]ShownOnce`.  `ShowInv` says besides what was printed inside `show_io()`: the
counters, which no handler changes until they are remembered.  `show_two` shows that
the assumption is needed.

**AdapterProofs.**  `CreateFirst`, `QueryTrue`, `ErrorOfRefusal` and `TypeCorrect`:
`Spec` implies `[]CreateComesFirst`, `[]QueryIsTrue`, `[]ErrorIsRefusal` and `[]TypeOK`, for any
number of calls.  The invariant adds `MadeInv` (whatever has happened to a call, it was
made), `RepInv` (an ok is only told of handled calls, and the local `rep` is empty or the
answer to the last call), `OrderInv` (an update is called when the call before it
is over) and `RowsInv` (rows in an answer are what the table held then).

**AsyncLogProofs.**  From `AsyncAssumption` (the sorts of threads are apart, there is a
worker, as the constructor of the pool demands in `thread_pool-inl.h:19`, and the ring holds
something): `LogCorrect`, `Drained` and `Implements`: `Spec` implies `[]LogInv`,
`[]DrainedAtExit` and `LogQueueSpec`.  The first part of the module is about the ring alone:
where the two cursors are, which slots are taken, that a push into a full ring takes the
place of the oldest.  The invariant adds `CountInv` (ids are given out in the order of
pushes), `RingInv` (the ring holds them in that order, log messages before those
that end workers), `HeldInv` (no two workers hold the same message) and `DoneInv`
(what was written and who was ended); `DtorInv` says that the destructor begins after
the last post, which `DrainedAtExit` rests on: with everybody ended by a message behind
all the log messages, there is nothing in front of them any more.

`SleepersAreWoken`: `Spec => []NoLostWakeUp`, the safety half of `PostEnds` and `DestroyEnds`.  While
somebody sleeps for room there are no more free slots than workers about to notify and threads
about to look for room; likewise for messages and the workers.  It is inductive with
`IInv`: each step that makes room, or a message, makes one who is going to tell, and
`notify_one` turns who tells into one who looks.  No run lists it; TLC found it to hold on
the instance of `async_log`, and with one more thread that waits and one more worker.

**SequentialProofs.**  From `SequentialAssumption`, which is what C++ gives: the seed of the hash is
odd and the modulus a power of two, so the seed has an inverse; a byte is less than
the modulus; an int holds -`IntMax`-1 to `IntMax`; there are finitely many actors, and
what `num_args = -1` becomes is more than any command line has arguments.

* `Meant`: `SequentialSpec => []ParsedAsMeant`.  `ReadInv` says it of the arguments read so far,
  `InnerInv` what `n` is (the place of this word behind the option that takes it,
  one more if it had a value behind `=`), `OuterInv` that the outer loop is never
  at a word which is a value.  `ParsedAsMeant` asks for the greatest option before a word,
  which exists by `Greatest`.
* `Padding`: `[]PaddedAsMd5`, by `BytesInv`, what is in `strByte` at each point of the padding,
  and `LengthFree`, that nothing has come to where the length goes.  `BlocksFit` is the
  arithmetic of the blocks; `LengthBytes` says that the four bytes stored are read
  back as what was stored, for any `UIntMod` of at most four bytes.
* `Mixing`: `[]EveryWordMixed`.  `MixedInv` counts the steps that use a word so far
  (`Hits`); `StepOfWord` says that each round has one of them for each word.
* `NamesApart`: `[]OneByteApart`.  A turn of the loop never folds two values together
  (`TurnApart`), and different bytes give different values (`ByteApart`).
* `Marks`: `[]MarksCount`.  `CountdownInv`: `n` is the count less what was marked.
* `TypeCorrect`: `[]PartsTypeOK`.

**Only model-checked**: all liveness (`EventuallyDelivered`, `MailboxFairSpec`, `CallsReturn`,
`RoundIsLogged`, `PostEnds`, `DestroyEnds`, `ParserEnds`), which is out of the prover's reach,
and of course the four disagreements, which are behaviours.

## 5. What is not modelled

* The engine's network, sessions, coroutine scheduler and thread pool: not in the
  repository.
* `~CLockStdMutex` unlocks a mutex that nobody holds (`lock.h:24`), undefined
  behaviour each time an actor dies.  It is no question of order; noted here.
* `show_rpc_t`: `incSyncCall()`, which nobody calls, `g_connNum`, which nothing
  changes, and times.  `qps_rpc_t`: `test_rpcSyncCall_local`, which measures time.
* `adaper_dbDelete`, whose body is empty and has no return statement (`adapter.h:95`).
* Console commands `loglevel` (one call to the application, whose result is not looked at), `testabc` (its calls are an
  instance of `Rpc`) and `close` without a name (ends the application, in `libengine.a`).
* MD5's arithmetic and text, and the rest of `string_util`: pure functions without state.
* Buffers (`buffer.h`, `buffer_ring.h`): cursors that their caller moves; nothing in the
  repository calls them and no contract is stated, so no sequence of calls is
  known to be legal.  The codec is a cast and a call of msgpack for each direction; which lengths
  it is given is decided in `libengine.a`.
* Vendored libraries: iguana, msgpack, nlohmann json, fmt, and of spdlog all but the
  asynchronous queue; and clocks, files, formatting and compile-time traits.

**Share of the code.**  Of about 140 000 lines under `src/` by far the most are those
vendored libraries: templates and preprocessor tables for serialisation, parsing
and formatting, which keep no state that two actors share.  Of the engine itself the
repository has headers, for the most part declarations whose bodies are in `libengine.a`.
The lines that hold control flow of the program's own, and the one vendored queue its
logging rests on, are a few thousand; a share of the whole that counts
the vendored tables cannot grow by modelling the program.

## 6. Plan

1. `Rpc` with a queue of requests per actor (composition with `Mailbox`), and the proof that
   the order of a mailbox is the order in which requests are served.
2. `closeSet` of an actor with calls outstanding, as far as the declarations say what it does.
