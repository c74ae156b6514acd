# Verification of Mac O' Blox

TLA+ models of Mac O' Blox, the TLC configurations that check them, and TLAPS proofs about
them. Mac O' Blox runs the macOS Roblox client on Linux under Darling: a GTK launcher in
Python starts the client with shim libraries in C and Objective-C that repair or replace what
Darling lacks. Every definition is translated from the source named in `PROJECT.json` ("map").

Run one model with `tlc -workers 2 -config MCAudioRing.cfg MCAudioRing`, one proof with
`tlapm AudioRing_proofs.tla`; the module of every run is in `PROJECT.json` ("runs").

## 1. Inventory

For each part: its state, its operations, who it talks to, what is hard, what makes it right.

| Part | State | Operations | Interacts with |
|---|---|---|---|
| **Audio unit and ring**, `audio_hal.c` | one `OutputUnit`: flags, ring, two counters, thread, IOProc | FMOD's start, stop, uninit, dispose, properties; render thread; IOProc; FIFO thread | FMOD (one caller), Darling's device (calls the IOProc), the launcher's FIFO |
| **Host audio**, `core.py` `HostAudio` | FIFO, a descriptor kept open, the player | start, stop | the FIFO thread, through the FIFO |
| **Mouse lock**, `libMacOBloxShims.m` 2261-2547, 3466-3513 | grabbed flag, anchor, frozen position, expected warp | associate, warp, each motion event, compression | X server (late motion events), the game's camera |
| **Event queue and key state**, `libMacOBloxShims.m` 2880-3022, 3344-3463 | array under a spin lock, keys down, monitors | next, post, discard, send, add and remove monitor | AppKit on several threads, the game polling keys |
| **Network safety net**, `net_trace.c` | watched sockets (256), last reads | kevent, blocking receives, stall watchdog | Asio's threads, Darling's kqueue, which loses edges |
| **Mutex and condition fixes**, `darling_fixes.c` | a slice length per thread | mutex lock, timed waits, stack sizes | every thread; Darling's lossy psynch |
| **DNS**, `dns.py`, `dns_override.c`, `libMacOBloxShims.m` 1129-1190 | cache, pool of TLS connections, executor; 256 lists handed out | answer, resolve, stop; getaddrinfo, freeaddrinfo | client -> forwarder -> upstream, all lossy |
| **Launcher**, `app.py`, `core.py` `RobloxSession` | session, page state, process, timers | launch, watch, stop, close, update, logout, restart Darling | worker threads and GLib callbacks; the client, darlingserver |
| **Installation**, `core.py` 164-204 and 355-379, `studio.py` | bundle, backups, marker files, staging | update, install, prepare prefix | the file system; crashes between steps |
| **Cookie and keychain stores**, `libMacOBloxShims.m` 3244-3336, 3982-4153 | property lists on disk | get, set, delete | the client, logout in the launcher |
| **Pure shims**: `xattr_compat.c`, `fast_libc.c`, `memory_stats.c`, `connectx_compat.c`, property answers of `audio_hal.c` | none | single calls | - |
| **OpenGL**, `gl_profile.c` | table of formats (32), contexts seen (8), the profile each thread wants | make a format, a context, a surface; show a frame | the client's threads, Darling's own contexts, EGL, X |
| **Cursor, late hooks, stub frameworks, rootless helper, translations, scripts** | small caches | wrappers | - |

What is hard in each, and what would make it right:

- *Audio.* Two threads share counters without a lock; the thread must see a stop in every wait;
  starts fail half-way; the reader of the FIFO may vanish. Right: no sample lost, repeated or torn; one
  render thread; nothing uses a freed unit; a stop returns.
- *Mouse lock.* A warp's own motion event comes late, possibly merged with the hand's, and is
  recognised only by its length. Right: the camera turns by what the hand did; the pointer
  returns to where the lock began.
- *Event queue.* Scans, insertions and removals by several threads; a limit; discards. Right: each event handed out
  once, in order, only to who asked for it; the keys shown are the keys held.
- *Network.* Lost edges, registrations that change during a wait, descriptors reused. Right: data
  that waits is read; no event for a registration that is over.
- *Mutex and conditions.* Lost wakeups, deadlines cut into slices. Right: no wait outlasts its
  deadline, every early end looks like a spurious wakeup.
- *OpenGL.* The profile asked for in one call is applied in another, on any thread, to an object whose
  address may have had another owner. Right: each context has the profile of its own format, Darling's own
  stay as they were, a window that can have a surface gets one.
- *DNS.* Retries, stale pooled connections, a stop with queries under way, lists that must be
  freed by who made them. Right: an answer belongs to its question; a lost datagram is retried;
  nothing is freed by the wrong allocator.
- *Launcher.* State looked at in one callback and used in a thread. Right: one session at a time; no update under
  a running game; a session that ended is finished exactly once.
- *Installation.* Crashes between renames and marker files. Right: after a crash a next run repairs the
  installation, and flags survive an update.

`PROJECT.json` lists all components with their status, and under "hazards" every such place
with its line and the properties that cover it.

## 2. The modules

| Module | Models | Checked by | Proved in |
|---|---|---|---|
| `AudioStream` | what the audio unit promises: a bounded stream, in order | (abstract) | |
| `AudioRing` | the lock-free ring; implements `AudioStream` | `MCAudioRing` | `AudioRing_proofs` |
| `OutputUnit` | the unit's life cycle with FIFO and host audio | `MCOutputUnit`, `MCOutputUnitFailedStart` | `OutputUnit_proofs` |
| `MouseLock` | the camera's mouse lock and motion compression | `MCMouseLock`, `MCMotionMerged` | `MouseLock_proofs` |
| `EventQueue` | the event queue and the keyboard state | through `Monitors` | `Monitors_proofs` |
| `Monitors` | `sendEvent:` with the event monitors; extends `EventQueue` | `MCEventQueue` | `Monitors_proofs` |
| `KqueueNet` | the kevent wrapper | `MCKqueueNet`, `MCNetUnsliced` | `KqueueNet_proofs` |
| `Waits` | mutex lock and timed waits over a lossy psynch | through `NetThreads` | `NetThreads_proofs` |
| `Receive` | receives of a UDP socket and the stall watchdog | through `NetThreads` | `NetThreads_proofs` |
| `NetThreads` | two threads of the client over `Waits` and `Receive` | `MCNetThreads`, `MCStallMarked` | `NetThreads_proofs` |
| `AddrLists` | the table of address lists, `freeaddrinfo` | through `Dns` | `Dns_proofs` |
| `Dns` | a lookup from `getaddrinfo` to the forwarder's cache; extends `AddrLists` | `MCDns` | `Dns_proofs` |
| `GlContexts` | pixel formats, contexts, surfaces, the first frame | `MCGlContexts` | `GlContexts_proofs` |

### AudioRing
The render thread (`unit_render_thread`) and the IOProc (`unit_ioproc`) are processes whose
steps are the single accesses to shared fields: the test of `producing`, the reading of the
other side's counter, each slot copied, the publishing of the own counter. `client` is FMOD's start
or stop under way. A slot is one frame and holds the number of its sample, so a lost, repeated
or torn sample shows. The counters count frames and never wrap (64-bit in the code). Memory is
sequentially consistent: the thread's barrier (455) orders its copy before its counter; the IOProc
has one before it looks (541) and none between its copy and its counter (545-549), where the model relies on x86
keeping loads before later stores and on the compiler not moving the copy past a volatile store.
`Stream` is the refinement mapping: what is
published is promised, what is read is delivered.

### OutputUnit
One action per step of a call: t_start is `CreateThread`, `CreateIOProc`, `StartDevice`, each of
which may fail; stop, uninit and dispose are `ClearProducing`, `JoinThread`, `StopDevice`. The
threads are only as far apart as their waits: the loop, the open of the FIFO, the write. `host`
is `HostAudio`: player, kept descriptor, unlink. `upset` records what the code does not undo (a
start that failed half-way, a device changed under a registration), and the properties say
exactly what still holds then. At `lost` a thread is in an open of a FIFO whose name goes away.

### MouseLock
One axis, in pixels, with the code's radius (100) and merge limit (48). `MoveHand` and the
shim's warps move the pointer and queue a motion event; `PostXEvent` is one round of the
compression loop; `DropWarpMotion` and `TurnCamera` are the two outcomes of
`macoblox_filter_locked_motion`; `Unlock` and `RestorePointer` are the unlock before and after it reads the
pointer. Left out: the worker that hides the cursor, the screen's edges, the sensitivity factor
(it scales what the game gets and feeds nothing back). `upset` names what the filter cannot do by
its design: a warp before the lock began, and a hand movement that looks like the warp.

### EventQueue
Each access to the shared array is a step, and the lock is a variable, so a missing lock would show
(`AcquireAnyway` is that mutant). The devices post while the main thread's run loop runs. A call
of `sendEvent:` with a key event updates `key_down` as `macoblox_track_key_event` does, with one flag
bit for both keys of a modifier. An event carries, as observations, its number and `after`, the events
whose posts had ended before its own began: posts that overlap have no order (`Before`).

### Monitors
Composes the queue with the rest of `sendEvent:`. An event the main thread sends goes to `Snapshot`,
which copies the blocks of the monitors that asked for it, and then to one handler after the other
(`CallHandler`, `HandlerReturns`), which may keep it. The table's lock is held over no call, so
`AddMonitor`, `RemoveMonitor` and `Snapshot` are one step each. Other threads, and a handler itself,
change the table between any two handlers; addresses of released blocks are given out again. While a
handler runs the main thread makes no call on the queue: a handler that runs an event loop of its own
is left out. An event may also be kept by the mouse lock's filter before any monitor sees it.

### KqueueNet
One queue, one thread that waits, another that changes registrations, sockets that are closed
and reused. Recording a change in the table and its arrival in the kernel are two steps, as in the code;
so are reading the table and peeking at the sockets. The kernel may lose any edge. A registration is named by a
number that stands for its udata and is never reused, so an event with a dead one shows. Time is left
out: a slice may end at any moment. The kernel, the sockets and Asio's handler are external
and modelled from how `traced_kevent` uses them.

### Waits, Receive, NetThreads
`Waits` is `pthread_mutex_lock` and the timed waits of `darling_fixes.c` over a kernel that may lose
the wakeup of a mutex or of a condition variable (`losses`); `TimedWait` chooses the slice, the
doubling per thread and condition is `NextSlice` and `WaitFinished`. `Receive` is
`emulated_blocking_receive` with its polls and `SO_RCVTIMEO`, the receive without waiting, and plain
`recv`; `Look` and `MarkAndSignal` are the watchdog, whose signal ends a lost wait. `NetThreads`
composes them as the code's comments report the client: a receive thread that passes datagrams on
under the mutex and an update thread that waits for them with a deadline. Time is a tick; the 64
yields and 4000 naps are a number of tries. Sends, `poll` and the log are left out.

### AddrLists, Dns
`AddrLists` is the compare-and-swap table of `dns_override.c`, one slot per step, and `freeaddrinfo`;
an address that was freed can be given out by either allocator. `Dns` extends it: `StartLookup`
decides what the resolver takes on, `Opens` gives the lookup a port and an id, each of which may come
again; `Send`, `PollTimesOut`, `Receive` and `Reply` are `query_forwarder`. `Receive` reads one
datagram and compares ids as the code does: another id uses up the attempt. `Deliver` is the kernel's
part: a datagram reaches whoever has its port open when it comes. What a datagram says of the thread and
the lookup it belongs to, the code does not see; neither does it see `alike`: an earlier query with this
port and id was under way when the lookup began. `LockSystem` and `SystemAnswers` are Darling's resolver
behind its lock. The
forwarder is `Serve`, `Stop` and the workers' `Consult`, `Resolve`, `Store`, `Answer`, which are apart
because a worker reads the time and the cache before it resolves and stores afterwards. Upstream is a
choice in `Resolve`: an answer of any kind or none.

### GlContexts
One action per call and place another thread can come in between: `NewFormat` (the initializer may
fail: then nil is noted, as in the code, and a full table loses its last entry), `PrepareContext` (the
profile is noted for the thread), `CreateContext`, `FinishContext`, `Attach` (setView:, any number of
times: visual and surface), `Present` (the display may refuse the interval) and `ShowFrame`.
`DarlingContext` is a context Darling makes for itself. A driver and its environment are a `Machine`,
chosen at the start. `lost` and `stale` are observations that name what the code gives up: a format
pushed out of the full table, and a surface made while its context's address was in `configured`.

## 3. The runs

| Run | Asks | Bounds, and why they are enough |
|---|---|---|
| `audio_ring` | no sample lost, repeated, overwritten or torn; refinement; sound goes on; stops return | ring 4, block 2, requests 1 and 3, 6 samples: the ring wraps, fills, empties; blocks are split; restarts at every point. The proofs lift the sizes. |
| `output_unit` | who uses the unit, and whether stops return | 2 threads, 2 IOProcs, 2 devices, a FIFO of one block: a failed start and its successor, an old and a new registration, a full FIFO. The proofs lift the numbers. |
| `output_unit_failed_start` | is there one render thread? **No** | the same |
| `mouse_lock` | camera, pointer, answered warps | window 300, starts 10 and 150, three steps of 51 or -34: two of 51 leave the radius and the third comes during the recentering; three calls: a lock, a warp inside it and the unlock, or a lock, an unlock and a relock |
| `motion_merged` | are the lock's warps seen alone? **No** | the same steps, one lock, without the game's warps |
| `event_queue` | each event once, all of them in the order of their posts, the right keys, the queue drains; every monitor hears | 3 events, limit 2, two threads: press, release and one in between or in front; one more than the limit. Or 1 event and 3 monitors for a table of 2: a hole, a full table, a reused address. Or 3 events with a monitor |
| `kqueue_net` | data is read, dead registrations are silent, the buffer is not overrun | 2 descriptors, one of which may be reused for another kind of file; a table of one slot, room for one event, a buffer of one datagram: everything is full at once |
| `net_unsliced` | is data in every watched socket read? **No** | one descriptor |
| `net_threads` | news within a slice, deadlines and `SO_RCVTIMEO` kept, stalls ended | 2 threads, one lost wakeup, slices of 1 doubling with a limit of 3, deadlines 1, 2 and 8, a poll slice of 3 in a timeout of 4: below, at and beyond each limit; the four clients of `MCUses` |
| `stall_marked` | does the watchdog end every stall? **No** | the client that polls |
| `dns` | the right allocator, the cache fresh, answers to the question asked, lookups end | a table of one place and two addresses (full and reused at once); the five `MCSizes`: two workers and three queries of one name, or two queries and more time; a thread that looks up twice from one port, with the same id or another; two threads that have one port after each other, or one each with the same id. The proofs lift the sizes of the safety properties. |
| `gl_contexts` | the right profile, Darling's contexts alone, surfaces, the swap interval | 2 threads, a table of 2 and 3 formats, one place for seen contexts and 2 contexts; Mesa, NVIDIA and three other machines |

The findings are disagreements of the code with its own comments, quoted in `PROJECT.json`. Four are
the runs marked **No**:

- `audio_hal.c:798`: a start whose IOProc or device start fails leaves its thread rendering;
  the next start makes a second one on the same ring.
- `libMacOBloxShims.m:3510`: a warp is merged with the movement that follows it.
- `net_trace.c:557`: a socket registered while the thread waits on a queue without watched
  sockets is not served until that wait ends for another reason.
- `net_trace.c:171`: a socket the watchdog has marked is not looked at again until data is read, so a
  wakeup lost after the mark leaves the thread asleep.

Two are what a passing property says, where a comment says something else:

- `libMacOBloxShims.m:2454`: a warp the game asks for during the lock is noted and dropped when the lock
  ends; the comment at 2261-2262 says it is applied then. `PointerReturns` holds with such warps in the
  run: the pointer is back where the lock began.
- `gl_profile.c:327`: a surface made while its context's address is in `configured` (setView: again, or
  a context at the address of a destroyed one) keeps the driver's swap interval; the comment at
  307-308 promises 0 to each context. `NotedAreSet` has to make it an exception (`stale`).

Seen while modelling, without a run of their own; the properties name them as exceptions, or the
models leave them out:

- A slice under a second is doubled, so it can exceed the second the comment gives as its limit
  (`darling_fixes.c:142`, comment 95). `NewsSeenInASlice` therefore allows twice `SliceMax`.
- A query that arrives after `stop` and before the thread looks at its flag finds the executor shut
  down; the exception ends the thread with the socket open (`dns.py:90`).
- A list that found the table full is later freed by Darling's `freeaddrinfo` (`dns_override.c:216`; the
  comment at 11-12 says that lists built here are freed here).
- A warp from before a relock turns the camera (`libMacOBloxShims.m:2407`): `early` in `MouseLock`.
- An initializer that fails on a full table of formats pushes out the last one (`gl_profile.c:62-67`).
- The stream format check looks at neither interleaving nor byte sizes (`audio_hal.c:273`).
- The copy of monitors holds blocks without a reference, so one removed by a handler before it is
  called after its release (`libMacOBloxShims.m:3017`).

`CHECK_DEADLOCK FALSE` stands where the system may really stop: FMOD may have disposed of its
unit, or the bounds on calls, moves and events are used up.

**Fairness.** The render thread, the FIFO thread, the main thread and the network thread get on with what they do
(the kernel schedules them); the device goes on asking for frames; the player goes on reading while it
lives. FMOD, the game, the user's hand, other posters of events and closers of sockets owe nothing.
`SF` on the main thread's `nextEvent` says that its loop asks again and again although other
calls of its own come in between. A wait with a limit is not required to end in `KqueueNet`: only the slices
end, which is what kevent's timeout gives. In `Monitors` handlers return. In `NetThreads` threads that
can run do, and time passes however busy they are (`SF` on `Tick`, since a thread that spins keeps
interrupting it); timers are not late, the watchdog, once a second, keeps up, and
`MACOBLOX_NATIVE_MUTEX` and `MACOBLOX_NATIVE_COND` are unset, as the launcher leaves them. Nothing is
assumed of the network or of a lost wakeup. In `Dns` the looking threads run and polls end; the
forwarder may stop, die or never answer. `GlContexts` has safety properties only.

Where several bounds belong together (`Uses`, `Sizes`, `Traffic`, `Machines`) one combination is
chosen in the initial state, so that one run covers cases too large all at once.

Every property has a mutant in its module (the comment says "Mutant"; "mutants" in
`PROJECT.json`): a plausible bug in the code that the property finds under the run's own
configuration.

## 4. What is proved

Every invariant and every action property the passing runs check is a theorem, for every value of
the constants under the `...Assumption` of its module, checked by tlapm to the last leaf. What the
assumptions say beyond types and positive sizes: `None` is no thread, address or block; the least cache
life is not zero; there are finitely many descriptors (`NetAssumption`); the keys that share a flag bit
are two (`QueueAssumption`); the two threads of `NetThreads` are all there are; a machine has at least one
config (`GlAssumption`). TLC evaluates them in every run.

Each inductive invariant was first checked by TLC on the constants of its run.

- `AudioRing_proofs`: `TypeCorrect`, `NothingOverwritten` (`UnreadIntact`), `RaceFree`
  (`NoDataRace`), `RingImplementsStream` (`ImplementsStream`). The properties are not inductive: between the
  thread's look at `ring_read` and its last copy nothing in `UnreadIntact` says that the block fits.
  `RingInv` adds that a block being copied fits (`BlockFits`; the IOProc only makes more room), that
  what the IOProc copies was published (`CopyIsPublished`; the thread only publishes more), and that nobody is at the counters
  when a start resets them (`ClientAlone`). The arithmetic of positions is in
  the lemmas `Division` to `SlotOfSample`: samples less than a ring apart have
  different slots. The refinement maps the publishing of a block to `Offer`, the end of an IOProc call to `Deliver`, a
  start to `Restart`, all else to stuttering.
- `OutputUnit_proofs`: `TypeCorrect`, `RenderThreads` (`OneRenderThread`), `FreedIsUnused`
  (`FreedUnitUnused`), `RunningTold` (`RunningIsTrue`). `UnitInv` says how far the call under way is
  and what it may rely on: a start has `producing` set and `running` clear, a join has a thread, an
  IOProc runs only while the unit says so and is on the unit's device.
- `Dns_proofs`: `ListsRightAllocator` (`RightAllocator` of `AddrLists`), for any number of threads,
  addresses and slots. That a list freed here was built here is not inductive: it needs that no address
  is in two places. `ListsInv` says that the list in a thread's call is nobody else's (`Alone`), that the
  table has only lists the game has, once each (`Tabled`), and that the lists built here which the
  game has are in the table unless it was full (`Held`). `DnsImplementsLists` (every step of the whole is
  a step of `AddrLists` or leaves it alone), and from it `DnsRightAllocator`; then `DnsTypeCorrect`, `DnsAnswersTheQuestion`,
  `DnsAnswerFresh`. `Asking` adds that only a lookup that sends or polls has answers. `MatchInv` is what an
  answer's ownership rests on: open sockets have different ports (`Apart`), and whatever query or answer
  is under way to a lookup's port with its id is its own, unless that was not so when it began
  (`Matched`). `Working` and the cache's conjunct follow the time a worker read at its start through resolving and storing, so
  that an entry expires no later than what was said.
- `Monitors_proofs`: of the queue, `EventsOnce` (`EventsKept`), `EventsInOrder` (`InOrder`), `KeysShown`
  (`KeysTrue`), `SparesTheRest` (`DiscardSpares`). A scan holds an index between two steps, so
  `QueueInv` says what it found there (`CallOK`) and that nobody else moves the queue (`LockOK`);
  `PlacesOK` keeps the places of an event apart; `OrderOK` puts the key event taken before those
  queued and the one that comes after them; `KeysOK` says that the last pending event of a key, or
  with none the state shown, is the key's. `OrderInv`, for all events, adds to `InOrder` that the past of
  every event has ended, so none that is still to be inserted belongs in front of one that waits. `QueueAlone` (`InputSpec => Spec`) shows that the
  composition uses the queue only by its own operations, so all this holds there too; with it
  `InputTypesCorrect` (`InputTypeOK`) and `MonitorsHearAll` (`MonitorsHear`), whose invariant
  follows the copied blocks through the handlers (`DispatchOK`).
- `MouseLock_proofs`: `TypeCorrect`, `CameraExact` (`CameraFollowsHand`), `PointerComesBack`
  (`PointerReturns`). The two motion queues and the event handled last are read as one way of places, each a
  step of the hand or one warp (`WayOK`). While the lock holds no warp is on the way, or exactly
  the one whose event is to be dropped, which no step of the hand can be taken for (`CameraOK`).
  `HomeOK` is what an unlock still has to undo.
- `KqueueNet_proofs`: `TypeCorrect` (the event buffer is not overrun) and `NoEventOfTheDead`
  (`DeletedIsSilent`). `NetInv` says that table and kernel differ only by the change under way and by
  closed sockets (`Tabled`, `Current`), that a recorded change has an open descriptor and no rival
  (`AdminOK`), and that what a call holds from an old look at the table is accounted for (`WaitOK`).
- `NetThreads_proofs`: `TypeCorrect`, `LostSignalCostsASlice` (`NewsSeenInASlice`),
  `TimeoutsAreTheCallers` (`DeadlineKept`), `ReceiveTimeoutKept` (`RcvTimeoutKept`). None is inductive:
  `UpdaterOK` adds that what a wait has missed and what is left of it are together less than
  two slices, and that an unsliced wait ends exactly at the deadline; `SlicesOK` bounds the slice a
  thread will get next; `WaitersOK` and `CallsOK` keep a released mutex from changing a call that does
  not wait for it; `ReceiveOK` adds what a poll has left. The lemmas on `Waits` (`Released` to
  `PassKept`) and on `Receive` do not mention the two threads' own code.
- `GlContexts_proofs`: `TypeCorrect`, `ProfileKept` (`ProfileAsAsked`), `DarlingsAlone`
  (`DarlingsCompatible`), `SurfacesMade` (`SurfaceWhereOneFits`), `NotedContextsSet` (`NotedAreSet`). `GlInv`
  follows a format's wish from the table (`FormatOK`, which needs that the table fills from the front:
  `Prefix`) to the mark of the thread (`StepOK`) and into the context (`ContextOK`), which has the newest
  Core version of the machine.

Only model-checked: all liveness (`RenderedIsPlayed`, both `StopReturns`, `WarpAnswered`,
`QueueDrains`, `DataIsRead`, `StallEnds`, `LookupEnds`), since the prover handles neither fairness nor
ENABLED, and what the runs marked **No** find. The bounds of the runs (`MaxPosts`, `MaxMoves`, `MaxLost` and
the like) are constants of the models, so the theorems hold for every value of them too.

## 5. Plan

In this order:

1. Proofs of what new modules promise, each with its module; of the liveness properties, the safety
   half: what keeps each step they wait for possible.
2. `Install` (`update_roblox`, `studio.py`, `prepare_prefix`): file-system states with a crash
   between any two steps and a repair by the next run.
3. `Launcher` (`app.py`, `RobloxSession`): main loop, worker threads, callbacks, the client's
   processes, the close button, updates. Composes the session with what holds the bundle.
4. `Store`: cookies and keychain as maps with their files, against a reference map.
5. StreamFormat while running in `AudioRing`; the sensitivity factor and the second axis in
   `MouseLock`.

## 6. Not modelled

- *Launcher, Installation, Store*: see the plan; so far the project went to what the client's threads
  do while a game runs.
- *Audio property answers* (`h_get`, `h_size`, `h_has`, `h_set`): each call answers from constants.
  Their only state is Darling's buffer size, and nothing they promise takes more than one call.
- *Pure shims* (`xattr_compat.c`, `fast_libc.c`, `memory_stats.c`, `connectx_compat.c`): functions of
  their arguments, for a unit test.
- *Cursor over a raw X11 socket*: a byte protocol on a private connection with one request in
  flight. What it answers about visuals is a choice of `GlContexts`.
- *Late hooks, class patches, crash handlers, stub frameworks, rootless helper, translations, author
  page, scripts and packaging*: pass-through wrappers, display, start-up or build steps in a fixed
  order.

Wording, logging and layout everywhere. Memory ordering weaker than x86's. The bytes of DNS messages
are kinds of answers, the TLS connections to upstream part of one step that may fail.
