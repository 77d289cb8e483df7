# khatru in TLA+

[khatru](../src) is a Go library for writing nostr relays: a program configures a `Relay` with slices of
functions (stores, policies, hooks) and khatru does the rest: websockets, subscriptions, the path of an
event from a message to the store and to the listeners, deletion, expiration, authentication, counting, set
reconciliation, and beside it a media server (`blossom/`) and rate limiting policies (`policies/`).

This directory holds TLA+ models of its stateful parts, TLC configurations that check them on
small instances, and TLAPS proofs of what matters most for instances of any size.

    tlc -workers 2 -config MCBroadcast.cfg MCBroadcast.tla      # one run
    tlapm ListenerRegistryProofs.tla                            # the proofs of a module

## 1. The system

| Component | State | Operations | Code |
|---|---|---|---|
| Listener registry | `clients` (per connection a slice of specs), `listeners` (per relay a slice), `clientsMutex` | add, remove one id, remove a client, shut down | `listener.go`, `get-started.go` |
| Broadcast | reads `listeners` without the mutex | notify, `BroadcastEvent` | `listener.go:136`, `broadcasting.go` |
| Event pipeline | none but the stores | EVENT message, `AddEvent`, normal and ephemeral events, replacement | `handlers.go:164`, `adding.go`, `ephemeral.go` |
| Deletion requests | none but the stores and the heap | `handleDeleteRequest` | `deleting.go` |
| Expiration manager | a heap under a mutex, `initialScanDone` | start, scan, check, track, remove | `expiration.go` |
| Connection | contexts, one goroutine a message, a `WaitGroup` a REQ | REQ, CLOSE, EOSE, disconnect | `handlers.go`, `responding.go`, `websocket.go` |
| Session: the socket itself | reader and pinger, the write mutex, the read deadline, the ticker | register, read, ping, write, kill, shut down | `handlers.go:55`, `handlers.go:415`, `websocket.go`, `get-started.go:53` |
| Authentication | `AuthedPublicKey`, `Authed` under `authLock` | AUTH, `RequestAuth` | `handlers.go:328`, `utils.go` |
| Negentropy | a map of sessions a connection, a debounced timer a session | NEG-OPEN, NEG-MSG, NEG-CLOSE, timeout | `handlers.go:342`, `negentropy.go` |
| Router | a list of routes | pick the relay of an event or a filter | `router.go` |
| Filters and counting | the policies of each relay | overwrite, skip, judge, query, listen, COUNT | `responding.go`, `negentropy.go:19`, `policies/` |
| Rate limiter | a concurrent map of atomic counters | ask, drain | `policies/helpers.go`, `policies/ratelimits.go` |
| Blossom | index of owners (events of kind 24242) and blob storage | upload, mirror, delete; get, has, list, report | `blossom/` |
| NIP-11, NIP-86, HTTP | none, or the user's | one call each | `nip11.go`, `nip86.go`, `get-started.go` |

**How they interact.** The reader of a connection starts a goroutine for every message, so
messages of one client are handled in any order, and those of all clients at once. A REQ queries
the stores and then adds listeners; an EVENT runs through deletion, policies, stores and the heap,
and is then sent to the listeners. With a router, the specs and the mutex are the top relay's, and
the listeners are in the relay the filter is routed to. The expiration manager shares the stores
with the pipeline and nothing protects the two from each other but the mutex of the heap. The stores
are functions that answer with a channel; each call is atomic, a sequence of calls is not.

**What is hard.** Sequences of removals over a two-way index; a slice read without its lock; a
decision that rests on a query another goroutine outdates; several calls of which one fails; a
counter of answers over goroutines; timers that delete by name; an hourly goroutine that meets saves,
deletions and restarts; a peer that stops reading while others write to it under a mutex; two ways to
end a connection, and a shutdown, at once; a filter that goes to the store changed and to the listeners
as it was. The `hazards` of `PROJECT.json` list them at their lines.

**What makes each part correct.** The registry: it is a table of subscriptions, whatever moves in it.
Broadcast: everybody who was there and wants the event gets it once, nobody who left does. Pipeline: nothing
acknowledged is lost, what is deleted goes, one version of an address is left, no event is sent twice.
Expiration: what should expire is known and goes. Connection: EOSE comes, after all stored events; a
broadcast that begins after it misses nobody, one that begins after a CLOSE tells nobody of that id, where
the unlocked walk allows it. Session: every write ends, and nothing stays of a connection that ended.
Authentication: who waits is woken, and who is woken reads a key. Filters: the store is asked what the
policies allow, the client gets what it asked for. Negentropy: no session is kept for ever, none is lost
early, but in the ways the properties name. Rate limiter: bounded overshoot, and nobody is limited for good.
Blossom: who was told its blob is stored has it.

## 2. The modules

| Module | Models | State | Actions |
|---|---|---|---|
| `SubscriptionTable` | the abstract table of subscriptions | members, a table, a removal under way | what a client asks for |
| `ListenerRegistry` | `listener.go` | `registered` + `clients` = `rl.clients`, `listeners` of each relay, `op` = the removal that holds the mutex | `Connect`, `AddListener`, `RemoveListenerId{Begin,Step,End}`, `RemoveClient{Begin,Step,End}`, `Shutdown` |
| `Broadcast` | the slice under it, and `notifyListeners` | `mem` = backing arrays, `arr`,`len` = the header, `walk` = the loop | appends, both halves of a removal, and the loads of the loop one word or cell at a time |
| `EventPipeline` | EVENT, `AddEvent`, deletion, replacement | `stored`, `run` = where each handler is | one action for each store call and what leads to it |
| `Expiration` | `expiration.go` with the saves and deletions around it | `stored` per store, `heap`, `sweep` = the goroutine, `tracking`/`untracking` = handlers between a store call and the heap | `Save`, `TrackEvent`, `DeleteRequest`, `RemoveEvent`, `Scan`, `Pop`, `Query`, `Delete`, `Tick`, `Restart` |
| `Connection` | REQ, CLOSE, AUTH and the end of a connection, with broadcasts under way | `run` and `eose` (the WaitGroup) per REQ, `streams`, `listeners`, `closing`, `authed`; of each event whether its broadcast goes on (`walking`), whom it can `reach`, what `crossed` it | one per step between two calls that others can see; a broadcast is `BroadcastEvent`, `NotifyListener` for each write, `BroadcastEnd` |
| `ClientView` | what the client of a connection may count on | the `phase` of each REQ, what it is `owed` and `got`; the publications under way | `Ask`, `Answer`, `Fail`, `Finish`, `Refuse`, `Unsubscribe`, `Leave`, `Login`, `Save`, `Publish`, `Tell`, `Published`, `Cross` |
| `Session` | one websocket from upgrade to end | `at` = every goroutine, `open`, `mutex`, `deadline`, `due`, `registered`, `listening`; `peer` = the client | `Register`, `Connect`, `Message`, `HandleMessage`, `NotifyListeners`, `Lock`, `Written`, `PingWritten`, `Select`, `ReadError`, the three parts of `kill`, `Shutdown`, `Pong`, `Tick` |
| `Authentication` | the `Authed` channel and `AuthedPublicKey` | `Authed`, `closed`, the two words of the key, `at` | `RequestAuth`, `SendChallenge`, `Look`, `Wake`, `GetAuthed`, `LoadWord`, `Auth`, `StoreWord`, `CloseAuthed` |
| `Policies` | the policies for filters, and some for events, as operators | none | none |
| `FilterFlow` | router and relays: filters of REQ, NEG-OPEN and COUNT, events | `config` = routes and policies, `stored` and `listeners` of each relay, `pending` = the rest of a REQ, `answered` = a filter that was queried and has no listener yet | `Req`, `SkipQuery`, `Reject`, `Query`, `AddListener`, `NegOpen`, `Count`, `Auth`, `Event` |
| `Negentropy` | the sessions of one id | `session` = the map entry, `timer`, `run` | `Open`, `OpenReconcile`, `StartTimer`, `StoreSession`, `Message`, `Reconcile`, `PostponeClose`, `DeleteSession`, `Close`, `Expire`, `Tick` |
| `RateLimiter` | `startRateLimitSystem` | `negativeBuckets`, `count`, `call`, `drain` | `LoadOrStore` (by `Ask`), `Load`, `Add`, `Wake`, `Drain`, `Delete` |
| `Blossom` | uploads, mirrors and deletions of one blob | `claims` = the index, `blob`, `run` | one for each call of the index or the storage |

`MC<Module>` gives the constants of a run; `<Module>Proofs` holds proofs. `ListenerRegistryProofs` also has
the proof that the registry implements the table, and those of `Broadcast`; `ConnectionProofs` those of
`Connection`, with the proof that it implements `ClientView`, and `Session`; `PoliciesProofs` those of
`RateLimiter`, `Policies` and `FilterFlow`. The modules of each pair are extended together, so `Broadcast`,
`Session` and `FilterFlow` have names of their own for their specifications: `BroadcastInit`, `SliceOK`,
`SessionInit`, `SessionOK`, `FilterInit`, `FiltersOK`, ... Variables that are not the program's (what was
seen, acknowledged, blamed, ...) are named as such where they are declared; they are never read by a guard.
Definitions that begin with "Mutant:" are slips of the code the runs are tried against: each property is
violated when the one meant for it takes the place of the real one.

Choices that matter:

* *Grain.* A step ends where another goroutine can see or change something. Under a mutex whole
  operations could be steps; the removals of the registry still take one step per iteration, because
  the broadcast reads between them.
* *Broadcast* models the unsynchronised read as Go builds it: two loads of the header, which may be
  of different times, and copies of a cell of which words may be of different listeners. A length
  from a grown array over a pointer to the old one reads beyond it (`Overrun`); the model stops there.
* *EventPipeline* has valid events only: the checks of id, signature and NIP-70 come before any
  state. A failing query looks to the code like an empty one. The look-up for deletions is translated
  with its tag names as they are (`"#e"`, `"#a"`), which is why it finds nothing. The hook
  `OverwriteDeletionOutcome` is the constant `Outcomes`: of the pairs it decides it can grant a deletion
  and deny one, whoever the author is.
* *Connection* takes the registry for what it is proved to be, a set of listeners, and a broadcast for what
  `Broadcast` shows of the walk without the mutex: it goes on while the handlers of this client and of
  others add and remove listeners. What it can come to was registered when it began or since (`reach`), so
  it may write to a listener whose CLOSE was handled meanwhile. Additions alone, or removals alone, let it
  miss nobody who stays; once both met it (`crossed`), or the array grew between the two loads of its header
  (`Overrun`), it may end having missed anybody, and with a removal it may write a copy of mixed fields
  (`Torn`), of which nobody knows whom it is sent to. `OthersWrite` stands for the listeners of all other
  clients.
* *ClientView* is a relay without goroutines, counters, contexts and listeners. A REQ is asked and then live
  or refused; it is answered from the store an event at a time. A publication begins, tells one after the
  other, and ends; then all have heard who were live when it began and did not close, and nobody of an id
  that was quiet when it began. `Missing` and `Garbled` name the publications that subscriptions coming and
  going meanwhile excuse from the one and the other, and nothing else does. The mapping takes `phase` from
  where the handler is and `owed` from what was stored when it started and the filters recall. While a REQ
  is asked the client may hear an event or not, as some of its filters are listened to by then; a REQ that
  was refused goes on to be told through those it had before the rejected one, as in the code; and a CLOSE
  excuses any of the REQs of its id, since which of them had a listener to be taken away is up to the order
  of the handlers.
* *Negentropy* starts the timer of a new session and puts it in the map in two steps, as `handlers.go:382`
  and `384` do. Handlers are under no fairness, so the timer may go off in between; it then deletes nothing
  and the entry that is stored after has no timer to come. `late` is those sessions, which
  `EveryEntryIsTimed` and `Forgotten` except. The module has ticks for time; a timer takes `Wait` ticks (7
  s) and then goes off at any later moment. What two handlers that reconcile one session at once do to it is
  one of the same three outcomes.
* *Blossom* has one storage function, and the one blob: blobs share nothing. `SaveEvent` failing is
  not noticed, as in the code. A mirror differs from an upload in where the bytes come from only. A
  short first read of a body makes a handler store a blob that is not the one (`UploadShort`,
  `StoreOther`): who is then answered with success is `garbled`.
* *Session* has a peer that reads, stalls, stalls but sends pongs of its own accord (`pushes`), or is
  gone. A write to a peer that stalls may end (there is room in buffers) or not. Its time is in units of
  `PingPeriod`. What is listened to is not its concern: `listening` is who added a listener.
* *Authentication* stores and loads the two words of a Go string one at a time, in either order, since
  the write and the reads race. All keys have the same length.
* *Policies* and *FilterFlow*: a filter has kinds, authors, a function from tag names to values, a
  search or not, a limit of zero or not. That the map of the tags is shared between the filter that is
  overwritten and the one the listener keeps is `Listened`. A filter is judged and put to
  the store in one step and gets its listener in another, since what is saved and broadcast between the two
  (`responding.go:40` and `handlers.go:316`) is lost to the subscription; the goroutines of a query are in
  `Connection`. An event is one function from tag names to sets of values, and `indexable` is how many
  single-letter tags it has, equal names included, which is what `PreventTooManyIndexableTags` counts.

## 3. The runs

| Run | Instance | What it shows | States, time |
|---|---|---|---|
| `registry` | 2 connections, 2 ids, 1 filter, the top relay (≤3 listeners) and one behind it (≤2) | indexes stay right through every swap deletion (`IndexIsRight`: specs point at their own listeners, nothing is shared or orphaned, the search never fails); it implements `SubscriptionTable` | 129 k, 13 s |
| `broadcast` | 3 listeners over an array of 2, 7 writes, one listener kept from the event by a hook | nothing for who had left before; exact while there are only additions; removals alone, one at a time, miss nobody | 372 k, 9 s |
| `pipeline` | 2 handlers, 8 events of all classes, 3 received, 1 failing call, a hook that grants one deletion and denies another, with and without `ReplaceEvent`, with and without shards | acknowledged is kept; deletions take effect; one notification a save; one version without overlap and faults | 1.29 M, 50 s |
| `pipeline_deleted` | the same | **violation**: an event that was deleted by id is stored again | |
| `expiration` | 2 versions of an event, 2 stores, a clock to 2, 2 saves, 1 deletion, 1 failing call, 1 restart | every event of the first store is tracked or in hand; what expired goes | 214 k, 35 s |
| `connection` | 2 REQs of 2 and 1 filters, 2 query functions, 1 event saved and broadcast at any time, 1 failing query, 1 CLOSE, listeners of others added and removed | stored before EOSE; a broadcast that begins after it misses nobody unless additions and removals both meet it; every REQ ends; it implements `ClientView`, so a closed id hears nothing that is published later and what is for members goes to members | 353 k, 160 s |
| `session` | 2 goroutines that write, a read deadline of 2 ping periods, a shutdown | every write ends; nothing stays of a connection that ended | 105 k, 70 s |
| `authentication` | 3 goroutines, 2 AUTH messages with different keys | no waiter is left, no channel closed twice; who was woken reads a whole key | 79 k, 7 s |
| `filters` | 4 set-ups (alone or router, 1–3 relays, 10 policies), 10 filters, 5 REQs of two of them, 5 events, 2 messages | queries keep to the policies; what is sent was asked for; what is accepted is found, sent and counted, unless it is stored between a query and its listener | 551 k, 115 s |
| `negentropy` | 2 handlers, 3 sessions, 4 messages, timers of 2 ticks | every entry has a timer and every session is forgotten, but for one whose timer went off before it was stored; who goes on in time is told CLOSED in the named cases only | 281 k, 46 s |
| `ratelimit` | 3 callers, 1 key, 4 counters, limit 2, 1 token an interval | overshoot < callers; a bound on what passes between two visits; limited is not for good | 364 k, 32 s |
| `blossom` | 2 owners, 3 handlers, 2 seconds, 5 requests, 1 failing call, bodies read short | acknowledged is stored; index and storage agree at rest; one claim an owner | 422 k, 23 s |

**Why the bounds are enough.** Each is large enough for the case a property is about to happen, which the
mutants show: every property is violated under its own run when one definition is changed as a slip would.
*Registry*: a swap moves a listener of the same connection, of another one, in the same relay or the other
(three places in one of them). *Broadcast*: the array starts full with two and doubles once; three listeners
are needed for one to be removed, one to be moved and one to be met. *Pipeline*: two versions and a
deletion, or three versions of one address, received by two handlers. *Expiration*: a save, a deletion and a
second save of one event across a sweep; a newer version that expires later. *Connection*: a filter that is
rejected after one that was not, another subscription, and one broadcast, that begins and ends anywhere and
is met by any additions and removals. *Rate limiter*: three callers hold three counters that are no longer
in the map. *Blossom*: two uploads by one owner and two deletions, or a deletion and uploads of both.
*Session*: one goroutine held up in a write while another waits for the mutex, with the pinger behind them;
a `PongWait` of two periods as by default. *Authentication*: a waiter, one who asks anew after the first
AUTH, and a reader across the second. *Filters*: two messages, and REQs of two filters, so that a filter can
be judged, an event published and another filter judged with a key, and one REQ be rejected at its second
filter; each policy meets a filter it changes or rejects and one it does not, and some filter is acceptable
as it came and not as overwritten.

Excuses are part of the properties where the code gives no more: `OneVersion` excepts overlapping handlers
and faults, `NothingForgotten` what a failed call or a removal that crossed a save left untracked
(`blamed`), `AckedIsStored` an upload that met a deletion, a claim that was not saved or bytes that were
read short, `DeletionTakesEffect` an event that comes back while the request is handled,
`NothingMissedAfterEose` (and `ClientView`, as `Missing`) a broadcast that both additions and removals meet
or that reads past the array, `ClientView` as `Garbled` the copies that mix two listeners,
`EveryEntryIsTimed` and `Forgotten` a timer that goes off before its session is stored, `GoesOn` an id
opened again too early and the time between the first answer and the map, `OneSidedIsExact` additions and
removals together, `WritesEnd` a client that sends pongs without reading, `GoneIsForgotten` a shutdown that
came before the connection was registered, `ReadKeysAreWhole` who reads while the first key is written,
`SentIsAsked` filters that lose tags, `AcceptedIsFound` events that are stored between a query and its
listener, events routed elsewhere than the filter, counts without a function for the filter, and stored
events a changed filter does not ask for. In each the excuse is needed: without it TLC finds the violation,
and `findings` and `hazards` say at which line. Eight hazards have no property, as what they say goes wrong
simply does: the models have the steps, and a note says so.

**Symmetry** is used for values no property tells apart, and in no run with a liveness property.
**Deadlock** is checked in `registry`, `expiration` and `ratelimit`. The other runs stop when their bounds
are used up, which is no fault of the code.

**Fairness.** `Connection`: the goroutines of a REQ run on (`WF` of its steps); clients, events and CLOSE
messages are under no fairness. `Expiration`: the goroutine of the manager runs on (`WF`), and a handler
that waits for the mutex of the heap gets it (`SF`, since the manager takes it again and again; Go's mutex
hands over to who waits longer than a millisecond). `RateLimiter`: the draining goroutine runs on; callers
need not. `Negentropy`: time passes and the runtime calls the functions of timers; handlers need not go on.
`Session`: goroutines run on, a write the peer does not hold up ends, who waits for the mutex gets it (`SF`,
as above), time passes. Nothing is assumed of clients, or of when a failing call fails.

## 4. The proofs

Everything below is proved for all values of the constants, under the assumptions the modules name where
they declare the constants. They say that numbers are numbers, that nil is none of the values, and:
`CallersAssumption`, `HandlersAssumption` (goroutines are finitely many), `OlderAssumption` (no event is an
older version of itself), `IdAssumption` and `DateAssumption` (ids and dates can be compared),
`OutcomesAssumption` (the hook of deletions answers yes or no), `TagsAssumption` (tags are a sequence, and
no event names its own id, which is a hash of its tags), `FiltersAssumption` (in `Connection`: a REQ has a
sequence of filters; in `FilterFlow`: a filter has finitely many kinds and tags), `ReqsAssumption` (as the
first), `ConfigsAssumption` (the functions of a relay for filters are those of the package `policies`: of
what others do nothing is known), `BoundsAssumption` (a relay has at least one query function: what is
stored is what those find, and a relay without one would send an EOSE after nothing), `CapAssumption` (an
array has a place; the code's has 100), `PongWaitAssumption` (the read deadline is longer than a ping
period, as the code asks).

* **`ListenerRegistryProofs`**: the invariants `TypesHold`, `SpecsAlwaysPointHome`,
  `ListenersAreNeverShared`, `ListenersNeverOrphaned`, `MovedSpecAlwaysFound`, together
  `IndexIsAlwaysRight`, from the invariant `IInv` (`IndexStaysRight`). None of the four is inductive
  alone: that a spec points at its own listener survives a swap only if no other spec points at the
  place that is dropped (no sharing) and if the moved listener has a spec to be corrected (no orphan).
  `IInv` states the one-to-one correspondence (`Home`, `Apart`, `OwnedIn`) of places and *live* specs,
  where a disconnection that is under way has only those before it left to do, plus the bounds of that
  loop. Both removals come down to one lemma on `Drop`, which says that taking one place out and
  correcting one index keeps the correspondence.
* **`ListenerRegistryProofs`, the table**: `RegistryImplementsTable`. The table of the mapping is, for each
  connection, the row of entries its live specs resolve to. A swap deletion takes one entry out of one
  row and leaves the others as they are (`HoleIsCut`), because the correction of the moved spec's index
  makes it resolve to what it did before. Each step is a step of `SubscriptionTable` or a stutter. `IInv` is
  not enough for the end of a CLOSE, which in the table needs the id to be gone: `ClosedAbove`
  (`ClosedStayClosed`) adds that no spec above the place the loop is at has it.
* **`ListenerRegistryProofs`, the broadcast**: `SliceStaysWellFormed`, `NothingIsForTheGone`,
  `OneSidedStaysExact`, from `BroadcastInv` (`BroadcastKeepsItsReach`). The walk goes by an array and a
  length that were loaded at two times and may both be outdated. What it can still read was registered at or
  after its call (`SeenOK`): the slots below its length were live when the length was loaded, an array that
  has been replaced was full at that moment and is written no more (`ArraysOK`), and only listeners that are
  registered are ever moved into a slot (`SlotsOK`). For exactness, while there are additions only the slots
  below its length are the same in whichever array (`WholeOK`), so nobody is met twice or torn; and who
  stays is sent the event or is ahead (`StayedOK`, `Ahead`), since with removals alone the slot a listener
  is moved from keeps it.
* **`ConnectionProofs`**: `TypesHold`, `StoredIsBeforeEose`, and the action properties `NothingIsMissed` and
  `ClosedIsQuiet`, from `IInv` (`AnswersStayCounted`) and `WalkInv` (`WalksGoWell`). That EOSE comes after
  all that was stored is about the `WaitGroup`: `CountOK` says it is what the handler has counted in advance
  and not asked yet (`Undone`) plus the answers that are being written (the cardinality of `Open`), so when
  it is zero at the end of the handler nothing is being written. `AnsweredOK` says where each event that was
  stored before the REQ is: sent, or in an answer that is still open, unless a query failed or the REQ was
  cancelled. `ListenOK` and `QuietOK` do the same for what is listened to, and `GoneOK` for a client that is
  gone. `WalkInv` carries that over to the broadcasts under way: who is to be told of an event
  (`AudienceOK`) had all its listeners there when the walk began, and has them still unless it closed
  (`ListenOK`); whom a walk can reach (`ReachOK`) is of no id that was quiet when it began and is still.
  `NoReqIsStuck` is the safety half of `EveryReqEnds`: what holds back an EOSE is an answer that is still
  being written, and nothing else.
* **`ConnectionProofs`, the view**: `ConnectionImplementsClientView`. Init and every step of a handler, of a
  CLOSE, of a broadcast and so on maps to a step of `ClientView` or to one nobody sees. The guards of those
  steps are what has to be shown: that nothing is owed any more at an EOSE follows from `CountOK` and
  `AnsweredOK`, that a broadcast has reached its audience when it ends from `AudienceOK`, that it reaches
  nobody of an id that was quiet before from `ReachOK`. Who may get what needs the invariant `ViewInv`
  (`OnlyWhoMayGets`) on top of `IInv`: a filter for members is judged once, before its queries, but answered
  and listened to later, so the invariant carries the judgment along with the place of the handler
  (`JudgedOK`), the open answers (`ReadOK`) and the listeners and what broadcasts can reach (`HearOK`,
  `ReachOK`), which is sound since a key is never taken back.
* **`ConnectionProofs`, the websocket**: `OneAtATimeWrites` and `NothingStaysBehind`, from `SessionInv`
  (`EndsStayClean`). The second is what `GoneIsForgotten` says of the end, without that it comes: when one
  of the two goroutines of a connection is through with `kill`, the connection is closed, not registered and
  without listeners, and a handler that is late does not change that. It needs that an unregistered
  connection has no listeners (`LeftOK`) and that it is registered before any goroutine that could end it
  starts.
* **`EventPipelineProofs`**: `TypesHold`, `NothingIsLost`, `DeletionsTakeEffect`, `OneVersionAtATime`
  from one `IInv` (`PipelineStaysRight`). Losing nothing is about what a handler is about to do:
  `AimOK` says that what it aims at was asked for, or is older than its event, and `ThroughOK` that an
  event that went through was stored or has a newer one, which stays so while other handlers delete
  (`ExcusesStay`). For deletions `SweptOK` speaks of the tags done so far. For versions `Single` says that
  as long as there was no race each address has one handler, and `Cleared` what that handler knows of the
  store between its query and its save. `SentNoMoreThanSaved` counts the handlers that have saved and not
  sent yet, as `OvershootIsBounded` counts callers.
* **`ExpirationProofs`**: `TypesHold` and `NothingIsForgotten`, from `IInv` (`EventsStayAccounted`). That
  each event of the first store is accounted for holds after the scan only, so the invariant says when the
  scan has covered the first store (`ScanCovers`) and that nothing is checked before (`ScannedFirst`);
  that an event a request took out and that is there again came back by a save that is on record
  (`RemovalsCrossed`); and why the goroutine may drop the event in its hand once it is past the first
  store (`InHandLater`).
* **`BlossomProofs`**: `TypesHold`, `AckedIsAlwaysStored`, `IndexAlwaysMatches`, from `IInv`
  (`ClaimsStayRight`): as long as no upload has met a deletion (`Stays`), an upload stores with its claim
  in the index, who was answered has both, and a deletion deletes what nobody claims; index and storage
  differ only inside a handler (`Agreeing`); and an owner has a second claim only after two uploads of it
  that overlapped (`Singles`).
* **`AuthenticationProofs`**: `TypesHold`, `WaitersAreAlwaysWoken`, `KeysAreAlwaysWhole`, from `IInv`
  (`NothingIsLost`). Every channel that was made is closed or in the field (`NoneLost`), so a waiter's is;
  a channel is closed only after a whole key was stored, and as all keys are of one length a key that is
  whole stays so (`KeysStay`), also for who is between the two loads (`ReadersAreSafe`).
* **`PoliciesProofs`, the rate limiter**: `TypesHold`, `OvershootIsBounded` and `BurstIsBounded`. For the
  second, `IInv` (`CountsStayRight`): that a counter stays within `MaxTokens - 1 + |Callers|` is not
  inductive, since a caller that has read it may add when it is at the bound. `Counted` adds the callers
  that have read but not added yet to the count, and the lemmas say how that set changes with each step. For
  the third, `BurstsPaid` (`BurstsArePaid`) accounts for counters that left the map: a burst is charged to
  the counter in the map and at most one other that a caller still holds, and callers who hold yet another
  count as if they had passed (`Slow`), since each of them passes once. They are never all callers: whoever
  made the counter in the map took it up (`OneKnows`).
* **`PoliciesProofs`, the filters**: `OverwritingNarrows` is about any sequence of overwriting policies and
  any filter: the result asks for nothing the filter did not, but for tags that were removed, and obeys
  every one of the policies, whatever came after it. It is an induction over the sequence. The library's
  theorems for that take an operator, which the provers cannot instantiate; `LeastNumber` and `InductiveSet`
  get it from the well-foundedness of `<`, with a set in place of the operator. On it rest
  `StoresHaveWhatIsTheirs`, `QueriesKeepToPolicies`, `NothingElseIsSent` and `AllThatIsAcceptedIsFound`,
  from the invariant `FilterInv`: `SentIsAsked` and `AcceptedIsFound` are not inductive, since what is sent
  for a listener later depends on what was put to the store for it (`ListenersOK`; `AnswersOK` for what has
  no listener yet), and what the queries keep to depends on which relay overwrote and judged them
  (`QueriesOK`).
* **`NegentropyProofs`**: `TypesHold`, `EntriesAreTimed` and `ClientGoesOn`. The type invariant is inductive
  because it includes that a session about to be stored belongs to one handler and is not in the map;
  `EntriesAreTimed` needs that a session that is about to be stored has its timer running or had it go off
  (`StoringIsTimed`): then the entry has a timer or is `late`, the timer starts again at every postponement,
  and empties the map when it goes off. `ClientGoesOn` rests on `Alive` (`LastStaysCurrent`): if nothing
  else of the id is in use (`OneInUse`), what empties the map is a handler of the session, which has ended
  it then, or its timer, which is not ahead of the time since the last answer unless a handler that will
  start it again has the session in hand (`ClockBehind`). So the session answered last is in the map or
  about to be (`LastIsCurrent`).

**Only model-checked**: liveness (`EveryReqEnds`, `ExpiredGoes`, `LimitedIsNotForGood`, `Forgotten`,
`WritesEnd`, `GoneIsForgotten`), which is out of the prover's reach (the safety halves of `EveryReqEnds` and
`GoneIsForgotten` are proved, as `NoReqIsStuck` and `NothingStaysBehind`). `pipeline_deleted` shows a violation.
Every other property a run checks is stated by a theorem.

## 5. What is not modelled

* NIP-86: a request is decoded, authorized and given to one hook, with no state of the relay's. NIP-11:
  one document made from the configuration. HTTP start, CORS and the base URL: wiring.
* Policies that look at the content, the length of values, timestamps or the tag of NIP-70: one
  comparison of one event each. The redirect of blossom, which puts a text together, and downloads, lists
  and reports, which change nothing. The registers of HyperLogLog.
* Expired events of a second store (`expiration.go:123`): in `Expiration` they may stay for good, and
  its properties are about the first store.
* Stores, the websocket library and go-nostr: external, modelled by how khatru calls them. A store that
  blocks for ever, or a goroutine of a query left behind by who takes one event, is theirs.

## 6. The plan

Done, in this order: the registry with its table and proofs, the broadcast over it, the pipeline with
deletion, expiration, REQ/CLOSE/AUTH, the rate limiter with proofs, blossom, negentropy with proofs; then
the `Authed` channel, the life of a websocket, the router with the policies and counting, the bytes of an
upload, and the proofs of authentication, blossom, expiration, the pipeline and the refinement; then those
of the connection, its websocket, the broadcast, the bursts of the rate limiter and the client of a
negentropy session; then those of the policies and the filters, and the view of the client that `Connection`
implements.

To come:

1. Two stores in `EventPipeline`, for partial failure between `StoreEvent` functions.
2. An abstract store of events (the latest version of each address, less what was deleted) that the
   pipeline implements when handlers do not overlap, and the proof that it does.
