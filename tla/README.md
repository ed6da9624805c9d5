# A formal model of webhook-multiplexer

`hmux` receives a webhook on one loopback port and fans it out to every target
that is registered for its route. Targets are held by leases that a client
renews; the sender gets one aggregate answer. This directory holds TLA+ modules
of that program, the TLC runs that check them on small instances, and TLAPS
proofs of all their safety properties for instances of every size. Paths below
are relative to the repository; comments in the modules use the same form.

## The system

| Component | State | Operations | Source |
| --- | --- | --- | --- |
| Domain types | none | parse, normalise, match, `accepts` | `src/domain.rs`, `src/protocol.rs` |
| Lease registry | `RwLock<HashMap<LeaseId, Lease>>` | `create`, `renew`, `remove`, `matching`, `list` | `src/registry.rs` |
| Ingress fan-out | two semaphores; one handler per request; one spawned task per delivery | `forward`, `dispatch_all`, `aggregate_response` | `src/ingress.rs` |
| Control API | bearer token, cancellation token | lease endpoints, `status`, `shutdown` | `src/control.rs` |
| Registration client | current lease, backoff | register, renew, reconnect, remove | `src/registration.rs` |
| Server lifecycle | cancellation token, two HTTP tasks | `serve`: start, run, drain, exit | `src/server.rs` |
| Runtime state | `instance.lock`, `control.json`, temporary files | lock, publish, read, remove | `src/runtime.rs` |
| Command line | none | `serve`, `register`, `list`, `unregister`, `stop`, `status` | `src/cli.rs` |

Handlers of the control API and of the ingress call the registry concurrently.
The ingress takes a snapshot of the matching targets, reads the body, and only
then spawns the deliveries. `serve` publishes a descriptor through which the
other commands find its control port. `stop` talks to the control API and then
watches the descriptor.

What is hard here: instants that are read before a lock is awaited and used
under it; futures that are dropped at any await while they own a permit;
timeouts that race a permit or a reply; processes that crash and restart on the
same directory; commands that take a file for the state of a process. `hazards`
in `PROJECT.json` lists them at their lines.

What makes each component correct:

- registry: the map respects `max_targets`, no live lease is lost, no dead one
  returns, a lifetime never exceeds the TTL, a refusal is justified;
- ingress: the semaphores never drift, an answer tells what happened, nothing is
  sent behind a finished answer, every dispatch ends;
- lifecycle and runtime: one published server per instance, its descriptor is
  never somebody else's, nothing stays behind after a clean exit, shutdown ends
  unless a client never completes its request;
- registration client: a held lease neither expires nor is taken away, a client
  that is wanted holds a live lease again after every restart and starts over
  whatever it is told, a lease nobody keeps expires, a signalled client ends;
- forwarding: the query decodes to the same, the host that was routed is the host
  that is preserved;
- commands: the exit code of `serve` tells why it ended, and a server that `stop`
  has seen the end of answers no `status` any more.

## The modules

**Domain** gives the value types that decisions depend on. A text is a word and
a letter case, which is all that `sanitize(uppercase)`, `eq_ignore_ascii_case`
and byte comparison look at. A target URL is the kind of its host and whether
it is loopback. `Accepts` is `ResponsePolicy::accepts`.

**Registry** models `src/registry.rs`. All operations but `remove` read
`Instant::now()` and then await the lock, so `Call` stores the snapshot in
`now` and the critical section is a second action (`CreateFull`,
`CreateGranted`, `RenewMissing`, `RenewFound`, `Remove`, `Matching`, `List`).
The critical sections contain no await and are atomic. `Cancel` drops a handler
that waits, as hyper does when the peer goes away. `Tick` is the clock.
`issued` remembers drawn UUIDs, because v4 UUIDs do not repeat. Waiting calls
get the lock in any order: the lock is first-in first-out, but a thread may be
preempted between reading the clock and queueing.

**Ingress** models `forward` and `dispatch_all`. A request goes `new`,
`matching`, `reading`, `joining`, `answered`, with the early answers on the
way; `Disconnect` drops the handler at any await. A delivery is a task of its
own: `queued` for a permit, `sending`, then its outcome, or `aborted` when the
JoinSet of a dropped handler reaches it. `EndDelivery` gives the permit back on
every way out that held one. A panic of a delivery counts as `failed`, because
`dispatch_all` only logs the difference. Time is abstracted to the order of
events. The one timing fact that matters is kept: tokio's `timeout` polls its
future before its timer, so a delivery times out in the queue only when there
is no permit to take. The registry appears as an arbitrary answer of
`matching` here and as itself in Multiplexer; what a delivery sends is in
Forwarding.

**FanOut** is an abstract specification of the ingress, with no counterpart in
the code: a webhook is declined, or handed to a set of targets chosen once, to
each at most once, and answered by the policy when the last is through.
**IngressRefinement** gives the mapping under which Ingress implements it. A
webhook is `fanning` while its handler joins; the targets it is handed to are
those that a task was spawned for; a task that timed out or was aborted has
failed.

**Multiplexer** composes Ingress with Registry over one clock. `Arrive` admits a
webhook and reads the instant that `matching` will use, without an await in
between; `Matched` is the critical section of `matching` together with what the
handler does with its result; `Drop` cancels both. Handlers of the control server
create, renew and remove next to them. Two history variables say which leases a
webhook must reach (`due`) and which it must not (`unknown`). A lease stops being
due when it is removed, when it expires, and when a renew that waited for the lock
longer than a TTL, and was overtaken by a later one, stores an expiry that has
already passed (`Renewal`).

**Forwarding** models what a target receives: `validate_target_url` and
`with_query` of `src/domain.rs`; `effective_host`, `connection_header_names`,
`forwarded_headers` and `deliver` of `src/ingress.rs`. A Connection line is the
set of names it lists and whether `to_str` can read it. A query is a sequence of
characters, each with the number of times it is percent-encoded (`%2541` is an A
that is encoded twice); `Encode` does what the `url` crate does to the query of an
http URL, and `Decoded` takes one encoding off, as a target does.

**Lifecycle** models `serve` processes that share an instance directory, with
the `stop` commands. The kernel releases a lock with its process; descriptor and
temporary file survive a crash. On `unix`, rename replaces; on `other`, the old
descriptor is removed first. Each process has its two HTTP tasks and at most one
webhook in flight, which is `reading` as long as its sender likes and
`delivering` for a bounded time. It may also have a control request in flight
(`pending`), for as long as its client likes: `create_lease` awaits a JSON body
without a limit of time. `with_graceful_shutdown` waits for both
(`IngressFinishes`, `ControlFinishes`). The requests of `stop` and `status` are
steps of their own: `hmux` completes them at once and drops them after
`CONTROL_REQUEST_TIMEOUT`. `RemoveDescriptor` removes whatever file is
there, as the code does: that it is always the process's own is a theorem and
not an assumption.

**Commands** adds to the steps of Lifecycle what the commands tell their caller.
`serve`: which arm its select took, which tasks `finish_task` still found
running, and the result it returns. `status`: `read_descriptor`, the status
request and the list request, each of which may fail. Every step is a step of
Lifecycle or leaves its variables alone.

**Registration** models the loop of `src/registration.rs` against the control
server. Time is relative: leases and timers count down, `Tick` takes one unit
off each, and a client whose timer is up acts before the next tick. A request
runs at the server at any moment before its client stops waiting (`Execute`).
When the client gives up, is signalled or is killed, a request that has not run
may become a stray, which the server may still run or lose (`RunStray`,
`LoseStray`); so does the detached remove after a failed renewal. `reach` says
that the client's address and token are those of the running server: after a
restart every request of an old `ControlClient` fails, because nobody listens or
because the token is unknown. The descriptor of a server of another protocol
version, or a damaged one, is `unusable`: `ControlClient::connect` fails as it does
without a file, and the client backs off. `Stop` covers a graceful stop and a crash, which
differ in the descriptor they leave. The registry here takes one call at a time;
its stale snapshots are the subject of Registry.

The `MC` modules add the values and symmetry sets that the runs need.
Definitions placed before one that they resemble, with the same parameters
(`RetainInclusive` before `Retain`), are plausible mistakes in that code:
`mutants` in `PROJECT.json` names, for each property, one that makes the property
fail.

## The runs

| Run | Instance | Shows |
| --- | --- | --- |
| `registry` | 2 tasks, 3 leases, capacity 2, TTL 2, clock to 4 | capacity, lifetime, identity and refusals survive stale snapshots |
| `ingress` | 2 webhooks, 2 leases, 1 delivery permit | permits balance, answers are true under all policies, Ingress implements FanOut |
| `ingress_liveness` | 3 webhooks, 1 lease, 2 in-flight permits, 1 delivery permit | every dispatch ends |
| `multiplexer` | 1 webhook, 2 control handlers, 1 lease, TTL 2, clock to 3 | an answer that claims every target left none out; nothing is sent to a lease that was gone at the arrival |
| `forwarding` | up to 2 Connection lines of 4 kinds, 4 lists of Host lines, 4 queries, all shapes of URL | the query means the same; the host that was routed is preserved |
| `lifecycle` | 3 servers, 1 stop command, both platforms | descriptors, leftovers and `stop` across crashes and restarts; nothing but an incomplete request holds a shutdown |
| `commands` | 2 servers, 1 stop, 1 status command | exit codes tell why `serve` ended; a stopped server answers no `status` |
| `registration` | 2 clients, 3 leases, TTL 4, timeout 1, delays 1 and 2 | a held lease neither expires nor is taken away |
| `registration_liveness` | 1 client, 2 leases, TTL 4, timeout 1 | orphans expire, clients register again, refused ones start over for ever, signalled ones end |
| `ingress_always`, `registration_margin`, `commands_exit_code` | smallest that show it | where a document, a comment or a test and the code disagree |

Why the bounds are enough to be interesting.

- Registry: three identifiers over capacity two let a full map be refused, pruned
  and refilled, and a clock of twice the TTL lets a lease be renewed, expire and
  be revived while a second call holds an older snapshot.
- Ingress: with two webhooks and one permit, a delivery waits for its own sibling
  and for another webhook's, including one whose sender has left; the capacity
  refusal happens in the liveness run.
- Multiplexer: two handlers let a renew be overtaken by another, and one prune
  while the other waits, between the arrival of a webhook and its match; a clock
  of one more than the TTL lets a lease expire and be renewed meanwhile. One
  lease suffices, because leases meet only in `retain`, in the capacity, which is
  one here, and in the semaphores, which are the subject of `ingress`. With one
  lease the run sees, of `AllMeansEveryRegistered`, the answer that found no
  target while a lease was registered, and not the one that left out one target
  of several: that half is the theorem's (`AllReachesEveryRegistered`), which,
  like the others, covers any number of each.
- Forwarding: the lists of Host lines are none, one, an unreadable one and two
  different ones, with and without an absolute request target; the queries have
  characters that are raw, encoded and encoded twice, with the apostrophe that
  `set_query` encodes among each.
- Lifecycle: three processes give a crash, a restart over the stale files, and a
  start that meets a held lock, around a stop that may wait for one server and
  see the files of another. The theorems cover any number of both.
- Commands: two servers let a status command read the descriptor of one that has
  been replaced when it asks.
- Registration: TTL 4, timeout 1 and a renewal after 1 is the smallest instance
  in which the margin `TTL > TTL \div 3 + 2 * timeout` holds. Three identifiers
  let two clients hold one each beside an orphan or a stray. Identifiers that
  nothing mentions are drawn again, so the run has no end and needs no bound on
  restarts; a delay that reaches `MaxDelay` shows the cap of the backoff.

Webhooks, servers, stop and status commands are used once, so those runs end and
do not check deadlock; `registry` and `registration` do, where callers, or
servers that restart, can always go on.

The type invariant of each module is part of its safety run.

### Fairness

- `Ingress!Fairness`: an expired timer wakes its task, which then takes a permit
  or times out; `join_next` returns finished tasks; the handler goes on; aborted
  tasks are dropped. Nothing is assumed of senders, bodies, targets.
- `Lifecycle!FairSpec`, and `Commands!CommandsFairSpec` with it: the runtime
  schedules `serve` and its tasks, and deliveries are answered because
  `target_timeout` bounds them. An HTTP task ends (`IngressFinishes`,
  `ControlFinishes`) when it is cancelled and has no request left; nothing is
  assumed of a sender or a client that does not complete its request, at either
  port, which disables these steps for as long as it likes.
- `Registration!Fairness`: time passes, a client acts when it can, and a request
  nobody waits for is run or lost at last. `select!` polls its branches in random
  order, so a shutdown that is ready again and again is seen at last (strong
  fairness). Of server and network: a client that asks again and again while a
  server runs is at last granted its lease and gets the answer in time (strong
  fairness of `Grant` and `Registered`); without it, a server that answers
  nothing within the timeout would refute `RegisteredAtLast`. Nothing
  is assumed of renewals, of starts and stops, or of signals.

### Where documents and code disagree

Three disagreements have a run, which TLC must find violated:

- `commands_exit_code` (`StoppedExitsClean`): `tests/cli_flow.rs` asserts that a
  stopped server exits with success. Cancellation also ends the tasks that the
  same select watches, and when it takes the arm of a task it reports that the
  task "stopped unexpectedly".
- `registration_margin` (`SurvivesMissedRenewals`): `src/control.rs` says a lease
  survives two missed renewals. The interval starts when the answer arrives, so
  at the shortest TTL that `serve` accepts, three seconds, with answers that take
  the two seconds they may take, a lease expires with none missed. What holds is
  `HeldIsLive`, for a TTL longer than a third of itself and two timeouts.
- `ingress_always` (`AlwaysAttemptsEveryTarget`): `always` is documented to accept
  after every delivery was attempted. A delivery can time out while it waits for
  a permit, and the sender is told 200.

The others are stated at the end of their modules. They are narrower or are
bounded by a property that does hold; none has a run of its own, and adding the
formula to the configuration of the run named here shows the behaviour.

| Formula | Run | The document and the code |
| --- | --- | --- |
| `ExpiredNotRecoverable` | `registry` | `docs/control-protocol.md`: an expired lease is not recoverable. A renew that read the clock before the expiry and got the lock after it revives the lease. What holds is `RenewedWhileLive` |
| `EveryOperationPrunes` | `registry` | `docs/architecture.md`: all five operations prune. Only `create` and `renew` do, as the comment in `src/registry.rs` says |
| `StopWaitsForExit` | `lifecycle` | `README.md`: `stop` waits until the server has exited. It waits for the descriptor, which goes first. What holds is `StopMeansDrained` |
| `ShutdownAlwaysExits` | `lifecycle` | `docs/control-protocol.md`: the server exits. A webhook or a `create_lease` request whose body is never completed prevents it. What holds is `ShutdownCompletes`: nothing else does |
| `CleanShutdownRemovesLease` | `registration_liveness` | `README.md`: a clean shutdown removes the lease immediately. A signal while the create request is under way does not. What holds is `OrphansExpire` |
| `QueryStringPreserved` | `forwarding` | `docs/architecture.md`: the query string is preserved. `Url::set_query` encodes an apostrophe. What holds is `QueryMeansTheSame` |
| `ConnectionNamedAreNotForwarded` | `forwarding` | `README.md`: headers named by `Connection` are not forwarded. A line that is not visible ASCII is skipped as a whole, and the headers it names are forwarded |
| `StatusSeesDrainingServer` | `commands` | `src/cli.rs`: `status` reports whether a server is running. One that drains, its control server gone first, is reported as a stale descriptor |

## The proofs

Every safety property of every passing run is a theorem: the invariants, the
action properties and the refinement. The proofs assume of the constants only
what the named `ASSUME`s say: positive limits and TTL, registrations of the right
type, a finite set of leases for one ingress, an initial backoff that does not
exceed its cap, queries that are sequences of characters, tasks of the two servers
that are different tasks. They cover any number of tasks, webhooks, servers,
clients and commands, and a clock without bound (`MaxClock` is any natural
number). Two of them have a hypothesis of their own, the margin of Registration.

**Registry_proofs.** `RegistryInvariant` adds three facts to type, capacity and
lifetime. Snapshots lie in the past (`SnapshotInPast`): without it a prune could
drop a live lease and a stored expiry could be too late. A waiting call has no
result yet (`PendingUnanswered`), which ties a refusal to the step that made it.
And the map is finite, so that cardinalities add up. Lemmas say what retain,
insert and remove do to a map; `MapSteps` reduces a step to one of five effects
on it, from which the four action properties follow.

**Ingress_proofs.** `Balanced` says that permits and holders add up;
`InflightSteps` and `DeliverySteps` show that a step moves at most one holder
and the counter with it. The rest of `IngressInvariant` says that deliveries
exist only for targets of dispatched webhooks and that only ended ones are
joined: `Spawn` would otherwise overwrite a delivery that holds a permit, and
`Respond` could leave one running. `AggregateInvariant` is what `HonestAggregate`
needs besides: the locals of `dispatch_all` count the joined deliveries
(`SummaryCountsJoined`, by adding one element to a finite set at each join),
every target has a task that nothing aborts while the handler joins
(`DispatchedInFull`), and an answer was computed when all were joined
(`AggregateOfAll`). A delivery that has ended does not change any more
(`DeliveriesSettle`), so what was counted stays true.

**IngressRefinement_proofs.** Ingress implements FanOut. A step of Ingress that
FanOut does not know (admission, the two awaits before the dispatch, a join)
leaves the three mapped variables alone; each other step is one action of FanOut.
`SentWithPermit` is there for it: a delivery is handed over with its permit and
at no other time. That the answer follows the policy is `HonestAggregate`.

**Multiplexer_proofs.** The composition is first shown to be a behaviour of
Registry (`RegistryInTheMultiplexer`) and, because `matching` returns some set of
leases, of Ingress (`IngressInTheMultiplexer`); the theorems about Ingress then
hold of it as they stand. `MultiplexerInvariant` follows a lease through the lock.
Until its targets are chosen, what a webhook must not reach is dead at the
webhook's own instant, and every renew that waits for it read the clock too late
(`GoneStaysGone`): a renew that starts later reads a later instant still. What it
must reach is live now, hence also at the earlier instant that `matching` uses
(`DueIsChosen`), because a prune with an instant of the past spares what is live.
From there `SentWithPermit` and `HonestAggregate` do the rest. The proof attempt
showed that an earlier form of `due` was too strong: with two handlers, a renew
that is overtaken can end the lease of another, which the run with one handler
could not show.

**Registration_proofs.** `HeldIsLive` and `HeldLeaseIsSafe` are proved under
`Margin`, `LeaseTtl > LeaseTtl \div 3 + 2 * RequestTimeout`: with the two seconds
of `CONTROL_REQUEST_TIMEOUT`, a `--lease-ttl` of more than six seconds. Without the
margin the run `registration_margin` shows the lease expire. `HoldingInvariant`
says that a request fits the place its client is in (`CallsFitPlaces`), that the
lease a client mentions is mentioned by no other client and no stray request
(`HeldByOne`), and, under the margin, that what is left of it exceeds the timer by
the time that answers may have taken since it was last renewed (`KeptInTime`).
With T the timeout and R the interval, what is left is at least `TTL - T - R +
timer` while the client holds, `TTL - 2T - R + timer` while a renewal has not run,
`TTL - T + timer` once it has.

**Lifecycle_proofs.** `LifecycleInvariant` ties the places of `serve` to the
lock (`LockIsHeld`), the files to their owners (`FilesHaveOwners`), the drain of
both ports to its order (`DrainedInOrder`), and a waiting stop to a server that had been
published (`StopHasTarget`).

**Commands_proofs.** Every step of Commands is one of Lifecycle or leaves its
variables alone (`StepsOfLifecycle`), so `LifecycleInvariant` holds. On top of it,
a server is cancelled before its drain, or takes the successful arm of its select,
only after somebody asked (`AskedFirst`), and a failure that `finish_task` awaited
is on record once `serve` has gone past that task (`FailuresRecorded`). That a
stopped server answers no `status` follows from the order of the drain.

**Forwarding_proofs.** `ForwardingInvariant` records that only a validated URL is
registered and that the webhook's own host selected the lease. The two properties
follow from it, with what the encoding does to a query of any length
(`EncodeKeepsMeaning`).

The inductive invariants were checked with TLC on the instances above before they
were proved.

Only model-checked: the liveness properties (`DispatchEnds`, `ShutdownCompletes`,
`StopTakesEffect`, `OrphansExpire`, `RegisteredAtLast`, `ShutdownEnds`,
`KeepsAsking`), because the prover has no fairness reasoning; and the
statements that fail.

## Not modelled

- Argument parsing, output and logging; `list`, which is one read of the
  registry.
- The characters that instance names, paths and hosts may contain: the model
  starts from the values that the parsers accept.
- Ownership and permissions of the instance directory, which only add ways to
  fail at the start.
- Headers are in Forwarding, but no property is about them: which ones are kept
  back is a set difference, and what a reader could doubt, the lines that cannot be
  read, is the disagreement above.
- The wire formats of the control API, and what hyper and reqwest do by
  themselves (connection reuse, a default `Accept` header).
- Two renews of one lease that store their expiries in the opposite order of
  their snapshots (`src/registry.rs:72`) are in Registry and in Multiplexer; no
  property is about them alone, because the lease is shortened by no more than the
  wait for the lock and nothing promises more. A webhook that arrives meanwhile may
  miss that lease.

- What the code leaves unbounded, so that no property holds: a lease that goes
  while the body of a webhook is read is still sent it (`src/ingress.rs:98`), and a
  failure of an HTTP task that `finish_task` finds already ended is dropped
  (`src/server.rs:148`). `hazards` says which properties bound them.

## Plan

1. Restate the registry's action properties for the composition, as corollaries of
   `RegistryInTheMultiplexer`.
2. The steps that liveness rests on, as far as they are safety: that a dispatch
   which has not ended always has a delivery to act, or a handler to answer, under
   `IngressInvariant`, and the same for a drain under `LifecycleInvariant`.
3. `Margin` as a necessary condition: that the bound of `KeptInTime` is reached.
