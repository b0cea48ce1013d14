# Verification of Vlerx.Prototype

TLA+ modules, TLC runs and TLAPS proofs for the event-sourcing boilerplate in
`src/` (C#, about 3800 lines, and the validation scripts of its web front end;
the rest of the tree is other static web assets and build output).
`PROJECT.json` maps every definition to the lines it models,
lists the runs, the mutants, the theorems, and the hazards the properties are
for.

To run a model: `tlc -config MCUseCases_safety.cfg MCUseCases`; to check proofs:
`tlapm UseCasesProofs.tla`.

## 1. The system

A command arrives at a web controller and is told to the story broker.  The
use case loads the aggregate from its stream, decides, and appends the events
under the version it loaded.  A catch-up subscription reads the events of all
streams, hands each to the listeners, and stores its position as a checkpoint.
A listener projects the events into documents, which the queries read.

| part | state | operations | talks to |
|---|---|---|---|
| Story broker `Vlerx.Es/StoryBroker` | the use cases, fixed at start | `Tell`, `ContinueWith` | use cases, by call |
| Use cases `Vlerx.Es/UseCases`, `CustomerUseCases` | the story book, fixed at start; a unit of work per call | `LoadTellAndSave`, `TellAndSaveWithoutLoading` | aggregate (pure), repository (await) |
| Customer aggregate, `AggregateState` | a state with a version, cloned by every change | `Register`, `Relocate`, `On`, `ApplySingle`, `Apply` | nothing |
| Repository, unit of work | nothing shared | `Load`, `Track`, `Save` | event storage (await) |
| Event storage `Vlerx.Es.EventStore/EventStorage.cs` | nothing; streams live in an Event Store server | `AppendEvents`, `ReadEvents` | the server, over a connection that reconnects |
| Subscription `Vlerx.Es.EventStore/Subscription` | the position in `$all`; a checkpoint stream in the same server | `Start`, `EventAppeared`, `SubscriptionDropped`, `GetCheckpoint`, `StoreCheckpoint` | the server, the messenger |
| Messenger `Vlerx.InternalMessaging/MessageBroadcaster.cs` | the registered listeners | `Dispatch` | listeners, by call; nobody awaits the result |
| Read side `Sample/Vlerx.SampleReadSide` | documents in RavenDB | `AddAsync`, `UpdateAsync`, `Get(All)` | RavenDB (await) |
| Lifecycle `EventStoreService`, `ConnectionSupervisor` | attached handlers | `StartAsync`, `StopAsync`, connection events | connection, subscriptions |
| Process managers `Vlerx.Es.Process`, `Processes/` | a process state per correlation id | `ReactTo`, `Save` | stories (commands), a state repository; not wired in `Startup.cs` |
| Event mapping `Vlerx.Es.EventMapping` | names by type and types by name | `Add`, `GetType`, `GetTypeName`, `Serialize`, `Deserialize` | storage and subscription |
| BDD tools `Vlerx.Es.Bdd.Tools` | one list of events | `Given`, `When`, `Then` | stories, over an in-memory storage |
| Web `Sample/Vlerx.SampleService.Web` | none of its own | the controllers' actions, the wiring in `Startup.cs` | stories, query reader |
| Form validation in the browser `wwwroot/lib/jquery-validation-unobtrusive` | the rules of each input, a validator, its marks in the page | `parse`, `attachValidation`, checks, submission, reset | jQuery Validate, by callbacks; the server, by requests |

The last row is vendored code, which `Views/Shared/_ValidationScriptsPartial.cshtml`
would load; no view includes that partial yet, so the forms of this commit are
sent unchecked.

What is hard in it:

- calls of `Tell` run concurrently and decide on what they loaded before an
  await; only the expected version protects them;
- the Event Store client transmits again when a reply is lost, and gives up on
  requests that the server may still execute;
- a load is several slices of a stream that grows meanwhile;
- the subscription may be dropped, and the process may end, between any two
  steps; its checkpoints appear in the very log it reads; a checkpoint may be
  stored late;
- dispatch is not awaited, so writes of the read side overlap, finish in any
  order and fail unseen;
- the client of the Event Store may close the connection for good while the
  hosted service goes on;
- an answer of the server about an input may arrive after the input was edited,
  the form reset, or a submission begun that waits for it.

What makes each part correct: a registration is the first event of its stream
and happens once; no event is stored twice; a caller's outcome is the truth; a
decision is right for the history at the point where it is stored (together:
commands are atomic); no event is skipped by the subscription, or dispatched
before an earlier one; the documents are in the end those of the aggregates; a
form that is sent meets its markup.

## 2. Modules

| module | models | depends on |
|---|---|---|
| `Customer` | the aggregate: its events, `After` (what a history folds to), the stories and `Decide` | |
| `AggregateState` | the fold as the code does it, event by event, with the version and `Transition` | `Customer` |
| `EventStreams` | what the server does of an append and a read (external, from the calls to it) | |
| `UseCases` | concurrent calls of `Tell`, from the broker to the append | `Customer`, `EventStreams` |
| `AtomicCommands` | the abstract write side: a call takes effect at one instant or not at all | `Customer` |
| `AtLeastOnce` | the abstract subscription: events handed over in order, some of them again | |
| `CatchUpSubscription` | the subscription, its checkpoints, its drops and restarts | `AtLeastOnce`, which it implements |
| `ReadSide` | the subscription with the broadcaster, the listener and RavenDB, over an atomic write side | `CatchUpSubscription`, `Customer` |
| `ProcessManager` | a process on the subscription: its reactions, the commands it tells, its state | `AtLeastOnce` |
| `EventSchema` | the names of stored events over deployments that rename classes | |
| `Lifecycle` | the hosted service, the supervisor and the connection, with the subscriptions from outside | |
| `ValidationAdapters` | from the `data-val-*` attributes of an input to its rules, and what the attributes demand | |
| `FormValidation` | one form with its validator: parsing, checks, requests, submission, reset | `ValidationAdapters` |
| `BddScenarios` | Given, When and Then, beside the storage of the program | `Customer` |
| `MC...` | the values of the constants for TLC | |
| `...Proofs` | the theorems | |

**Customer, AggregateState.**  An address is a value or `Blank`; names are left
out, no decision reads them.  Events are records with the fields of the
contracts, `Blank` in those they do not have.  `After` states the fold in one
expression (the latest event that sets a field decides it), so that proofs need
no induction.  `AggregateState` has the fold of `AggregateState.cs` step by
step, and its run checks that both agree over every sequence of up to five
events, an event without an `On` method among them.

**UseCases.**  A call has a phase: `idle`, `reading` (awaiting a slice in
`ReadToEnd`), `saving` (awaiting the append), and an outcome.  An action is what
runs between two awaits: `LoadTellAndSave` up to the first request, `ReadSlice`,
`ReadLastSlice` (the fold, the decision, the unit of work and the call of
`AppendEvents`), `TellAndSaveWithoutLoading`, `TellUnknown`.  The server's part
is `AppendEvents`, `AppendAgain` and `RejectAppend`; `Reply` either completes the
call or is lost.  `GiveUp` is any exception of the client, and `AppendLate` an
append that is stored after it.  The code itself has no retry: a call that meets
a wrong version fails.  A customer that was never registered can be relocated:
`RelocateCustomer` loads an empty stream and stores `CustomerRelocated` in it,
and a later registration of that id fails with a conflict.  The model does the
same.

**CatchUpSubscription.**  `log` is `$all`: events of the domain, events of other
writers, checkpoints and metadata, in the order they are stored.  `fetching`,
`initialising` and `limiting` are the awaits of `Start` (the read of the
checkpoint; the first `StoreCheckpoint`; `SetStreamMaxCount`), `subscribed` is
between events, and `storing` is the await of `StoreCheckpoint` in
`EventAppeared`.  `dead` is an exception of `Start` in `Task.Run`, which nobody
observes.  `late` holds the checkpoints whose append was abandoned.  `dispatched`
is a history variable.  One subscription runs at a time, as in `Startup.cs`; the
limit that the metadata sets on the stream of checkpoints is not modelled, since
only the last checkpoint is read.

**AtLeastOnce.**  What a listener may rely on, with no positions of `$all`,
checkpoints or connections: events are stored, the next one is handed over, or
the subscription goes back to behind any event it has handed over before.  It
counts the events of the domain; `CatchUpSubscription` implements it
(`ImplementsAtLeastOnce`), with `stored`, `handed` and `reached` as the numbers of
such events in `log`, up to `position` and in `dispatched`.  `ProcessManager` has
its actions `HandOver` and `Resume` as conjuncts of its own.

**ReadSide.**  `writes` are the tasks of the listener, each at its request to
RavenDB: `saving` a document, or `loading` it to update it.  A registration has
two tasks, since `Startup.cs` registers its listener twice (lines 67, 68).
`SaveChanges` replaces the document (there is no optimistic concurrency), and an
update of no document throws and saves nothing.  `overlapped` and `lost` are
history variables: a listener was called while a write was under way; a write
failed or ended with its process.  `Publish` is the write side as
`AtomicCommands` has it, which `UseCases` implements.

**ProcessManager.**  Events are identified by their index in `log`, so that an
event's `causation` is an index too.  `ReactTo` is everything up to
`Task.WaitAll`: the state is loaded, the event applied, and the commands told;
`running` are the commands under way, and `Save` or `Fail` ends the reaction.
`reactor` tells the two kinds of process apart: `ProcessOf` applies an event to
a clone, `ProcessWithState` changes the object that the repository holds.  That
`Select` is lazy is in `Told`: the commands before one without a story are under
way when `ContinueWith` throws, and nobody waits for them.  The subscription is
`AtLeastOnce`: after a drop or a crash it goes back behind any event it has
handed over, so that late checkpoints are covered.  A drop is queued behind the
event that is
being handled, so it does not come in the middle of a reaction; a crash does, and
ends the commands under way (one that is stored all the same is `CommandSucceeds`
before the crash).  There is one process, and a command stores one event or
fails, whatever story it has; `Startup.cs` has every wiring of processes
commented out.

**EventSchema.**  A class keeps its identity, and `fullName` is what a renaming
changes.  `Add` takes the mappings of a schema one by one, and the constructor
throws at a name that is taken or null.  The name is read before the fallback
for blank names is set (`ContextSchemaConfigs.cs:20`), which is why `NameOf` has
no fallback: a class whose name is white space is stored under white space.

**BddScenarios.**  `db` is the one list of `InMemoryEventStorage`.  `stream` is
what the program would store in the same steps, by the rules of `AtomicCommands`.
`Tool` is the `Then` that is used: `ScenariosOfStories` compares the whole list,
`TestAdapter` of the sample's tests looks for expected events in it.

**Lifecycle.**  `service` is where `EventStoreService` is: `connecting` until
`ConnectAsync` has returned, `starting` while `WhenAll` waits, then `running` or
`failed`.  `connection` is the client's, `supervised` says whether the handlers
of `ConnectionSupervisor` are attached, and `announced` whether one of them has
logged "Stopping service...".  `OnConnectionErrorOccurred` is part of the steps
of the client that raise the event.  A subscription is `starting`,
`subscribed` or `dead` as in `CatchUpSubscription`.

**ValidationAdapters.**  A name is the sequence of its parts, which is what the
prefix of a model is taken from.  A text is a number: 0 is the blank one, and the
others are numbered by their length and by the number they read as, so that 1 may
be "5" and 2 may be "10".  The rules for lengths and `range` compare these numbers,
as `normalizeRules` has made numbers of their parameters; `min` and `max` compare
strings, in the order `AtMost`, which is any relation ("10" comes before "5").
`Adapters` is the list at the end of the script, in its order; `ParsedRules` is
the loop of `parseElement`.  `Meets` is the reference: what the attributes demand,
stated without adapters, rules or resolved names.  `creditcard`, `extension` and
`fileextensions` set rules for which the scripts of the page have no method, so
`PagesAssumption` leaves these attributes out of the forms.  `WellMarked` says
what else the markup of a server has: the parameters of an adapter come with it
and have the type its rule takes, an input compares itself with one of the form,
and no two attributes of an input set the same rule, since the adapter registered later would silently win (a `data-val-minlength` beside a
`data-val-length-min`).  A `data-val-range` with one limit is admitted, and is not
checked as it says; what needs both limits names `RangeHasBothEnds`.

**FormValidation.**  JavaScript runs a handler to its end, so a handler is one
step.  It is an operator on the record `form`, the state of the validator and
its marks in the page: `WholeForm` and `OneElement` are `form()` and `element()`,
`HandleSubmit` the handler of the submission, `StopRequest` and `Answered` what an
answer does, `OnReset` the handler of the reset.  `options` is what
`unobtrusive` collects and `settings` the copy that the validator takes when it
is made.  A script may add an input and parse it at any time.  `hidden` are the inputs
that the page does not show (`Hide`, `Show`, for those that `page` says can be
hidden): `elements()` passes over them, and `element()` forgets them, so that they
are sent as they are.  So is the whole form with a button of class `cancel` or
with `formnovalidate`, the parameter `cancelSubmit` of `Submit`.  `accepted` and
`form.cancelled` are history.  `ComparersAssumption` keeps two inputs from comparing
themselves with the same one, since the handler for its blur event is bound once.

## 3. Runs

| run | instance | shows |
|---|---|---|
| `write_side` | 4 calls, 2 customers, 5 commands, slices of 2, 1 retransmission per call; calls symmetric | the safety of the write side, that `IInv` holds, and that `UseCases` implements `AtomicCommands` |
| `write_side_returns` | 2 calls, 1 customer, slices of 1, no symmetry | every call under way returns |
| `aggregate_fold` | 5 events out of 6 | `After` is the fold of the code; the expected version is the loaded one |
| `subscription` | 3 events, 2 failures | no event is skipped or out of order; no feedback; every event is dispatched in the end; `IInv` holds; it implements `AtLeastOnce` |
| `read_side` | 3 events, 1 failure, 1 customer, 3 commands | what the documents say at rest; a registered customer is shown in the end |
| `eventually_consistent` | 2 events before the last command, no failure | **violated**, see below |
| `process_manager` | 2 events of users, 1 failure, 4 kinds of events, both kinds of process | chains of causes are true; only replays repeat; what the state counts; no reaction stops the subscription for good |
| `event_schema` | schemas of up to 2 mappings, 2 deployments, 2 events | names outlive renamings; the round trip |
| `scenario_is_faithful` | 4 calls of Given or When, 2 customers | which scenarios tell the truth |
| `passed_events_happened` | 2 calls, `TestAdapter` | **violated**, see below |
| `announced_stop_happens` | 1 subscription, 1 loss of the connection | **violated**, see below |
| `form_validation` | 7 forms of 2 inputs, up to 4 texts, 2 forms with an input that can be hidden | what is checked and sent is what the markup demands, but for named exceptions; the page shows what the validator holds |

`CHECK_DEADLOCK FALSE` everywhere: calls return, writers stop writing, and a
program with nothing to do waits.

The bounds, and why they are enough:

- *Calls.*  A conflict needs two, a stale decision a third that changes the
  address meanwhile, and a return of the address (a, b, a) a fourth.  A second
  customer, who is only relocated, is there to see that nothing crosses over.
- *Slices.*  With four calls a stream has more events than a slice, as well as
  exactly as many, which is where the loop of `ReadToEnd` could end wrongly; the
  proofs are for slices of any size.
- *Retries.*  One lost reply per call already makes every call meet its own
  append; `GiveUp` does not depend on the bound.
- *Events and failures of the subscription.*  Two failures make a replay that is
  dropped again, and a late checkpoint that is stored after the checkpoints of
  the replay; three events put one before, at and after a checkpoint that goes
  back.
- *Read side.*  One customer, as updates of different documents do not meet;
  a relocation with a new number records two events in one append, which is the
  shortest way to overlapping updates.  No events of other writers there: they
  are the other run's subject.  One failure keeps the run short; late checkpoints
  that undo each other take three, and are covered by the proof.
- *Processes.*  An event of a user is followed by up to two events of commands,
  to which the process reacts again, so chains have three links; two events of
  users make two chains that interleave.  A return tells two commands, of which
  one may fail while the other runs; a payment tells one that has a story and one
  that has none.
- *Schemas.*  Two mappings are enough for two classes with one name, one class
  with two names, and a blank name twice; the names of the classes are taken from
  those of the mappings, so one may be renamed to what another was stored under.
- *Scenarios.*  Four steps are more than any test of the repository has; two
  customers since the storage mixes them up.
- *Forms.*  In each form two inputs are related: one compares itself with the
  other, both are sent in one request, or both have requests of their own; the
  fourth has a range with both limits and a password, the fifth a range with a
  maximum only, the sixth a comparison without requests, and the seventh an input
  without rules beside a checkbox. In the fifth and the sixth the second input can
  be hidden. The texts are "", "5", "10" and "50", which are below, at and beyond
  the limits; as strings, "10" is before "5". Without any one of the exceptions
  that the properties name, TLC refutes them on these forms.

Every property has a mutant in `PROJECT.json`: the definition, marked "Mistake"
in the modules, of a plausible bug that the run refutes.

### Fairness

`UseCases`: weak fairness of a call's slices and of the server's answer to its
append.  The client repeats a request until it is answered or its retries are
used up.  Making a call, giving up, and late appends are not fair.
`CatchUpSubscription`: weak fairness of its own steps, the starting of the host
included; drops and crashes are neither fair nor needed.  They are bounded,
without which no progress could be promised.  `ReadSide`: also of the answers of
RavenDB, of some task at a time.  It is enough since each task has at most two
requests.
`ProcessManager`: of the subscription's and the process's steps, and of the
answer to some command; that each command returns is `EveryCommandReturns`.
`Lifecycle`: of the service's own steps, the client's connecting and the
subscription's steps; not of losses, errors and `StopAsync`.  The counterexample
of `announced_stop_happens` therefore is not of a program that stands still.
`FormValidation` has no liveness: users may do nothing, and requests may hang.

### Eventual consistency

`Views/Customer/All.cshtml:35` tells the user: "Note: Registration/Relocation
will be consistent eventually refresh the page to see changes after a second."
The run `eventually_consistent` shows a behaviour without any failure where it
is not.  A customer is registered, then relocated with a new number: two events.
`On` does not await the dispatch of the first, so the tasks of both load the
same document.  One saves the new address and the old number, and then the other
saves the old address and the new number.  Nothing reads the first event again,
and the page shows the old address for good.

What does hold is in `read_side`, and proved.  With overlaps, and whatever
fails, no field ever shows what no event of that customer said
(`DocumentsAreSourced`).  If no write is lost, the customers shown are exactly
those registered (`ExactlyTheRegistered`).  And the documents are those of the
aggregates (`ConsistentUnlessOverlapped`) if besides no write overlapped an event
and no late checkpoint has taken the subscription back (`CheckpointsInOrder`).

The last condition is not obvious, since a replay by itself does no harm: it ends
with the last events.  But checkpoints are appended with `ExpectedVersion.Any`.
When the client gives up on the checkpoints of two events, and both are stored
later, the earlier one can take the subscription back to before the second event,
a replay can write what the first event said, and after one more drop the later
checkpoint takes the subscription forward again, past the second event whose
replay is not done.  The document then keeps what the first event said.

### Tests that pass

`RegularBddBase.cs:68` asks whether the storage contains the expected events, and
its answer is yes if it has any of them: `passed_events_happened` has a test that
passes on an event it was given itself.  `RelocatesCustomer.cs` relies on it, in
that it need not name the change of the number; but it would also pass without
the relocation it names, had it given an equal one.

`ScenarioIsFaithful` says when `Then` of `ScenariosOfStories` can be relied on:
the scenario has one customer, or tells only registrations, and registers nobody
who is there already.  Otherwise the in-memory storage differs from the
program's: it accepts every version, and a relocation reads the events of all
customers, and so takes the id of whoever was registered last.

### The stop that is only announced

`ConnectionSupervisor` logs "Stopping service..." when the client has given up
(lines 83, 91), and then calls the delegate for fatal failures.  The one that
`EventStoreService` passes (line 25) only logs.  In `announced_stop_happens` the
service stays `running` with a closed connection; its subscription was dropped,
started again and died in a task that nobody observes.  From then on the documents
stand still, and no restart of the process is asked for.

### Forms

The properties of `form_validation` hold.  They say less than one may think, and
the model shows where the scripts stop:

- a `data-val-range` with a minimum or a maximum only is compared as strings: the
  adapter passes the text of the attribute (unobtrusive.js 313, 316), `normalizeRules`
  makes numbers for the lengths and `range` alone (jquery.validate.js 1299-1314),
  and `min` and `max` are `>=` and `<=` (1436-1443).  "10" passes a maximum of 5, is
  sent, and fails a minimum of 5 (`RangeHasBothEnds`);
- an input that is hidden when the form is submitted is sent unchecked (lines 638
  and 639, `ignore` at 285), and so is everything with a button that cancels the
  check (53-60, 101-104);
- an input that is hidden leaves `invalid` with the next check and keeps the error
  class on its container (`ContainersTellValidity` is about the others);
- what is parsed after the first attachment is collected and never checked
  (`RulesAreFixed`), although the comment of `parse` says that it "enables
  validation"; a script has to remove the validator's data first;
- a comparison with an input that is not there when it is parsed loses its
  parameter in the copy that the validator takes, and is not checked
  (`ComparesWithLoaded`);
- a request that fails leaves its input pending, and a submission waiting for it
  waits until the input is checked and answered again (`Fail`);
- a submission that waits survives a reset, and is sent with the next answer if
  the form is valid then;
- a reset takes the error class off a container but not its text, and an answer
  that arrives after a reset marks the form again;
- while a request is under way, a second check of the same text takes the verdict
  of the answer before (`Verdict`), which is why `VerdictFollowsMarkup` speaks of
  that answer;
- `addMinMax` takes names for its attributes and reads `min` and `max` whatever
  they are (line 306), and so does `addSingleVal` with its default; no adapter of
  the list passes others.

### What the state of a process tells

With `ProcessOf`, a reaction that fails leaves the state as it was, but some of
its commands executed; it is not repeated unless the subscription goes back.  The
version counts what the name does not say: the failed reactions since the first
save (`Apply` increments it in the old state, and the new one is saved).  With
`ProcessWithState` the state counts failed reactions too, and the version stays
at -1.  A replay after a crash tells commands again (`RepeatsAreReplays` bounds
how often).

### Limits of the promise that every event is dispatched

`EveryEventIsDispatched` has two exceptions, which are the code's.  `Start` runs
in a `Task.Run` that nobody observes, so a request of it that fails ends the
subscription until the process is started again.  And an event of a type that
the schema does not map makes `Deserialize` throw, by which the client drops the
subscription; it starts again and meets the same event, forever.

## 4. Proofs

For all values of the constants, under the assumptions named in the modules: that
the constants have their types and sentinels differ from values
(`CommandAssumption`, `EventAssumption`, `KindAssumption`, `BoundAssumption`,
`FieldAssumption`, `StepAssumption`, ...), that slices have a positive size, and
what `PagesAssumption` says of the markup.  TLC evaluates each.

**`UseCasesProofs`** (on the lemmas of `CustomerProofs`).  `IInv` is inductive.
The safety properties are not inductive by themselves: that an event is stored
once needs to know where every stored event came from.  So `IInv` says that

- what a call has loaded is a prefix of its stream, up to its position
  (`LoadIsExact`);
- the unit of work of a call is what its command decides on what it loaded, at
  the version it loaded (`UnitIsDecided`);
- every event of a stream is a change of a unit that is stored whole, where the
  unit expected it (`Provenance`), and outcomes follow (`ReturnsAreJustified`).

From it: `TypeCorrect`, `LoadCorrect`, `OwnStreams`, `AppliedOnce`,
`TruthfulOutcomes`, `RegisteredFirst`, `RelocationsAreMoves`.  `Refinement`
proves `Spec => Atomic!Spec`: a stored append is the step `Execute` of its call,
since the loaded prefix is the whole stream when the version is accepted; a last
slice without events is an `Execute` that adds none; a failure is `Refuse` when
nothing was stored, and every other step a stutter.

**`AggregateStateProofs`.**  The code applies one event after the other, and
`After` looks for the latest event of each field; every other module relies on
their being the same.  An induction over sequences is not needed, since the
sequences grow with the steps of the module: `FoldInv` says that the loaded state
is `After` of what was recorded, that the current one is `After` of all that was
recorded and applied since, and that the version has counted exactly these.  One
event more is `AfterAppend`: the latest event of each field is the new one or the
one before (`LatestOfLonger`).  The theorems are `FoldIsExact` and
`VersionIsLoaded`, for any events of any types and number.

**`ReadSideProofs`, the subscription** (from the assumptions of
`CatchUpSubscription` alone).  `NothingSkipped` speaks of the last checkpoint
only, and any checkpoint may become the last, by a late append.  So `IInv` asks
of every checkpoint that is stored, is being stored, or may be stored late, that
it is earned: all events up to it were dispatched, and it is the start or the
position of an event (`ResumesAreSafe`, `NoFeedback`).  It also asks it of every
dispatched position (`DispatchedInOrder`).  What was dispatched up to a position
stays so, since the log only grows at its end (`DispatchedStable`), and a step
appends only earned checkpoints (`NewCheckpoint`).  The theorems are
`TypeCorrect`, `NoEventSkipped`, `InOrder` and `FeedsOnNothing`.

`Delivery` is the refinement, `Spec => ImplementsAtLeastOnce`.  Besides `IInv` it
needs that only events of the domain are dispatched (`DispatchedAreEvents`).  A
step that leaves `position` and `dispatched` alone maps to `Store` or a stutter
(`GrowthMaps`).  One that sets `position` without a dispatch maps to `Resume`:
everything up to the new position was dispatched, so that no more events are
counted up to it than were ever handed over (`ResumeMaps`); this is where a
checkpoint too far ahead would break it.  `EventAppears` maps to `HandOver`
(`HandOverMaps`): if the event is dispatched again, so was everything before it;
if for the first time, what was dispatched is exactly what is behind it, by
`DispatchedInOrder`, so that `reached` grows with `handed`.
`DeliveryToListeners` states the same for `ReadSpec`, where commands publish several
events at once and the listeners' tasks run beside the subscription.

**`EventSchemaProofs`.**  That an event is read as what it was needs the
dictionaries to agree while they are filled.  `IInv` says that every class leads
to a name that leads back to it, and that every mapping added so far still has
its name (`ConfigsAgree`); no name is taken twice, so no later mapping takes it
away.  The theorems are `TypeCorrect`, `RoundTrip` and `NamesOutliveClasses`, for
any schemas, full names and number of deployments.

**`ProcessManagerProofs`.**  `RepeatsAreReplays` counts the events that an event
has caused, but commands are counted when they are stored and told before that.
So `IInv` counts both, stored events and commands under way: an event's commands
are told at most once each time it is handed over (`ToldInRounds`), and it is
handed over once, and once more for every failure.  `CommandsAreTrue` says that a
command under way is one that the process tells on a stored event, in the chain
of that event, from which `ChainsLeadBack` follows when it is stored.
`ReactionTells` says what a reaction is going to save.  The theorems are
`TypeCorrect`, `ChainsAreTrue`, `StateIsTrue` and `RepeatsAreBounded`, for any
kinds of events, commands on them and number of failures.

**`ReadSideProofs`, the documents** (also on the lemmas of `CustomerProofs`).
Every step of the read side is one of the subscription, a publication, or a task's, so
that the subscription keeps its own invariant (`SubscriptionInside`).  `ReadInv`
adds, in the order in which the parts lean on each other:

- a registration is the first event of its customer (`RegisteredFirst`), and
  only events of customers are dispatched;
- every task is of a dispatched event, and tasks and documents say what events of
  their customer said (`TasksAreSourced`, `DocumentsSourced`), hence `Sourced`;
- without a lost write, a registration that was dispatched is saved or being
  saved (`RegistrationsKept`), hence `OnlyRegistered`;
- an event's checkpoint is stored before the next event is dispatched
  (`CheckpointsCover`), so that with the checkpoints in order only the last event
  is ever replayed (`OnlyLastReplayed`);
- without an overlap, the tasks under way are those of the last dispatched event,
  and end with a document of the last events (`OneWriteAtATime`), hence
  `Consistent`.  That such a document is `Expected` needs no induction, since
  `After` takes the latest event of each field, and `Nth` puts the places of a
  customer's events in their order (`NthEnumerates`, `LatestOfHistory`).

**`FormValidationProofs`.**  Neither the count of requests nor the marks are
inductive by themselves.  `FormInv` adds to them

- that every input with rules has the one that always passes (`RulesHaveDummy`),
  through parsing and the copy the validator takes: a check then always ends with
  a verdict, and no input that was in error is left without one;
- that only inputs with rules are marked, and that the lists of the last check
  agree with `invalid` (`Marks`), since an answer shows these lists once more; of
  inputs that can be hidden nothing is said, and `HiddenCan` says that no others
  are hidden;
- that the inputs waiting are inputs of the form, so that they can be counted
  (`Counts`).

`Marks` takes the inputs that wait as a parameter: between the marks and the end
of a request an answered input waits no more, and is counted still (`GoodStop`).
There is one lemma per operator on a form, and a handler is good as its operators
are.  The theorems from it are `RequestsCounted`, `MarksTell` and `RulesStay`.

That a form is sent only as its attributes allow (`SentMeets`) has two parts.
The first is what the rules say.  For each kind of adapter there is a lemma that
the rules it sets pass a text exactly if its attributes allow it
(`FormatDemands`, `MinMaxDemands`, ...), for a range if it has both limits; since no two of an input's adapters set
the same rule, the rules together say what the markup says (`RulesSayMarkup`).
That holds of the rules that `ParsedRules` gives while the inputs to compare with
are there, and `PageInv` says that a validator's rules are those: of the form's
present attributes, parsed with at least the inputs loaded, and copied.  Hence
`VerdictsFollow`.

The second is what was checked and asked.  `Kept` follows each input's request
through edits, checks, failures and resets (`Tracks`): the answer of a request
that will be kept is to the value that is remembered; once it has come, what is
remembered as valid is what the server accepted last.  A form that is sent has
just been checked in full unless the check was cancelled, and `Fulfilled` says what that
leaves: no rule of an input that is shown fails, and what the input would ask is what was accepted.  `SendInv` is
the conjunction with `FormInv`, and the theorems are `SendInvariant`, `FormTyped`,
`VerdictsFollow` and `SentMeets`, for any inputs, attributes, texts and formats.

**`BddScenariosProofs`** (on the lemmas of `CustomerProofs`).  `ScenarioInv` says
that while a scenario is sound, each stream is the part of its customer in the one
list of the storage, in order (`ListHasStreams`).  The part is not selected, which
would need an induction over the list, but counted: the event at a place is the
stream's n-th if n of the places up to it are the customer's (`AreOfCustomer`).
Events that are added are counted on by their customer (`OwnEventsFollow`) and
passed over by the others (`OthersEventsPass`).  A registration decides the same
events from any list without events of its customer; a relocation is told by a
sound scenario of one customer, whose stream is then the whole list
(`AllOfCustomer`), so that it decides in the storage of the scenario what it
decides in the program.  The theorems are `ScenarioInvariant`, `TypeCorrect` and,
for `Then` of `ScenariosOfStories`, `Faithful`; with `TestAdapter` a verdict
promises less, as `passed_events_happened` shows.

Only model-checked: liveness (`EveryCommandReturns`, `EveryEventIsDispatched`,
`EveryRegistrationIsShown`, `CatchesUp`), which is beyond the prover.  Every
invariant and every other property of the passing runs is proved.

## 5. Not modelled

- `DeleteAsync` of the writer has no caller (and never saves).  `Exists` of the
  storage has none, and `EventStoreExtensions.ReadEvents` is an unused copy.
- The controllers, `Requester` and the query reader keep no state.
- What JSON does to a payload, names, logging, the console, the test runner.
- Of jQuery Validate, what the unobtrusive script does not drive: focusing,
  groups, wrappers, normalizers, the `debug` mode, clicks on radio buttons and
  options, the creation of message elements, the formats that its methods test.
  Rules come from the `data-val-*` attributes only, not from classes, other
  attributes or the type of an input.  Inputs are not disabled: `elements()` passes
  over such an input, but `element()` does not, and a browser does not send it.
  The exception `ComparesWithLoaded`, a comparison with an input that was not there,
  is modelled; two inputs that compare themselves with the same one are not.
- `wwwroot/js/site.js` is a comment; `.vscode/solution-explorer/template-parameters.js`
  names the namespace of a new file for an editor.
- In `Lifecycle`, what happens inside a subscription, which is the subject of
  `CatchUpSubscription`; the two are not composed.

## 6. Plan

Done, in this order: `Customer`, `AggregateState`, `EventStreams`, `UseCases`,
`AtomicCommands`, the proofs of the write side, `CatchUpSubscription` and its
proofs, `ReadSide`, `ProcessManager`, `EventSchema` and its proofs,
`BddScenarios`, `Lifecycle`, `ValidationAdapters`, `FormValidation`, the proofs of
the process managers, of the read side, of the form, of the fold and of the
scenarios, `AtLeastOnce` between the subscription and the process managers.
Next: several processes in one messenger, with the repository they share.
