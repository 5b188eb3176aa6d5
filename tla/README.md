# cozytempl in TLA+

cozytempl is a web UI for Cozystack: a Go server that renders templ/htmx pages
over the Kubernetes API on behalf of the signed-in user, and a small TypeScript
client. This directory models the parts of it in which several actors share
state, in which steps may be interrupted, lost or repeated, and the pure
algorithms those parts rest on. All paths below are relative to the repository
root (`src/` in `PROJECT.json`).

## 1. Inventory

| Part | Code | State it keeps | Operations | What makes it hard | What makes it correct |
| --- | --- | --- | --- | --- | --- |
| Replay ring | `internal/k8s/watcher.go` 52-108 | slots, `head`, `full` | `add`, `since` | wrap-around, zero-value slots | it is the newest part of the tenant's history, in order |
| Watcher | `internal/k8s/watcher.go` 110-335 | `subscribers`, `buffers`, `nextEventID` under `mu`; channels of 100 | `Subscribe`, `Unsubscribe`, `handleEvent`, `watchLoop` | fan-out after the unlock, non-blocking sends, restarts | no silent gap, order, isolation of tenants, the loop never blocks |
| SSE handler | `internal/api/sse.go` | one subscription per request | authorize, replay, pump, deadline | reconnects, half-dead clients | the page converges to the cluster |
| Browser table | `static/ts/sse.ts` | `EventSource`, rows, `pendingDeletions` | `connect`, `syncFromLocation`, `applyChange`, `notePendingDelete` | suppression by name and time, reconnects without an ID, tables drawn again under a stream that stays | a row is stale only for a stated reason |
| Watch proxy | `internal/api/sse_watch.go`, `internal/k8s/watchproxy.go`, `static/ts/watch.ts` | one watch per request | validate, SSAR, stream, `syncFromDOM` | no replay: a reconnect relists; Back and Forward change the page after `popstate` | rows of deleted objects must go, a page has its own stream |
| Log tail | `internal/api/ws_logs.go`, `internal/k8s/logs.go`, `static/ts/logs.ts` | goroutines, a channel of chunks, one of errors | read, write, watch peer, visit, retry | the terminal error races the last chunks; retries; a tail rendered by the server before the socket's backfill | a stream sends every chunk once, the scrollback repeats only that tail, one audit entry per session |
| Sessions and auth | `internal/auth/*.go` | an encrypted cookie per browser | login, callback, refresh, BYOK and token upload, logout | the state lives in the client; concurrent refreshes; restarts | nobody is served with another's or a dead credential |
| Auth mode, config, start | `internal/config/*.go`, `cmd/cozytempl/main.go` | the environment; the process and its listener | `resolveAuthMode`, `validateForMode`, serve, `Shutdown` | precedence; a listener that fails; streams open at the signal | a mode is accepted only with what it needs; a stop ends, and exit code 0 means nothing was cut |
| Rate limiter | `internal/api/ratelimit.go` | a bucket per key, used after the unlock | `allow`, janitor | eviction racing use | no key ever gets more than one bucket that is never dropped would give |
| Router, middleware | `internal/api/router.go`, `metrics.go`, `requestid.go` | none | the chain per request | order, streaming bypass | streams are not timed out, probes not limited |
| Edits of applications and tenants | `internal/handler/crud.go`, `tenants.go`, `internal/k8s/application.go`, `tenant.go`, `merge.go`, `internal/api/application.go`, `tenant.go` | the objects in the API server | create, update, delete, from the UI and from the JSON API | read-modify-write over two requests, names that are not unique | no lost update when a version is given; what a form does not show survives |
| Looking, revealing, actions | `internal/actions/*.go`, `internal/handler/actions.go`, `page.go`, `fragment.go`, `internal/audit/*.go` | a registry filled at start | detail page, reveal, probe, dispatch | calls between which the cluster changes; partial failure | values of one origin, buttons that were allowed, true audit entries |
| Schemas and forms | `internal/k8s/schema.go`, `formdefinition*.go`, `internal/view/fragment/schema_fields.templ` | entries per user name with a time | get, list, overlay | fetch outside the lock, overlapping definitions | nobody sees a schema no session of that name could read, nor an older one than the time to live allows |
| Listings | `internal/api/palette.go`, `internal/handler/page.go`, `overview.go` | none | fan-out over tenants | one tenant failing, the cluster changing meanwhile | what succeeded is complete and once |
| Usage and quantities | `internal/k8s/usage.go`, `capi.go` | none | folds | quantities as strings | the sums; not modelled |
| Pages, fragments | `internal/handler/page.go`, `fragment.go`, `internal/view` | none | render | filtering and sorting | wording and layout, not modelled |
| i18n, tracing | `internal/i18n`, `internal/tracing` | none | lookups, library set-up | | not modelled |

How they interact: the browser opens `/api/events`; `RequireAuth` and the rate
limiter run before every handler; `SSEHandler` lists with the user's credential
and then subscribes to the shared `Watcher`, whose own goroutine is fed by a
cluster-wide Kubernetes watch under the service account. Mutations take the
user's credential to the API server and come back to every open page through
that watch.

## 2. Modules and code

| Module | Models | State and actions in terms of the code |
| --- | --- | --- |
| `ReplayBuffer` | `replayBuffer` of `watcher.go` | A record of slots, `head` and `full`; `Add` is `add`, `Since` is `since`, `HoldsNewest` their reference definition. |
| `Watcher` | `Watcher` and the handler half of `sse.go` that drains it | What `mu` protects is one action (`Subscribe`, `Unsubscribe`, `Publish`). The fan-out loop after the unlock is `Pick`, `Send`/`Drop`, `FanoutDone`; sending on a channel closed meanwhile is `PanicOnSend`, the concurrent map access `FatalMapAccess`, and both end the process. `TakeMissed` and `Receive` are the handler's two loops. |
| `EventFeed`, `WatcherFeed` | the promise of the watcher to one subscription, and the refinement mapping | A cursor into the tenant's history that never goes back and repeats one event at most. |
| `LiveTable` | cluster, watch loop, watcher, handlers, connection, `sse.ts` | Extends `Watcher`; each of its actions occurs inside one action of the composition, together with what it causes at the other end. `LoadPage` is a whole document, `Redraw` a swap or a restored page in the same tenant, which draws the rows from any table that is `held` (a list the server has read before, a snapshot in the history) while `syncFromLocation` keeps the stream; `LeaveTenant` is its `disconnect()`. |
| `AuthSession` | `internal/auth` | A deployment (mode, provider, tabs, faults), the browser's one cookie, a request per tab with the copy of the cookie it carries, the provider's live and revoked refresh tokens. One action per handler branch. |
| `LogPump` | `ws_logs.go` | The reader, the writer and the peer watcher with their context, channel of chunks and channel of errors. |
| `LogTail` | `static/ts/logs.ts` on top of it | Socket, retry timer, counter and scrollback; its actions carry the pump's steps along. A visit starts with the tail that `page.go` 757 has rendered (`LogTail`), then asks for the backfill. `Restore` is Back or Forward, which `logs.ts` does not notice: the socket stays and writes to an element out of the DOM. |
| `WatchProxy` | `sse_watch.go`, `watchproxy.go`, `events.go`, `watch.ts` | The cluster's events by the time last seen, the page with its rows, a page kept in the history, the page load under way, the `EventSource`, the watch behind it with its queue, the frames on the wire. `Swap` is `htmx:afterSwap`: the new page, then `SyncFromDOM` on it. `PopState` is the listener, which sees the old page, together with what htmx does next: draw a kept page, ask the server for one (`HistoryLoad` draws it) or nothing. |
| `Server` | `main.go`, `internal/config`, `router.go`, `ratelimit.go`, `metrics.go`, `requestid.go` | The process and its phase, the environment it reads, each request with the bucket it holds, the limiter's map. `LookUp` is `allow` up to the unlock, `Admit` and `Limit` its last call, `Collect` one round of `gcLoop`. |
| `SpecMerge` | `merge.go` and the form helpers of `crud.go` | `DeepMerge`, `PickNextSpec`, `SetNested`, `ExtractSpec`, as functions on records of two levels. |
| `AppUpdates` | edit form, create, update and delete of applications, also by the JSON API | The objects and releases of one name, the API server's revision, and for each editor the stage of form or request with what it has read. One action per call to the API server and per early return. |
| `TenantEdits` | the same of tenants | Tenants as `<<namespace, name>>`, with two of one name; `FindTenant` is `Get` by name, `GetSpecSnapshot` goes by both. |
| `Schemas` | `SchemaService`, `FormDefinitionService`, the fields of a form | The definitions and the time since each changed, the cache with the age of its entries, the requests between the two locks. |
| `AppAccess` | detail page, connection tab, reveal of a secret, JSON Get, actions | One request as a chain of calls (release, templates, secrets one by one, access reviews one by one), with what the cluster held and allowed meanwhile as history. |
| `Listings` | palette index, dashboard, overview | The tenants listed, the lists under way (several for the palette, one for a page), the rows gathered. |
| `Lists` | what the API server answers to a list; sorting, filtering and appending by position | `InOrderOf`: each object once, in an order that does not change between two lists. `Ranked` lists a set by a strict order, and from it come `Ascending`, `Picked` (a sequence at some of its positions) and `Concatenated` (sequences end to end), all without recursion. |
| `Requests` | the five above together | The state of each beside the others'; a step is one of one part, as each models its own part of the cluster. |
| `PageStreams` | `LogTail`, `WatchProxy` and `Server` together | An application's page streams its log and its events through one server, which sees of a stream only that it is one; a step is of one of the three. |
| `MCEdits`, `MCRequests`, `MCStreams` | compositions for TLC | A behaviour is about one part: the parts are requests to different objects, or one open tab at a time. `Within` of `MCStreams` says which bound a behaviour about one socket, about the scrollback and about the server has of its own. |
| `MCLiveTables` | three instances of `LiveTable` in one run | A behaviour is about one application that two handlers may be streaming, about two applications with one handler at a time, or about one application whose table is drawn from older lists and snapshots. |

`ReplayBufferProofs`, `WatcherProofs`, `WatcherFeedProofs`, `LiveTableProofs`, `ListsProofs`,
`AuthSessionProofs`, `PageStreamsProofs` and `RequestsProofs` hold the proofs (section 4);
the last two are about the three parts that `PageStreams` composes and the five that
`Requests` does. The `MC` modules hold only what TLC needs (small sets of inputs, symmetry, which part a
behaviour is about). Operators such as `AddForgetsFull` that stand before the
definition they resemble are faulty variants: they show that a property does notice
that fault.

## 3. Runs

| Run | Question | Bounds, and why they are enough |
| --- | --- | --- |
| `watcher` | Does any interleaving of subscribers, fan-out, crashes and restarts corrupt a ring, lose an event silently, show one to another tenant, or send a handler backwards? | Two namespaces, two channels, a ring of 2, channels of 1, 3 events: the ring wraps, a channel fills, a channel is reused after its close, and two handlers meet in one walk or in two. |
| `watcher_panic` | Can the loop send on a closed channel? It can, see Findings. | As `watcher`. |
| `live_table` | By which steps can a row of the page become stale? Only by the named ones. | Per behaviour, one application of two statuses with two handlers (the page's and a half-dead one), or two applications of one status with one handler at a time; 3 events, a ring of 1, so that a replay covers the newest event and no more, and one event may be of the other application. Or one application with one handler at a time and one older table held, a list or a snapshot (`HeldSize`): what is drawn is of before or after any frame. |
| `live_table_converges` | While watch and stream stay open, does every row come to show the cluster, unless it is stale for a named reason? Does the fan-out always end, and a running handler get what it is owed? | One application, one handler, 2 events, a ring of 1. |
| `live_table_reconnect` | Does a reconnect lose nothing, as the comments say? Not before the first event, see Findings. | A ring of 4 that has not rotated. |
| `auth_session` | In four deployments (two tabs with every fault and a provider that does not rotate; one orderly tab and one that rotates; legacy; token mode across a restart): who may lose a session, and is one that ended really over? | Three answers of the provider, two sign-ins, one restart: a refresh of a refreshed token, a late reply over each, and a cookie of the previous process. |
| `auth_rotation_race` | Is a refresh refused only when something was revoked? No, see Findings. | Two tabs, no faults at all. |
| `streams`, Logs | Are the chunks complete and in order up to where the stream ended, is there one audit entry, do all goroutines end? | One socket, as a new one is a new request with goroutines of its own. A channel of 1 and three chunks: one held by the writer, one queued, one that waits. |
| `streams`, Scrollback | What can the scrollback repeat or miss over several sockets, Back and Forward, and is there one stream at a time? Only the rendered tail is repeated, and only by the first backfill. | Two chunks, a rendered tail and a backfill of up to both, so that a visit repeats some; two sockets and one retry: a visit or a retry after a visit, and a retry of a retry is given up. |
| `events_tab` | Does the tab show only its application's events, is a row stale only for a named reason, does the tab keep trying and converge, also one that Back has put there under its own stream? | Three events of two applications, two of them one transition, two changes, a list of one: an event appears and changes or goes, before, in and after a gap. One page kept in the history, and one load at a time: each page can be an old one of either application. |
| `streams`, Server | Does a process serve only when soundly configured, does any key get more than its rate, what does a stop cut? | Two requests, one user, one address: the janitor needs one request that stalls and one that comes after it. A burst of 1 and an idle time of 1 tick; `MaxLate` 1. Two modes stand for four: token is as byok is and impersonation as passthrough; a process in dev mode starts and stops, but its requests would be those of a single user and are left to the others. |
| `requests`, edits | Does an update replace only what it was made from; does a form save keep what it does not show; does the YAML tab replace? | One editor against an environment that creates, writes and deletes both kinds of that name between any two calls. Editors meet only at the API server, so one editor and that environment show what several would do to each other. One spec lacks the top-level field and one has an empty block: what a form shows for them is no part of the object. Three writes: two by others and one of the editor's, before, between or after. Three tenants, two of one name. |
| `requests`, schemas | Can overlapping fetches hand out another user's schema, or one older than the time to live? Does a form follow its overlay? | Two requests of three sessions, two of which share a name; two definitions of one kind; a time to live of 2 and calls of up to 1. Two overlays: duplicates, hidden blocks, empty kinds and paths. |
| `requests`, access | Are the values of one origin, and the buttons allowed, while releases, secrets and roles change? | Two kinds of one name, three secrets, two changes during a request: one before and one after any call. |
| `requests`, listings | Is what was gathered complete, and nothing twice? | Two tenants, four applications where a list holds two, two lists at once, two changes. |
| `requests`, all four | Is the audit log true? | `EveryAuditIsTrue` collects what each part says of its own entries (`AuditIsTrue`, `TenantAuditIsTrue`, `RevealedIsRecorded`, `ActionAuditIsTrue`); for each, one mutant of the part breaks it. |
| `app_updates_clobber` | Does every save notice a concurrent write, as the README says? Not one from a form whose snapshot failed, see Findings. | Two editors, two writes. |
| `tenant_edit_row` | Does the form opened at a row save that row's tenant? Not with two of one name, see Findings. | As `requests`. |

Bounds of the models: `MaxEvents`, `WireSize`, `HeldSize` (`Watcher`, `LiveTable`),
`MaxTokens`, `MaxLogins`, `MaxRestarts` (`AuthSession`), `MaxLog`, `MaxSockets`
(`LogPump`, `LogTail`), `MaxClock` (`WatchProxy`), `MaxLate` (`Server`), `MaxWrites`
(`AppUpdates`), `MaxTenantWrites` (`TenantEdits`), `MaxStall` (`Schemas`), `MaxChanges`
(`AppAccess`), `MaxShifts` (`Listings`). Each appears only in the guard of the
action that uses it up. `MaxLate` bounds what `AtMostTheRate` excuses: each token
that a request takes a tick or more after it looked its bucket up.

Deadlock is checked except in `auth_session`, `auth_rotation_race`, `streams` and
`events_tab`. There a behaviour may really end: a user who is served and
does nothing more, a process that has exited, or a bound that is used up.

**Fairness.** `Watcher`, `LiveTable`: the watch loop retries for ever
(`watcher.go` 204-231), goroutines are scheduled, the browser delivers frames and
fires timers; a page is not assumed to reconnect, nor the cluster to do anything.
That the handlers go on writing is no part of the specification: `Converges` and
`EventuallySeen` carry it as a hypothesis (`HandlersWrite`, `HandlersRun`) and
`FanoutTerminates` does without. `AuthSession`: the server answers a request it has,
and the browser takes an answer and follows a redirect. `LogPump`: the three
goroutines are scheduled; neither the pod nor the peer nor the deadline is assumed
to do anything. `WatchProxy`: the handler forwards and the browser dispatches.
`Server`: clocks run, timers fire, a request that holds a bucket goes on and one
at its deadline returns; a stream need never end.

## 4. Proofs

Eight modules hold the proofs. They are for all values of the constants under the
assumptions of section 4.3, and `PROJECT.json` lists each theorem with what it
establishes. Each proof has the same form: an inductive invariant, one lemma per
conjunct or per group of actions that it survives a step, and corollaries.

### 4.1 What is proved, and along which argument

| Module | Theorems | Inductive invariant, and why it is needed |
| --- | --- | --- |
| `ReplayBufferProofs`, `WatcherProofs` | `TypeCorrect`, `RingCorrect`, `GapFree` | `IInv` adds `Registered` (a channel is in the subscriber set of a namespace exactly when it is open for it) and `LoopShape` (outside the loop nothing is left to send). Without the first a subscriber could be owed an event whose audience it is not in, without the second a step that ends the loop could leave an event that counts as under way. `RingCorrect` rests on `AddHoldsNewest`, by cases on whether `head` wraps and whether the ring was full. |
| `WatcherFeedProofs` | `TenantsApart`, `FeedOfOneTenant` (the watcher implements `EventFeed`) | `IsolationInv`: histories are stamped in order, the loop serves the newest event of one namespace, a closed channel is empty, a handler holds only what is in the history of its namespace. `OrderInv`: the slice, the channel and the event under way are ahead of what the handler has taken, each in order; only the newest event may be there twice. The refinement maps each step of `Watcher` to one of the feed or to none. |
| `LiveTableProofs` | `TableTypeCorrect`, `TableRunsTheWatcher`, `LossesAreNamed` | Each step of `LiveTable` is a step of `Watcher` or leaves it alone, so that what is proved of the watcher holds of the composition. `PageInv`: only an open `EventSource` has a handler or frames on the wire, only an open watch has changes to hand on, and the last of these about an application says what the cluster holds. See below for `LossesAreNamed`. |
| `ListsProofs` | `RankedInOrder` | `Ranked` lists each member of a finite set once, in the order given; by it `Picked` and `Concatenated` are what a filter and an append give, position by position. |
| `AuthSessionProofs` | `SessionInvariant`, `SessionsTyped`, `SessionsStayRefreshable`, `SignOutIsFinal`, `ChainHolds`, `HandsOnUsableTokens` | `SessionInv` says of every copy of the cookie, in the browser, in a request and in a reply, what the properties say of the browser's: replies arrive in any order, so each copy may be the next cookie. `Chain` says which of the cookie and the refresh under way has the good token. |
| `PageStreamsProofs`, logs | `TailTyped`, `LogInOrder`, `AuditedOnce`, `ScrollbackIsInOrder` | `PumpInv`: what is sent, held by the writer, queued and held by the reader is one run of the log, and what the end of the log has still to bring is accounted for while the pump's context lives. `TabInv` joins the wire to the scrollback while the socket writes to the one in the DOM: what is shown ends where the wire begins, or it is the rendered tail, no older than the backfill (`Rendered`). |
| `PageStreamsProofs`, events | `WatchTyped`, `RowsAreOwn`, `RowsComeRight` | `WatchInv`: every list and kept page is of its application (unless it was restored), every frame and queued event of the application the stream was opened for, and for each event the last thing on its way (or the row, if nothing is) shows what the cluster holds, while the stream is the page's. |
| `PageStreamsProofs`, server | `ServerInvariant`, `ServerTyped`, `RateHolds`, `CleanExit`, `StartsSoundly` | `ServerInv`: no two keys share a bucket, a request that has just looked its bucket up holds the one in the map, and `Covered`: a bucket in the map never has more than the eternal one, which has had the time since the lookup to fill up, so that one that may be dropped would be full. |
| `PageStreamsProofs`, together | `StreamsCompose`, `StreamsTyped` | A step of `PageStreams` is one of one part and a stutter of the other two: `StreamsSpec` implies the specification of each. |
| `RequestsProofs`, applications and tenants | `EditInvariant`, `NoUpdateIsLost`, `EditsAreAudited`, `TenantInvariant`, `NoTenantUpdateIsLost`, `TenantEditsAreAudited` | Versions are never used twice, so a version that is pinned or sent stands for one content: either the object still has it and is what the form showed and the update read, or no object has it and the API server refuses. |
| `RequestsProofs`, what edits save | `EditTypes`, `EditsTyped`, `SavesAreWhatWasAsked`, `TenantTypes`, `TenantEditsTyped`, `TenantSavesScrub`, `SavedTwiceAsOnce` | `TypesInv` and `TenantTypesInv`: what is stored, shown, submitted and read is a spec, and what a form or a document submits is told path by path (`Submits`). Then the merge lemmas do: `MergeIsSpec`, `MergeKeeps` (a path neither submitted nor above nor below one that is keeps its value) and `MergeSets` (one that is gets it); that a save sent twice is as one sent once follows from the merge alone. `ExtractHolds` shows that a form submits just its fields in whatever order it is ranged over, by the least number of fields for which it would not. |
| `RequestsProofs`, access | `AccessInvariant`, `AccessTyped`, `RevealsAreRecorded`, `ConnectionOfOneSource`, `ActionsAreAudited`, `ButtonsAreAllowed` | What is still to be read is of the origin of what has been read (`OneOrigin`); each action that was allowed throughout is on a button, failed, or is still to be asked about (`Offers`). |
| `RequestsProofs`, schemas | `SchemasInvariant`, `SchemasStayOwn`, `SchemasStayFresh`, `SchemasAreTyped`, `FormsFollow` | The content of an entry and of an answer under way is the cluster's, or the definition changed no longer ago than the copy's age and a stall. An answer fetched earlier and cached later is covered because its age counts from the fetch. A form that is shown is `Form` of a kind that was asked for (`ShownOK`); the rest of `FormsFollow` is about that operator, see below. |
| `RequestsProofs`, listings | `ListingsInvariant`, `ListingsTyped`, `ListsGatherAll` | The rows are those of lists that have been appended, of different tenants (`RowsOK`); a list that neither failed nor was cut has all that was there throughout (`AllOf`). |
| `RequestsProofs`, together | `RequestsCompose`, `RequestsTyped`, `AuditsAreTrue` | A step of `Requests` is one of one part and a stutter of the other four, so that `RequestsSpec` implies the specification of each and inherits its theorems. |

`LossesAreNamed` says of every number of applications, handlers, buffered events and
frames what `live_table` checks of one or two: a row becomes stale only by a loss the
code accepts. Whether a row is stale is what applying everything on its way to the page
would make of it (`ApplyAll`). `RowOf` turns that into a statement about positions:
the last change of the application says so, or there is none and the row did before
(`Ends`). `Settled` then says it source by source, from the watch back to the page: the
relist and the changes not yet published, the event under way in the fan-out, the
handler's channel and replay slice, the frames on the wire; without a handler, the
replay that the ring would give now. There is one lemma for each action that moves an
event from one of these to the next, and `ReplaySettles` for those that put the replay
in the place of the other sources: the replay is the history after the browser's
`Last-Event-ID` (`Covered`), so nothing that was on its way is missing from it.

`FormsFollow` has no bound on fields, FormDefinitions or entries. `MergedEntries` finds
each entry of the merged overlay at its place in the FormDefinitions, in their order, so
that the last one is the one that counts (`LastWins`). `GroupSorted` says that a group is
sorted as its numbers say, and by place where they say nothing, because that is a strict
total order (`SoonerOrders`) and `RankedInOrder` holds; `FormInOrder` joins the groups,
and `FormOfOverlay` compares with the property, which reads the overlay without merging it.

The theorems on updates, on what they save, on freshness, `HandsOnUsableTokens` and
`StartsSoundly` are of action properties: their invariant holds before the step and
the step is taken apart by action. `SessionsStayRefreshable` is, as its property is, about a provider
that does not rotate and gives a refresh token at each sign-in
(`"norefresh" \notin Faults`): without `offline_access` there is none to keep.
`LossesAreNamed` could not be proved as its property was first stated. That named as
not covered only what a ring has rotated out. A frame on the wire of a process that died
is lost with the connection; the browser comes back with the ID it had before, and the
new process, which counts from 1 again, may have given IDs up to that one to the
events of its relist. The replay is then gap-free by its IDs and has nothing of what
was lost. Two applications and 24 steps show it, more than the run had;
`LostWithoutReplay` now names the loss, `live_table` has two applications, and section 5
lists it.
`SavesAreWhatWasAsked` and `TenantSavesScrub` could not be proved as first stated,
for two reasons that TLC's small specs did not show. An empty map in a document does
touch its path: it turns a scalar there into a map, or joins the map that is there
and changes nothing, so that what is left is some map and not the one submitted. And
with one field inside another, what a form builds would depend on the order in which
it is ranged over; `NoneInside` (section 4.3) says why a form has none.
`ChainHolds` is about the orderly deployment of its property; `auth_rotation_race`
shows what happens outside it.

### 4.2 What is only model-checked

- Liveness: `FanoutTerminates`, `EventuallySeen`, `Converges`, `SignsInAgain`,
  `GoroutinesEnd`, `TabConverges`, `ShutdownEnds` and the like. The prover has no
  rule for fairness.
- What the recursive function of `ApplyAll` computes is proved by its positions, for each
  length (`RowOf`), from a least counterexample instead of an induction; so is `ExtractHolds`.
  `DeepMerge` is modelled, and proved about, on specs of two levels: what it does on
  deeper ones would need an induction over data.

Every invariant and every action property that a passing run checks is a theorem.
`SelectSeq`, `SetToSortSeq` and `FlattenSeq` are opaque to the prover, so the models sort,
filter and join by position, with the operators of `Lists`.

### 4.3 Assumptions

Each is named in the module that declares its constants, and TLC evaluates it in
every run of that module. Beside markers that are not members of the sets they
extend and sizes that are positive:

- `WatcherFeed`: the mark `Closed` is not a cursor.
- `LiveTable`: `Changes` are the records of an operation, an application and a status.
- `Schemas`: a schema's field is at most two keys deep and listed once, the fields of a
  block next to each other (`walkProperties`, `schema_fields.templ`); an overlay's entry has a path, at most one
  number and a flag; no request is for the empty kind (`FieldsAssumption`,
  `OverlaysAssumption`).
- `SpecMerge`: scalars, maps and the empty form field are told apart, as the
  type switches of `merge.go` tell them.
- `AppUpdates`, `TenantEdits`: no rendered field is inside another (`NoneInside`). The
  form renders the leaves of the schema only: it recurses into an object that has
  properties and renders none for the object itself
  (`internal/view/fragment/schema_fields.templ` 280-302). A property whose name contains
  a dot, which the form's dotted names could not tell from a path, is left out.
- `TenantEdits`: no rendered field is under a reserved key; these "are never legitimate
  spec fields" (`internal/k8s/tenant.go` 247).
- Finite: `Apps` (`LiveTable`), `Tabs`, `ClusterEvents`, `Requests`, `Users`, `Peers`, `Secrets`,
  `Rendered`, `TenantFields`. A janitor, a list or a walk over them ends; without it "the
  greatest" need not exist.
- Sequences without repetition: `Listed`, `TenantOrder`, `KindOrder`, `Registered`,
  `TenantCRs`, `AppOrder`: the order in which the API server, or the registry,
  lists things. `SecretTemplates` and `Prefixed` are sequences.
- `Server`: the idle time is no shorter than the time a bucket takes to fill
  (`rateLimitIdleTimeout >= rateLimitBurst`, `ratelimit.go` 25-30: fifteen minutes against
  30 tokens at 20 a second); the environment's flags are Booleans. `RateHolds` is false
  without the first.
- `Listings`: two tenants have different namespaces of their own.
- `AppAccess`: the machine an action goes to has a name.

## 5. Findings

Each is a run that shows the code doing other than what the repository says;
`PROJECT.json` quotes the lines.

- `watcher_panic`: the comment puts `subscribers` under `mu`, but the fan-out walks the map after the unlock.
- `live_table_reconnect`: the comments promise a replay after a momentary disconnect; without a last event ID there is none.
- `auth_rotation_race`: two requests that refresh at once with a provider that rotates; the loser is signed out although nothing was revoked.
- `app_updates_clobber`: a form whose snapshot failed saves without a version to pin. The
  claim compares with the version the form shows, or with its opening if it shows none; a
  JSON request, which has no form, is not part of it.
- `tenant_edit_row`: the edit form takes the tenant by its name alone, its spec and version by namespace and name.

Seen while modelling, and not runs of their own:

- Sessions: an upload within its cap of 32 KiB is accepted and then cannot be
  saved, as a cookie holds 4096 bytes; a reply that fails to save a rotated token
  is served all the same; a logout after a restart leaves the unreadable cookie in
  place; without a configured secret every restart ends every session.
- All kubeconfig sessions have one user name, and so have all token sessions: they
  share a bucket of the limiter ("per user", `ratelimit.go:24`) and the entries of
  the schema cache (`schema.go:42-47` on why users must not). The limiter by
  address takes the remote address with its port.
- Audit: creates, updates and deletes through the JSON API leave no entry, although
  the README has one line for every mutation (`README.md:96`); its Get hands out the
  values of all connection secrets without one; its Update can carry neither a
  version nor the wish to replace, so it is not under optimistic locking. An update
  that fails at its first read leaves no entry either.
- Applications: the prefix by which secrets are searched for `db` also fits those of
  an application `db-2` of that kind; a delete takes the first kind found under the
  name; an update without a version still sends the one it has just read, so the
  "last write wins" of the comment can get a conflict too.
- Tenants: one whose controller has not answered yet stands for its parent, so the
  parent's applications appear twice in the palette, the dashboard and the overview;
  `List` counts a tenant's own name as its child (`tenant.go:89-102`); the dashboard
  and the overview do not say that a list was cut at its limit, as the palette does.
- Streams: `watchproxy.go:83-95` calls the gap between list and watch harmless, but
  a deletion in it leaves a row for good; the ADDED of everything that opens a watch
  brings back what the list had deduplicated and cut. Each handshake resets the
  retry counter of the log view, and a character split over two frames is shown as two.
- Router: `withAccessLog` passes only `/api/events` and `/api/watch/` on with the writer as
  it is; `/api/logs/` gets a `statusRecorder` without `Hijack` or `Unwrap`
  (`requestid.go` 80-89), so the upgrade of a log stream (`ws_logs.go` 255) fails. `Server` has
  this as the phase `failed`; the Logs tab is modelled as the code means it, with a
  connection that is taken over.
- Events tab: the `popstate` listener (`watch.ts` 202-204) runs on the page that is about to
  go, and what htmx then restores is no swap of `#main-content`. Back from a page without an
  Events tab brings one that has neither stream nor retry, though "pages that opt in"
  are to be subscribed (`watch.ts` 3-4). Back from one application's Events tab to another's keeps
  the stream of the first, and `handleMessage` puts its rows into the tab of the second, the
  "neighbour-app leakage" that `watch.ts` 51-53 is about. Either lasts until the next swap:
  `OnlyOwnRows` and `RowsStaleOnlyByNamedLoss` except a page that is `restored`, and
  without that exception TLC breaks each in 9 and in 3 states.
- Live table: `syncFromLocation` keeps the stream while the tenant stays the same, but a swap
  (after a create or an update, `crud.go` 127-130 and 294-296, or a link inside the tenant) and
  Back draw the table from a list or snapshot that may be older than frames the page has
  had: such a row is stale until its application changes again (`LostByRedraw`).
- Logs: a visit shows the end of the log twice, as the server renders up to 500 lines
  (`page.go` 287, 757) and the first socket asks for as many (`logs.ts` 74) without clearing
  them. A Logs tab that Back restores has no socket until a retry of an older one fires,
  and the socket of the page before it goes on unseen.
- Live table: a frame that a process has sent and the browser not yet read is lost when
  that process dies. The next process lists everything again, but event IDs restart at 1
  with it (`watcher.go:281`), and a browser that was ahead skips what has an ID up to its
  own: the row stays stale until that application changes again.
- Process: a listener that fails leaves the process running; a stop with a stream
  open always takes the whole time-out and exits with 1; a bounded request may run
  for longer (15 s) than the shutdown waits (10 s); event IDs restart at 1 with it.

## 6. Not modelled

`PROJECT.json` gives every component with its status. Rendering, i18n, tracing,
usage sums and presentation scripts have no state that several actors share. In
the modelled parts, field types and their conversion, the contents of an uploaded
kubeconfig, JWT parsing, the markup, filtering and sorting of rows are abstracted
to the outcomes the control flow distinguishes. Of a Logs tab in the history only its last
chunk is kept, and a scrollback is not trimmed at its limit of bytes. A history entry that
htmx has not made, of another tenant, is left out: there the address changes and the page
does not, so the live table would follow a tenant it does not show. The process is one: replicas that
share nothing but the cookie key are a restart to a browser.

## 7. Plan

Done: every stateful part of the server and of the browser's streams. Left:

- Models: the refetch of a filtered or sorted live table.
- Proofs: that merging one form after the other is merging both at once, unless a scalar
  stands between two maps.
- Code: an event ID that names its process would make the loss above one of
  a ring that does not reach back, and `LostWithoutReplay` one disjunct shorter.
