# A TLA+ model of the Catalyst JavaScript SDK

This directory models the SDK under `src/packages`: the parts that keep state
across an `await`, a callback or a timer, and the services whose calls meet in
something shared. Tokens are cached and renewed under callers that overlap,
sockets are replaced while they still speak, popups, storage and sign-outs race,
uploads and downloads are made of many requests, objects are changed while a
request that holds them waits, and listings change under the generator that
walks them. A unit test reaches few of these orders.

All paths below are relative to `src/packages`.

## 1. Inventory

| component | state it keeps | operations | talks to | hard behaviour | what makes it correct |
|---|---|---|---|---|---|
| **connector** (`connector/src/connection.ts`), with the segment of **cache** that it uses | per connector: credentials, token and expiry, memoized cache key, generation, the pending fetch; shared: `connectionJson`, a segment of the Catalyst Cache | `getConnector`, five setters, `getAccessToken`, `generateAccessToken`, `refreshAccessToken`, `refreshAndPersistToken`, `putAccessTokenInCache` | the token endpoint and the cache, over HTTP | a setter between two awaits of a fetch; callers joining a fetch; overlapping writes of the cache; migration of an old entry | no token is kept or served under credentials it was not granted to |
| **datastreams client** (`datastreams/src/web-socket.ts`) | sockets, three timers, session ids, position in the stream, flags | connect, renew after 27 minutes, `switch-url`, key-mismatch fallback, `subscribe`, `unsubscribe`, `sendAck`, `close` | the message server; the application's listeners | events of a replaced socket, timers that outlive a connection, acknowledgements lost in a renewal | one live connection, events given once and in order, the stream goes on |
| **popup sign-in, stored token** (`auth/src/internal/popup-manager.ts`, `token-manager.ts`, `auth-client/src/utils/idb-token.ts`) | the popup operation with its listener, poll and timeout; the epoch; a token in IndexedDB under the key of each project | `signInViaPopup`, `signOutViaPopup`, `setTokenStorage`, `revokeStoredAccessToken`, `clearTokenStorage` | popup windows by `postMessage`, IndexedDB; `transport` reads the token | a write that ends after its sign-in, or overlaps a sign-out; several sign-outs; a project that is set between a write and a deletion | no token survives a sign-out, no window is orphaned, each call is answered |
| **transport, Node** (`transport/src/http-handler.ts`, `utils/form-data.ts`, `utils/clonable-stream.ts`) | the promise and the attempts of a call, the form's queue, the clones of a stream | `HttpClient.send`, `AuthorizedHttpClient.send`, `_request`, `FormData.pipe`, `createClone` | credentials, sockets, streams | failures before, within and after a body; retries; back pressure | what resolves was stored whole; a call's effect is bounded; each call settles |
| **auth-admin** (`auth-admin/src/credential.ts`, `index.ts`) | the default options of the process, credentials with their user and cached token | `init`, `getDefaultCredentials`, `switchUser`, `getToken`, `authenticateRequest` | the accounts server | concurrent refreshes; apps that share a credential; a switch between two looks at the scope | a request carries one user's credentials, and a token that is good |
| **auth-client** (`auth-client/src/index.ts`, `utils/session.ts`, `config-store.ts`) | configuration, the fetch in flight, session version, the record of the cookie | `getCredentials`, `syncProjectSession` | the SDK init endpoint, storage, cookies | callers that share a fetch; a project that changes | a session of another project is never used |
| **auth, browser** (`auth/src/web.ts`, `internal/iframe-*.ts`) | the instance's project, the login iframe, the sign-in button, where the page goes | `init`, `signIn`, `hostedSignIn`, `signinWithJwt`, `signOut` | all of the above and below | calls that overlap the constructor's fetch; a sign-out that resets the configuration | sign-in names a project; the button is always served; each call is answered |
| **transport, browser** (`transport/src/fetch-handler.ts`) | none of its own | `send` | IndexedDB, session, configuration | the token is read while others replace or delete it | each request ends; without a token that was good when it was read none leaves under OAuth |
| **stratus authorisation** (`stratus/src/utils`) | tokens in memory and cookie, signatures shared by all instances, with their ends | `getJWTAccessToken`, `getBucketSignature` | the session, the signature endpoint | renewals that overlap, a session that changes or is not known yet, a clock | no token of another project, no expired signature |
| **stratus transfers** (`stratus/src/transfer-manager`) | the list of part promises, loops over the data, retries | `putObjectAsParts`, `generatePartDownloaders`, `getIterableObject` | the bucket's requests, streams | races over a growing list, overlapping 'readable' handlers, partial failure, an object that is overwritten | an object is completed whole or not at all; the parts of a download make up the object |
| **stratus buckets** (`stratus/src/bucket.ts`, `object.ts`), **datastore** | the place of a generator; else none | the methods that change a bucket or a table; three paged generators; bulk jobs | transport | what is listed changes between two pages | what stays is yielded once |
| **nosql** (`nosql/src`) | the attributes of an item | adders, getters, marshalling, `insertItems`, `updateItems` | transport | nested values, sets, bytes, numbers past 2^53; an item that changes while its request waits | what is read is what was written |
| **job-scheduling** (`job-scheduling/src/job.ts`, `cron.ts`) | it writes into its caller's `job_meta` | `submitJob`, `deleteJob`, the calls on a cron | transport | one object in several calls | a job is sent as a job |
| **push notifications** (`push-notification/src/index.browser.ts`) | state, retry count, timers; shared: a script element, a handler | `enableNotification`, `retry` | a script and its globals | chains of retries, several instances | a client that is ready stays so; retries end |
| **REST clients** (circuit, connections, functions, mail, pipelines, quick-ml, smartbrowz, zia, user management, the servers' halves of push notifications and datastreams) | none | one request per method | transport | none of their own | - |
| **utils** | log level | checks, errors, logging | - | none | - |

The browser's parts meet in the configuration (`ConfigStore`), the page's
storage and its cookies: `init()` of auth calls `getCredentials()` of
auth-client, which changes the protocol that the next request of transport
follows and drops the token that stratus keeps. On Node every service calls
`AuthorizedHttpClient.send()`, which asks its app's credential for headers and
then hands the request to `_request()`. The services have no state in common.

`PROJECT.json` lists every component with its sources, and under `hazards`
things in this code that are hard to test, at their lines, with the property that
would catch them or the reason why none does.

## 2. Plan

Done, in this order: `Connector`, `DataStreams`, `PopupAuth`, `TransferManager`
with its abstract specification `AtomicUpload`; the Node transport composed with
its credentials (`NodeClient`); the browser's session, requests, sign-in and
Stratus token composed (`BrowserClient`); the services (`Services`); then the proofs, one
module for each of these: every safety property that a run checks is a theorem, but
for `RoundTrip`; last, what a caller of `getAccessToken()` and a listener of the datastreams
client may rely on, as the abstract specifications `TokenService` and `EventDelivery`,
which `Connector` and `DataStreams` are proved to implement.

Next, were the project to go on:

1. An abstract specification of a stored sign-in, implemented by `PopupAuth` and by
   `BrowserSession`.
2. How often an event may come again on Node and after a key mismatch, where
   `NothingSkipped` is all that is stated.
3. Subscriptions from an earlier place of the stream in `DataStreams`.

## 3. The modules

Conventions: an action is the stretch of an async function between two awaits,
an event handler, or a timer's callback, since JavaScript runs each of these to
its end. An operator whose comment begins with `Mutant:` is no part of a
specification: it is the form a bug of the code would take, kept to show that a
property can fail. Requests, servers, the browser, the application and the user
are external and may do whatever the code's handlers expect of them. A method
that changes nothing, in the SDK or at the server, is no action.

```
NodeClient ── HttpRequest                  BrowserClient ── WebAuth ── FetchRequest ── BrowserSession
    └── AppCredentials (INSTANCE)                 └── StratusToken ───────────────────── BrowserSession

Services ── NoSqlTable ── NoSqlValues      PopupAuth
    ├── StratusBucket ── Listings          Connector ⇒ TokenService
    ├── DatastoreTable ── Listings         DataStreams ⇒ EventDelivery
    │                                      TransferManager ⇒ AtomicUpload
    └── BucketAccess, PartDownload, JobScheduling, PushNotification
```

### Connector, TokenService, ConnectorProofs, MCConnector

Per connector: `config` (the fields that have a setter), `gen`
(`_configGeneration`), `memo` (`_connectionName`), `token`, and `task`, one async
call per slot with the program counter `pc` of its next await. The slot
"pending" is `_pendingToken`, which callers of `getAccessToken()` join;
`Ops` are overlapping calls of the other public methods. `cache` is the shared
segment under hashed keys and `legacy` its entry under the pre-hash key. A
token is represented by the configuration whose credentials obtained it and
its expiry, so that "belongs to" can be stated. Continuations compare `gen` as
the code does (`ConfigChanged`) and start over; the cache write goes under the
key captured before its await.

Properties. `MemoryMatchesConfig`: the token in memory was granted to the
fields as they are now. `CacheMatchesKey`: the entry under a key was
granted to a configuration with that key. `ServedWithinFetch`: a caller is
served a token of a configuration the connector held since the fetch it
joined began. `CallsSettle`: each caller is answered. `ServesCallers`: `Connector` implements
`TokenService`.

`TokenService` is `getAccessToken()` as its callers see it, without cache, requests,
generations or overlapping methods: a connector has a configuration, perhaps a token of it,
and perhaps a fetch, of which it only knows the configurations held since it began. A caller is
served from memory (`Serve`) or joins the fetch (`Ask`), whose end (`Answer`) gives all that
joined the same token of one of those configurations, or none; in between the connector
is reconfigured (`Reconfigure`), which extends a fetch that runs. In the refinement
`fetch` is the window of the call in slot "pending", none when that slot is idle, and
a caller is its record without the model's bookkeeping; the `finally()` of
`_pendingToken` is `Answer`, and everything else that the connector does is
`Reconfigure` or a stutter. What could fail is that two fetches serve the callers of one, that a restart
after a setter loses those who wait, that a late continuation hands out what no
configuration of the window granted, or that a setter of one instance reaches another.

Abstractions: encryption is whether the reader has the writer's secret key (`Encrypted`, `Decrypts`);
the hash gives every configuration a key of its own (`KeysDistinct`); the
deduction of 15 minutes is in `Lifetimes`.

### DataStreams, EventDelivery, DataStreamsProofs, MCDataStreams

`state` is the `readyState` of each socket in the order of construction;
`conn`, `isOpen`, `ackSent`, `reconnect`, `last`, `attempts`, `timers` and `gap`
are the fields of the client, shared by the handlers of *all* sockets, as in
the code. `pending` counts constructions that wait for `import('ws')`.
`inbox` and `outbox` are the messages on their way. `Node` distinguishes the
package ws, which is imported before each construction and still
delivers while it closes, from the browser's socket. A frame of several messages
is those messages one after the other. `leave` remembers `unsubscribe()` and a
later `subscribe()`, `Leaving` the sockets on which the first may be called.

Properties. `OneLivePerFallback`: a second live connection exists only after the
single key-mismatch fallback. `NothingSkipped`: an event reaches the application only if all
before it did, which holds with sockets that deliver while they close and with two
connections at once, both of which feed `last` and `ackSent`: such connections repeat
events (the reason why `AckedOnce` is not claimed for them), but the test against the latest id
and the acknowledgement of the client's own never carry the stream past an event
that nobody was given. `AckedOnce`: an acknowledged event is never given again.
`DeliversInOrder`: the client implements `EventDelivery`, in which an event is given after the
one before was acknowledged, again at most until its own acknowledgement is
sent, and acknowledged only once given; `progress` is the refinement's one variable.
`OneAtATime`, which follows, is stated for the theorem that it has. `StreamContinues`: after `sendAck()` the next event comes, unless the application unsubscribed.

Two more facts of the code are not properties, since each is one step deep: `close()`
during the 50 ms of a renewal is followed by a new connection, because that
timeout is not kept (web-socket.ts:646); and a `switch-url` message that
arrives before the authentication closes the connection and opens none
(web-socket.ts:557).

### PopupAuth, PopupAuthProofs, MCPopupAuth

`op` is `#popupAuthOperation`, named by its sign-in; `promise` what
`signInViaPopup()` returned; `write` the IndexedDB operation behind
`setTokenStorage()` with the epoch it captured in `began` and the key in `slot`; `idb` the
token under the key of each project and of none, `project` the `PROJECT_ID` that
`getCredentials()` may set at any time (`ProjectSet`); `out` the steps of a
sign-out; `reader` a request of `transport` that reads the token and
deletes an expired one. A write takes its key when it is called (`Store`), while a read and a
deletion take that of the moment their transaction runs, as idb-token.ts:66, 71 and 80 do. The listener, poll and timeout need no variable: they
are set and cleared together with `op`.

Properties. `NoTokenAfterSignOut`: a token whose write began before a sign-out
counted the epoch is deleted or about to be, whichever operations overlap. The exception
is a key in `missed`: its token stayed because IndexedDB refused a deletion, or because the deletion
ran when another project was set and so deleted another key. `DropsItsToken`, which the code violates,
says that a deletion is of the token it is for. `NoOrphanPopup`: an open window belongs to the current
operation. `ClearedIsSettled`: an operation is cleared only when its own
promise settles. `SignInSettles`: each sign-in is answered.

`StaleWritesFail` says whether a write may fail after its sign-in was closed.
The code allows it and then breaks `ClearedIsSettled`; the pass run and the theorem
show that this is the only way.

### TransferManager, AtomicUpload, TransferProofs, MCTransferManager

One call of `putObjectAsParts()`. `loop` are the loops that read: one for a Blob
or a ReadableStream, one per 'readable' event of a Node stream, which may
overlap. `part` are the promises; `raced` and `winner` model `Promise.race()`: the
first settled part in list order if there is one, else the next to settle.
`watched` is how many parts' rejections have a handler, and `unhandled` records
one that had none. `finish` is the tail: `Promise.all()`, `completeUpload()`,
`getUploadSummary()`.

`AtomicUpload` is the promise of the operation: the object appears whole or not
at all, and the call resolves only when it is there. `TransferManager`
implements it with `object` mapped to `Object`: absent before the commit, and
then whole if every part was stored and torn if not. `UploadSettles`: the
call settles, or the process meets a rejection nobody handles, which ends Node.

A Buffer or Uint8Array is accepted by the type of `data` and by no branch of the code: no part is sent
and the summary of an empty upload is returned. TLC finds `AtomicPut` violated in
three steps with `Sources = {"buffer"}`; the runs and the theorems leave this source out.

### NodeClient: AppCredentials, HttpRequest, NodeProofs, MCNodeClient

`AppCredentials` is auth-admin as a request meets it. `options` is the
module-level `appOptions`, `creds` every credential object that `init()` made,
with the class that decides how it authenticates and the user that the headers
name; `apps` and `named` are the apps and `#appCollection`; `wrapped` the
credential that `init()` leaves in its caller's option object, so that two apps
of one object share it. A call of `send()` looks at the scope, waits for an
access token (`refreshing`), looks at the scope again for its headers
(`authenticated`) and is then `sent`. `crossed` remembers that somebody switched
the user of that credential in between.

`HttpRequest` is one promise per call and up to `Threshold + 1` attempts. `left` is what
the form or stream of the attempt still holds, `paused` the request's back
pressure, `source` the caller's stream and `clones` the readers that its
`CloneableStream` counts. The network or the server may end an attempt wherever the code has a
handler: while it is sent, before the answer, within the body. `stored` and
`torn` are the server's: how often it accepted all of the data or a part.

`NodeClient` composes them: `SendRequest` leaves one and enters the other. Properties.
`ResolvedIsStored`: a call that resolves has an attempt that stored all of the
data, and none that stored a part. `EffectsBounded`: a form or stream reaches the
server once at most, other data once per attempt. `HeadersAgree`: token and user header name the
same user unless a switch, by `switchUser()` or by a component without an app, came between the
two looks at the scope, which is the case that the code does not guard. `TokenAge`: no call gets an access token that
is older than its life and the time of its answer, in whatever order answers come.
`CallSettles`: each call ends, but for two silent endings of the code, which
the property names: a connection lost within a response body, and a stream's error that
no listener hears. The request for an access token is one step that ends: its own handler
(credential.ts:164-184) settles on 'end' and on an error of the request only, so that an answer cut within
its body leaves the call waiting for ever, which the fairness of `Refreshed` and `RefreshFails` assumes away.

Node's sockets, the pool of agents, URLs, headers of parts, the resolution of
domains and of the credentials file are abstracted.

### BrowserClient: BrowserSession, FetchRequest, WebAuth, StratusToken, BrowserProofs, MCBrowserClient

One page. `BrowserSession` is what the parts share: `store` is `ConfigStore`,
`flight` is `_credentialsPromise` with those who wait in `caller`, `fetches` the
requests behind it; `context`, `version`, `cookie` and `marker` are the project of
the last session, the session version, the Stratus cookie with its true end,
and the recorded end; `idb` is the OAuth token of each project. `FetchRequest` is
`send()`: the headers of the protocol at hand, the fetch and its answer. Under OAuth the
stored token is read in one step (`FollowOAuth`), judged in a later one (`TokenRead`), and deleted in
a third if it has expired (`Purge`), since the code awaits between them; the clock, other tabs and sign-ins
may come between any two, and between the judgement and the server. `WebAuth` has the public methods cut at
their awaits, `act`; `auth` are the instance's fields; `frame`, `button` and
`page` what the user sees and where the page goes, each with the project its
URL names. `StratusToken` is `getJWTAccessToken()`: memory, then the cookie, a popup's
token or the two requests of a new one.

Properties. `SignInNamesProject`: no sign-in page names the project
`undefined`. `ButtonIsServed`: a button has one call behind it and a disabled one a popup, so
that the user can always retry.
`TokenOfSession`: a call for a Stratus token gets one of a project that the session had since
the call began, however calls, handlers, buckets and sessions follow each other. The one exception is
`overtaken`, the projects for which a token was being made when the session last changed: such a token
reaches memory and cookie after the switch, and the next switch ends that. A call may begin before
`/sdk/init` has answered; its session is then the one that the page last had (`OfSession`), whose cookie it
takes, and nothing tells it that the answer names another project. `NeverThePrevious` is the property
without the exception.
`TokenNotExpired`: that token is good and, when the cookie's end is recorded,
has the margin to spare. `ActsSettle` and `WaitersSettle`: calls are answered.

`send()` passes on neither retry, signal nor timeout, and nothing calls
`fireRawRequest()`; what only those reach is left out, the branch that sends again
(fetch-handler.ts:170-180) with it, so that each request is fetched once by the shape of the code.

The popup of a sign-in is one step here, `PopupAuth` has its inside. A page that
is left may run on until it is gone.

### Services, ServicesProofs, BucketAccessProofs, MCServices

The services share nothing, so a behaviour of `Services` is one of one service,
chosen by `service`, while the others rest. A service that the proofs treat has a
specification of its own (`ObjectsSpec`, `RowsSpec`, `DownloadSpec`, `JobSpec`, `PushSpec`,
`AccessSpec`) with the next-state relation that `Services` takes.

- `NoSqlValues` has the conversions of nosql as functions on values:
  `Make` (marshalling with its options), `MakeNative`, the typed adders, sets,
  bytes. A number stands for its class, bytes for what they hold and for how a typed array
  relates to its ArrayBuffer. It is recursive over containers, as the code is. `NoSqlTable` fills an
  item by any adder, writes it, reads it back, writes what was read; the request
  holds the item itself. `RoundTrip`: what is read, by `get()` or the typed
  getter, reads as the value that was given, over any number of writings.
  `ReadsAs` is the reference: element by element, with what the code documents
  as different (numbers beyond 2^53 as bigint, class instances as maps), and two faults of the code as
  they are: a typed array that shows a part of its ArrayBuffer comes back as all of it (`BytesKept`), and a value
  that contains a set with NaN or a number from 1e21 is stored and then throws when it is read
  (`Unreadable`). `BytesAsGiven` and `Readable` are the properties without these two, which the code violates.
- `StratusBucket` and `DatastoreTable` have the methods that change a bucket or a
  table; `Listings` the generators over objects, versions and rows with their
  page and token. `StableListed`: a generator that began at the beginning
  with options of its own yields nothing twice, and all that was there throughout.
- `BucketAccess` is how a request gets its access: the cache of signatures, which
  all instances share, the choice between signature, token, session or none, and
  messages that take time. `SignedInTime`: a signed request is under way only
  while the server accepts its signature.
- `PartDownload`: `PartsWhole`: if no overwriting came between, the parts are
  disjoint, in order, and cover the object, whatever was retried.
- `JobScheduling`: `JobIsApi`: a submitted job is sent as one of the API, and what the
  server has was sent as a job or a cron.
- `PushNotification`: `ReadyStays`: a client that is ready is never made
  anything else, by retries or other chains. `RetriesEnd`: each client comes to rest.

## 4. The runs

| run | instance | shows |
|---|---|---|
| `connector` | one connector, two callers, one overlapping call, one setter call, an old cache entry | tokens match, `TokenService` is implemented, calls settle |
| `connector_shared` | two connectors, one created late, one with a secret key | the inductive invariant of the proof, for the shared cache |
| `streams` | ws, two sockets, two hosts, two events, one notice, one lost connection, `close()`, `unsubscribe()` | one live connection per fallback, no event skipped |
| `streams_order` | browser socket, three sockets (two renewals), two events | `EventDelivery` is implemented, no repetition, and progress, if the application acknowledges while connected |
| `popup` | two sign-ins, a sign-out, one request, two projects and none set before | all properties of `PopupAuth` |
| `popup_stale` | a write fails after its sign-in was closed | the next sign-in is cleared and never answered (a violation) |
| `transfer` | four chunks, limit two, two handlers | atomic, settles |
| `node` | one call, three attempts, five kinds of request, two apps of any credential | the request's outcome and effects, settlement |
| `node_shared` | two calls, two apps that may share a credential, tokens of life 1 | headers agree, tokens are young |
| `browser` | two calls of any method beside the constructor's, a second tab, a JWT sign-in, one project | sign-in, button, settlement |
| `browser_tokens` | two calls for a token of one handler, a first session and one that left its project recorded, two projects, two fetches, a popup, three ticks | tokens of the session, not expired, waiters settle |
| `services` | see below | one property or two of each service |

Bounds, and why they suffice. `MaxGen` bounds the setters: the code compares
generations only for equality, one change distinguishes all its branches, and the proof
covers any number. `MaxNow` = 1 lets a connector's token of lifetime 1 expire. In `streams_order`, `MaxSockets` = 3
allows two replacements, so that a socket can be overtaken by its successor's
successor; in `streams`, two sockets are a connection and the one that replaces it, is opened
beside it, or overtakes it while it closes; a third, and a second notice, are left to the theorems
`OneLive` and `NothingIsSkipped`, which hold for any number.
`MaxEvent` = 2 is one event before and one after each renewal. `streams_order` has `Leaving = {}`: with an
unsubscription and three sockets its space is beyond a short run; its properties hold with two sockets and `Leaving = {1, 2}`. Two sign-ins are enough for
one to be overtaken by the next. One sign-out can fall anywhere in the write of either, and a second project, beside none
that is set yet, makes a deletion miss the key of a write; a second sign-out is left to the theorem `SignOutForgets`. Four chunks with limit two race three times, twice after a part has settled.

`Threshold` = 2 gives an attempt before, at and after the first retry: later
ones repeat the second. The kinds of request have a form with a stream between texts, one of text only, a raw
stream, and data that is JSON with either expectation of the answer. `MaxApps` = 2 is what sharing takes. The
headers are those of a user with a token, of an administrator and of no project.
In `node_shared`, `MaxNow` = 3 lets a token be asked for, expire and be
overtaken by a later answer. Two calls and one caller more are enough in `browser` for a call to
join a fetch, to come after it failed, or to overlap a sign-out; the second
project belongs to `browser_tokens`, where the session may change at each
await of a call and the cookie, of life 2 and margin 1, may be fresh, near its end and ended
at three ticks; one handler is enough for a call that finds in memory what another put there, and several
are left to the theorem `TokensFollowSession`. In `services`: thirty values, of every kind that marshalling tells apart, with
a buffer, a typed array that is whole, one that shows a part, and one of 64 bits, numbers of every class, sets of one
kind, of mixed kinds, with undefined, with NaN and with what has an exponent, in containers up to depth two, over two writes; three keys, two versions and four rows with pages of
two, so that there is a full page, a partial one and an empty one; two
requests and a signature of life 3 with margin and latency 1; objects of up to three
bytes in parts of two or three, overwritten once; two calls on two job objects; one client of the page
with two attempts and two calls of its user.

`CHECK_DEADLOCK FALSE` stands only where the system really stops: a
closed connection, a finished set of calls, a settled upload, a page that is left.

Fairness. `Connector`: each request and cache operation ends, with an answer or a
failure, and continuations run; the connector has no timeout, so that a request that never ends would leave its callers waiting,
which `CallsSettle` does not cover. `DataStreams`: what is due runs, the
network and the server answer, the application acknowledges, and does so while connected (`AckWhenOpen`), which leaves out
the acknowledgement that a closed socket drops; nothing forces
a renewal, a failure, a notice, or a second authentication of a resumed
session. `PopupAuth`: only the timeout of a sign-in and the end of a token's
write; the user owes nothing. `TransferManager`: each part's request
ends, the tail runs, and a Node stream with data left says so. `read()` of such a
stream may answer null while its buffer is short of a part, and the next handler asks
again: strong fairness of `ReadParts` says that it is not null for ever. `NodeClient`:
the wait for a token ends (an answer of the accounts server that is cut within its body would not end it, see `NodeClient`), a stream ends or fails, a drained request
says so, and an attempt is answered or fails somewhere. `BrowserClient`: the network answers or
fails and tasks that are due run; the user, the other tab and the clock owe nothing.
`Services`: only attempts at a push connection proceed and timers fire.

Every property of a passing run has a mutant in `PROJECT.json`: a change of one
mapped definition, of a kind that a maintainer could make, under which TLC finds the property violated.

## 5. What is proved

For every value of the constants, checked by tlapm.

- `ConnectorProofs`: `TypeCorrect`, `InvariantHolds` (`IInv`) and, from it,
  `MemoryIsCurrent` (`MemoryMatchesConfig`), `CacheIsCoherent` (`CacheMatchesKey`),
  `CallersGetTokensOfFetch` (`ServedWithinFetch`) and `ConnectorServesCallers`
  (`ServesCallers`, the refinement of `TokenService`). None of them is inductive. `IInv`
  adds: the memoized key is that of the current fields (`MemoIsCurrent`); a call whose
  generation is still current sent the current fields and looked up their key
  (`RequestIsPinned`); what is on its way to the cache belongs to its key
  (`WriteIsCoherent`); the configurations since a fetch began include the current one
  and those of the tokens that it holds, and only a fetch runs in that slot
  (`WindowCoversFetch`); who waits, waits for a fetch that is running (`NobodyStranded`), without
  which a later fetch would answer callers that never joined it; unborn connectors are idle; and the pre-hash
  entry is safe. Assumed: `KeysDistinct`, since the code's 20-bit hash
  (connection.ts:207) separates configurations only with high probability, and
  `LegacyOnlyFromStart`: a pre-hash entry stems from the initial configuration
  and no connector is created late. Without the latter the invariant is false: a connector made
  by `getConnector()` after another's setter patched `connectionJson` has
  generation 0 and the new fields, so it trusts the old entry
  (connection.ts:348) and writes its token under the new key. The refinement goes
  action by action: `SettleAnswers` for the end of a fetch, `GetServes` for a caller,
  `AssignReconfigures` and `TokenReconfigures` for what changes fields or the token in memory,
  each from the fact that the slot "pending" is idle after the step exactly if it was before
  (`GoesOn`).
- `DataStreamsProofs`: `DataStreamsTypeCorrect`, `OneLive` (`OneLivePerFallback`),
  `NothingIsSkipped` (`NothingSkipped`), `EventsOneAtATime` (`OneAtATime`), `EventsAckedOnce`
  (`AckedOnce`) and `StreamIsDelivered` (`DeliversInOrder`, the refinement of `EventDelivery`), for any number of
  sockets, events, notices and losses. `LiveInv`, which needs no assumption, counts
  places: the live sockets, the constructions under way and the renewals that wait are
  together no more than one and the fallbacks; counting only the sockets is not
  inductive, as two pending constructions show. `GiveInv`, which needs none either and is
  what `NothingSkipped` rests on, says of every socket, live or not, that what it has on its way to
  the server acknowledges only events that the application was given, and that an event on its way
  to the client is at most the one after the last that the server saw acknowledged; it asks
  for no order within a socket or between two, so that a second connection or a
  closing one that delivers does not matter. `StreamInv` follows an event from the
  server to the application: what is in a socket's inbox is in order and goes on where
  `last` ends, `progress` is what `last` and the acknowledgement tell, the server is at
  most one event behind, and the one live socket is the current one. It assumes `InOrder`: not the package ws, whose socket delivers
  while it closes, and no key-mismatch notice, whose second connection repeats what the
  first one is sending. On Node, and with such a notice, `NothingSkipped` is what remains of
  the three. The refinement follows from `StreamInv` and the two theorems: a data
  event is `Give` or an answer of the client's own, `sendAck()` is `Acknowledge`, and no other step
  touches `progress`.
- `PopupAuthProofs`: `TypeCorrect`, `SignOutForgets` (`NoTokenAfterSignOut`),
  `PopupsAreOwned` (`NoOrphanPopup`), and `CleanupSettles`
  (`ClearedIsSettled`, assuming `~StaleWritesFail`), for any number of projects and switches between them. The invariant adds that the sign-in of the
  current operation still waits, without which a cleanup could clear an operation already
  answered and a promise could be lost.
- `TransferProofs`: `TypeCorrect` and `UploadIsAtomic`: `TransferManager` implements `AtomicUpload`,
  assuming the data is no Buffer. The invariant says which parts were started,
  that a Blob or ReadableStream has one loop and the tail begins after it, and
  what each stage of the tail has established, among it that `Promise.all()` is
  given the whole list (`watched = N`); each step is then a
  commit, a resolution, a failure or a stutter of `AtomicUpload`.
- `BucketAccessProofs`: `AccessTypeCorrect` and `SignedInTimeAlways`
  (`SignedInTime`), for any number of requests, any life of a signature and any bound
  of the clock. Assumed: a message takes no longer than the margin of five minutes
  that the cache keeps (`Latency <= Margin`), and a new signature outlives its own answer and its
  use (`Latency + Latency < Life`). The invariant says what each place
  owes the next: the cached signature is dropped `Margin` before its end, one
  on its way from the server has lost at most the age of its message, and a signed request
  can still be under way for `Latency`. An older answer that replaces a newer one keeps all
  three, which is why the order of renewals does not matter.
- `NodeProofs`: of `HttpRequest`, `ResolvedStores` (`ResolvedIsStored`) and
  `EffectsStayBounded` (`EffectsBounded`), for every retry threshold. The invariant says of
  each call what the phase of its attempt has established: that its effects are no more than
  its attempts, and one unless it is JSON; that a torn upload has rejected; and that an answer
  that is read follows data that was stored, unless the call has rejected. Of the composition, `NodeImplementsParts`: `NodeSpec` implements
  `HttpRequest` and `AppCredentials`, each step of it being one of the one and a stutter of
  the other; and `NodeTypeCorrect` (`NodeTypeOK`), `HeadersAlwaysAgree` (`HeadersAgree`),
  `TokensAreYoung` (`TokenAge`). Their invariant
  says which scope a credential of each class and history has, which of them a call with half
  of its headers used, which classes wait for an access token and how long, and how long after its issue a
  cached token may still be used. Assumed of the constants: their types, which code and
  headers give (`RequestAssumption`, `CredentialAssumption`).
- `BrowserProofs`: `BrowserTypeCorrect`, `SignInHasProject` (`SignInNamesProject`),
  `ButtonAlwaysServed` (`ButtonIsServed`),
  `TokensFollowSession` (`TokenOfSession`) and
  `TokensAreGood` (`TokenNotExpired`), for any number of calls, requests,
  projects and clients of a bucket. `BrowserInv` is one invariant for each part: a caller whose wait for
  the credentials resolved finds a project; a sign-in that goes on, and a frame that is
  shown, have copied it; memory, cookie and a token that is being made belong to the
  session's project, or to one of those in `overtaken`; before the configuration is known there is nothing in memory, and
  a cookie belongs to the context that the last session left; what a session may be, a call that is under way has seen; a
  recorded end is the cookie's. The last two theorems are about steps: no step ends a call with a token
  of a project it has not seen, nor with one whose time is over. Assumed: `BrowserAssumption`,
  the types of the constants and that acts are callers and requests of their own.
- `ServicesProofs`: `ObjectsListedOnce` and `RowsListedOnce` (`StableListed`): the
  invariant says of a generator with options of its own that what it yielded lies before its
  place, that its page is the next stretch of the listing then, and that whatever was there
  all the time is yielded, in the page or behind it. `PartsAreWhole` (`PartsWhole`):
  the parts' ranges tile the object. `StartOf` is a recursive function; the proof gives
  the closed form `EndOf`, which satisfies its equation, and shows that any solution is
  equal to it, by the least part where they would differ (`MinOf`, from the library's
  theorem that proper inclusion of finite sets is well-founded), which replaces an induction. `JobsAreOfTheApi`
  (`JobIsApi`), and `ReadyClientsStay` (`ReadyStays`): a client has one attempt at most, and is initializing
  as long as it has. Assumed: finite sets of keys,
  versions and rows, which are numbered (`ListingAssumption`), parts of at least one byte
  (`DownloadAssumption`), and a name for no client (`PushAssumption`).

TLC evaluates the named assumptions on constants in every run; the premises of single
theorems (`KeysDistinct`, `LegacyOnlyFromStart`, `InOrder`, `~StaleWritesFail`, no Buffer) hold
in the passing runs that check their properties.

Only model-checked: all liveness (`CallsSettle`, `StreamContinues`,
`SignInSettles`, `UploadSettles`, `CallSettles`, `ActsSettle`, `WaitersSettle`,
`RetriesEnd`), which the prover does not reach; and `RoundTrip`, since `NoSqlValues` is
recursive over data, which it does not reach either. `Services` extends that module, so that
the proofs are about the specification of each service and not about their union,
whose steps are the same.

## 6. What the checks found

Only `popup_stale` is kept as a run that fails. The other properties named here are
stated in their modules, commented as what the code violates, and TLC violates each in the instance
that the finding in `PROJECT.json` describes.

1. popup-manager.ts:198: the catch of a closed sign-in clears the next one, against the
   comment at lines 58-59 (`ClearedIsSettled`).
2. connection.ts:454: a caller who asks after a setter ran may be served the
   old configuration's token, against the comment at line 171 (`NeverServedStale`).
3. web-socket.ts:704: `sendAck()` during a renewal is dropped for good and the
   stream stops (`StreamContinues` with `AckWhenOpen = FALSE`). It rests on the server not authenticating a resumed
   session again and sending nothing unasked.
4. web-socket.ts:239: the close event of a replaced socket marks the client closed (`OpenIsConnected`);
   web-socket.ts:215: a renewed connection resumes what was unsubscribed (`StaysUnsubscribed`).
5. transfer-manager/index.ts:125: the concurrency limit holds only until the first part settles (`LimitKept`).
6. auth-admin/src/index.ts:408: an app of type custom sends no credentials (`SentWithCredentials`);
   credential.ts:462: the default scope is not the one the README of auth names.
7. web.ts:417: `hostedSignIn()` never waits for the configuration (`HostedAfterCredentials`).
8. auth-client/src/index.ts:112: a refusal of storage leaves a rejected promise for all later callers (`FailureIsForgotten`).
9. jwt-auth-handler.ts:127: a token made while the session changes its project is kept, and a call made before the configuration
   is known takes the last session's cookie (`NeverThePrevious`).
10. nosql marshalling: `removeUndefinedValues` tests the wrong variable (`RemovesUndefined`); bytes and
    bigints that were read cannot be written again (`WritableAgain`); `getBoolean()` throws for a missing attribute;
    byte.ts:87: of a typed array that shows a part of an ArrayBuffer all of it is written (`BytesAsGiven`); set.ts:61: NaN and
    numbers from 1e21 are written in sets that then cannot be read (`Readable`); a byte set takes anything (set.ts:132).
11. http-handler.ts:473: an object is turned into JSON after the awaits, so later changes of it are sent
    (`SentAsCalled`), and a cron may be sent as a job (`CronIsCron`).
12. bucket.ts:666: the generator keeps its place in its caller's options (`AllListed`); bucket.ts:931 and 1139: an
    admin's version id is dropped, and `throwErr` too (`ThrowErrHonoured`).
13. transfer-manager/index.ts: a part's version is ignored (`VersionAsked`), its retries reach nobody
    (`NoUnhandled`), and `getIterableObject()` never settles.
14. index.browser.ts:176: a script element that failed stays and counts as loaded (`InjectedIsLoaded`).
15. datastore table.ts:269: the numbers that the types of `deleteRow()` and `getRow()` allow are refused.
16. token-manager.ts:120, idb-token.ts:80: a deletion under the key of the project set by then passes by the token
    written under another key (`DropsItsToken`).

Remarks too small for a finding: `#loadOptionsFromEnvVar` of auth-admin tests the negation of the project id,
so that it always answers `{}`; `isNonNullObject(jobMeta, 'job_meta, true')` of job.ts lacks a quote and so its
third argument; nosql's `deleteItems()` counts UTF-16 units for Content-Length; `generateAuthToken()`
of the Stratus token reads the ZAID after an await.

## 7. What is not modelled

- The REST clients named in the inventory, in both their browser and server
  forms: one stateless request per method, whose sending is `NodeClient` and `BrowserClient`. Of cache, only the
  three requests that the connector makes; of job-scheduling, pools and listings are left out.
- Markup, styles, texts, redirects' URLs beyond the project they name, logging and argument
  checks, which change nothing that the properties speak of; `utils` is made of these.
- In the modelled components: `subscribe()` of the datastreams client from an earlier place of the
  stream; the checks of origin and event id of a popup's messages and the exchange
  of remote authentication data; APM tracking, agents and timeouts of sockets on Node; encodings of
  bodies in the browser; methods that only read.
- Hazards that no property covers, beside those in `PROJECT.json` that say why: the 20-bit hash of the cache key, which is an
  assumption of the proof; `switch-url` before the authentication; a popup closed while its token is being written
  (the caller is told it was cancelled, though the token may be stored);
  a sign-out's late deletion, which has no epoch and may drop a newer sign-in's token (token-manager.ts:120), and so may
  the purge of an expired token by a request (fetch-handler.ts:415); the rejection of a part
  that nobody has looked at yet (transfer-manager/index.ts:180), which ends Node and which `UploadSettles`
  allows; the protocol of a JWT sign-in, which a later `init()` resets; another tab that records another project in the
storage they share, which this page's next answer of `/sdk/init` compares with its own.
