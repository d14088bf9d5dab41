# Verification of Aura Wellness

TLA+ models of the multi-tenant platform in this repository: a Next.js frontend
with a custom WebSocket server, a .NET backend with its own PostgreSQL database,
and a Go chat service with a second database and Redis. The models cover what
the unit and end-to-end tests of the repository hardly reach: requests that
interleave between two SQL statements, calls between the services that fail or
lose their answer, crashes, and messages that arrive by three paths at once.

`PROJECT.json` lists the components, the runs, the mutants that show each
property can fail, the source lines behind each definition, the hazards and the
theorems. Run a model with `tlc -config <cfg> <MC module>`, a proof with
`tlapm <module>`.

## 1. The system

| Part | State | Operations | Interacts with |
|---|---|---|---|
| Conversations (`conversation_service.go`, `conversation_repo.go`) | `chat_conversations`, `chat_conversation_participants` | get-or-create group, get-or-create DM, list, participants | called by the backend over gRPC and by a WebSocket session |
| Workspaces and members (`workspace_service.go`, `member_repo.go`) | `chat_workspaces`, `chat_workspace_members` | create, add (upsert), update access, look up | called by onboarding, units, staff, startup |
| Provisioning (`OnboardingService`, `BusinessUnitService`, `StaffService`, `ChatAccessService`, `Program.cs`) | `companies`, `business_units`, `persons`, `bu_staff_profiles` | onboard, create unit, create or enroll staff, change role, change chat access, startup | two databases; a transaction of one held open across calls to the other |
| Reset (`DatabaseResetter`) | the same tables and `chat_messages` | delete and re-insert the seed | races with everything above |
| Messaging (`messaging_service.go`, `message_repo.go`, `pubsub.go`) | `chat_messages`, Redis subscriptions, which may lapse | send, list, publish, stream | backend (REST path), WebSocket sessions |
| WebSocket session (`ws/handler.go`), proxy (`server.ts`) | sockets, subscriptions, queues | list, upgrade, subscribe, read loop, write pumps, close | browser and chat service |
| Chat page, hook and store (`page.tsx`, `useChatWebSocket.ts`, `chatStore.ts`) | socket and reconnect timer; conversation list, active conversation and message lists; draft | first load, select, start a direct conversation, type, send, receive, reconnect | proxy and backend |
| Session (`AuthService`, `JwtTokenService`, Next.js auth routes, `middleware.ts`, protected layout, login, onboarding and password pages, `authStore`) | `bu_staff_profiles`, the cookies `auth_token` and `user_info`, the user each tab shows | sign in, choose a unit, sign out, register, change password, navigate, expire | the cookies are shared by all tabs of a browser; every request carries the token |
| BFF route (`api/proxy`) | none | forward with the token, clear the cookies on a 401 | between every page and the backend |
| Staff, business unit and chat access pages (`staffStore`, `businessUnitStore`, `chatStore`) | copies of the backend's lists, dialogs, spinners | create, enrol, change role, create unit, grant and revoke access, refetch | backend, over calls that overlap |
| gRPC plumbing, backend WebSocket endpoint | none | forward | chat-service |

What makes it hard:

- **No transaction spans a chat-service operation.** Get-or-create is a SELECT
  followed by an INSERT; a DM is an INSERT and two participant INSERTs.
- **Two databases.** Onboarding calls the chat service from inside a transaction
  of the main database; staff operations commit statement by statement and then
  call it; nothing retries or compensates.
- **The reset** is six statements without a transaction.
- **Fire and forget.** A message is published by a goroutine after the answer,
  and not at all if the INSERT was committed but its answer was lost; the
  subscription of a session starts some time after the socket is open, covers the
  conversations listed at connection time, and has a gap whenever go-redis must
  subscribe again.
- **Three sources for one list.** A REST answer, pushed frames and fetched pages
  all write the message list of a conversation; a page replaces it.
- **Three parties to a connection.** Hook, proxy and chat-service may each end it
  or restart, and learn of the others only by events, some of which have no
  listener yet, and one of which, the end of a browser whose network has gone,
  need not come: the proxy has no timeout for it.
- **Copies of the signed-in user.** Two cookies, the layout's prop and a store,
  in every tab; another tab may change the cookies at any moment.
- **Client stores outlive what filled them.** They survive leaving a page, signing
  out and a reset of the database, and so do the calls that write them. A page
  puts what the server rendered it with into its store once, however old that is.

## 2. Modules

| Module | Models | Proofs |
|---|---|---|
| `ChatConversations` | conversations, and the backend requests that reach them | `ChatConversationsProofs` |
| `Provisioning` | provisioning, workspaces and members, startup, reset | `ProvisioningProofs` |
| `ConversationDirectory` | what the conversation service promises: rooms that are opened once and stay; implemented by `ChatConversations` | `ChatConversationsProofs` |
| `ChatDelivery` | messaging, Redis, session, proxy, chat page and store | `ChatDeliveryProofs`, `MessageLogProofs` |
| `MessageLog` | what chat promises: logs in which a message is posted once and erased only with all before it, and views of them; implemented by `ChatDelivery` | `MessageLogProofs` |
| `ChatConnection` | hook, proxy and session of one page: who ends a connection and who notices | `ChatConnectionProofs` |
| `Session` | signing in and out, the cookies and their copies, passwords, roles | `SessionProofs` |
| `AdminPages` | staff, business unit and chat access pages over their stores | `AdminPagesProofs` |
| `ChatPage` | the chat page around its message list | `ChatPageProofs` |
| `MC...` | constants and symmetry for TLC | |

Two modules meet where they name the same rows: the backend tables of
`AdminPages` are those of `Provisioning` with each call but the reset one step; the
messages that the last statement of the reset deletes are those of `ChatDelivery`
(`DeleteMessages` in both); the
conversation `ChatPage` gets or creates is the get-or-create of
`ChatConversations`; the sockets and message lists behind `ChatPage` are those of
`ChatConnection` and `ChatDelivery`, which divide a connection between them into
its ends and what it carries.

Definitions whose name has an underscore (`CreateGroup_NoIndex`) are mutated
forms of the definition after them, the way a plausible bug would change it.
They are used by nothing. Variables marked "history" record what has happened
for a property to speak of; no guard reads them.

### ChatConversations

Tables are sets of rows. A request has a program counter `pc[r]` that names its
next statement; one action is one statement, and between two of them any other
request runs, so the model has every interleaving of the SQL the code can
produce. `Fail(r)` may end a request before any statement (error, cancellation,
crash); a statement may also take effect and lose its answer. Migration 000006
gives workspaces that existed before it a group with participants; for others
the group is created on first access, without participant rows. The partial
unique index on groups makes the second INSERT of a race fail; DMs have no such
index. `FindDM` goes on to create a DM on any lookup error, as the code does.

### ConversationDirectory

The abstract specification of that service. A room is a workspace's group or a
DM with its two persons; it is opened in one step, a group only where there is
none, and stays as it is. A caller is told of one room, once. `ChatConversations`
instantiates it with the groups and the DMs two persons are in, and with what
requests that ended well were given, *labelled by what they had asked for*
(`ImplementsDirectory`): the label is what makes a wrong answer no step of it. A DM
exists there from the statement that adds the second person; what is left of one
by a failure before that is nothing. That two DMs of one pair may be opened is
part of the specification, because it is part of the code (`dm_duplicates`). A DM
with oneself is left out: the lookup answers any DM of that person.

### Provisioning

Ids are random in the code, so the rows a request creates are named after the
request and no two requests collide. One action is one statement, one gRPC call
or, for onboarding and units, the INSERTs of one open transaction (they become
visible at `Commit`). A call may fail, may succeed, or may succeed and lose its
answer (`Answered`, `Fail`). `Crash` ends every request and restarts startup.
`Known` restricts what a request may name to ids that have been handed out. The
reset's last statement deletes the messages, of which this module has none:
its effect is `DeleteMessages` of `ChatDelivery`.

### ChatDelivery

A message goes through the stages `posted` (REST) or `wire` (frame), `asked`,
`checked`, `saved`; the publishing goroutine is `pub[m]`. A message whose INSERT
was committed but whose answer was lost is `unanswered`: the row is there,
`SendMessage` fails and no goroutine is started. A session goes through
`dialing`, `listed`, `subscribed`, `open`, then `draining` or `closed`.
The browser regards its socket as open from `dialing` on, because the proxy
accepts it before it dials the chat service. `inq[s][b]` is the queue of one
subscription (Redis connection, subscriber channel, `StreamMessages`), `down[s]`
the socket's frames to the browser, `up[s]` those from it. A session has one
subscription per *row* of the conversation list, and a group with *k* migrated
participants is listed *k* times, so `Rows` may be greater than one.
A history fetch is three steps (membership check, read, answer), and several may
be outstanding. Redis may lose a subscription it serves (`LoseSubscription`) until it
confirms it again, and a message published meanwhile is `missed`. `DeleteMessages` is the
reset's `DELETE FROM chat_messages`. `db` keeps the rows it removes, so that what
browsers still show has a place in the log, and `wiped` says how many of them,
always the oldest, no read finds any more.

Abstractions: the order of `chat_messages` is the order of the INSERTs (two that
overlap in PostgreSQL may be stamped the other way round); queues are unbounded
(16 events in the code, and go-redis drops events after a minute of back
pressure); a browser that leaves before the proxy reached the chat service
leaves a session behind there which no browser listens to (see `ChatConnection`),
and which therefore is `closed` here; frames are well formed and below the read limit.

### MessageLog

The abstract specification of chat: a message is posted once, in one log, and
leaves it only by an erasure, which takes all messages there are; what a user sees
of a conversation gains one posted message that it does not hold, or is replaced by
a page that was the newest page at some moment between two erasures. A message
that was under way when the log was erased may still be seen, as in the code.
`ChatDelivery` instantiates it with `log <- db`, `views <- list` and the places of
the erasures, `cuts` (`ImplementsLog`). Every send, push, answer, fetch, crash,
access change and reset is one of its steps or a stutter, so what chat keeps is independent of the three
paths by which a message may come.

### ChatConnection

A page opens sockets one after the other, each used once. For each of them the
model has the browser's end, the proxy's two ends, `ServeWS` with its pumps, and
the close code on its way back. The proxy accepts the browser before it dials
and registers the handlers that forward closes in the backend's `open` event
(`bridged`); a browser that leaves earlier is remembered in `early`. Connections
break, both servers restart; a missed pong, a frame above the limit and a broken
read are all `ReadFails`. A browser may also vanish without the proxy being told
(`silent`): `server.ts` sends it no ping and sets no timeout or keepalive, and goes
on answering the pings of chat-service, so such a session may last for ever. What a
token holds is left out: its refusal is a refused dial. The ping goroutine is left out; it holds no state.

### Session

The tabs of one browser share the cookies. A tab waits for at most one request,
since its forms block while submitting; what overlaps comes from other tabs. A
request is made with the token of that moment, answered by the backend later,
and received later still, in any of which the connection may break. `Show` and
`Load` are soft and full navigations: a mounted layout keeps its prop until the
router is refreshed. Expiry of the cookies and changes by other users may happen
at any time. Password hashing and token signing are taken to work: a token is
the claims it was issued with, and stays valid whatever happens to the profile,
as in the code. Profiles are unique by unit and e-mail, the only unique index there
is, so a person may have two in one unit (overlapping enrolments make them);
changing a password takes *any* of the profiles its token's person and unit have
(`Held`), as `FirstOrDefault` does. Listed business units and chat pages are served
like `change-password`.

### AdminPages

One tab of an owner, whose three pages share stores. A write and the refetch that
follows it are one call in two stages; a staff list is read by two separate
requests. Calls go on after the page was left (`here` turns FALSE) and their
callbacks then only write the stores.

The staff and unit pages come rendered with their lists. Turning to one (`Go`)
starts a call of the server (`staff_page`, `units_page`), which reads while the page
that is left is still shown and other calls go on; when it is answered (`Arrive`) the
page is mounted and puts the lists in its store, once. The browser's back button
(`Back`) mounts a page with the lists of its last visit, which the router keeps
(`kept`). The owner's `Reset` has its statements one by one, with everything else
between them; its answer refreshes what the router keeps and, as in the code, no
store. `Demo` says whether the company is the one a reset inserts again; `lost`
remembers the profiles that resets removed. `stale` records where the tab may lag
behind: overlapping calls on the same rows, a failed one, another owner, a reset, or
a page gone back to.

Abstractions: a link to the page shown is not followed; `router.refresh()` reads in
one step; a person exists while they have a profile; an error page is left only by
loading anew, which starts another tab; the loading overlay of the tables is left
out: it forbids clicks the model allows.

### ChatPage

The first load (`Promise.all` of two calls of which one swallows its errors),
the conversation list, members one may write to, starting a conversation,
selecting one, the draft and handing a text to the socket or to REST. Signing out
and in in the same tab empties `useAuthStore` only. Two history variables record
what the header can be wrong about: `inherited`, that the active conversation is
an earlier user's, and `behind`, that the list was last written for another user
or by an answer without something the user had. `fate` records what became of
each text. A text handed to a socket is `ChatDelivery`'s matter.

## 3. Runs

Passing runs, with their distinct states:

| Run | Instance | Shows |
|---|---|---|
| `conversations` | 2 workspaces (1 migrated), 3 persons, 2 requests; 211k | one group per workspace and every answer names it; an answered DM has exactly its two persons; a partial DM has an unfinished or failed maker; no second DM for a pair that already had one when the request began, unless a statement failed; conversation lists are sound although participants are read later; the service implements `ConversationDirectory` |
| `provisioning` | 2 requests of any kind, 1 crash; 53k | a visible unit has its workspace, of which its creator is a chat Admin unless enrolled as staff in it; a reset that runs alone without faults restores the seed; a profile never ties a person to a unit of another company; a person without a profile, or a profile without a membership, is the work of a request that is unfinished or failed; access has a grant |
| `chat_store` | 1 user, 1 session, 2 messages, 1 fetch, page of 1, 1 access change, any number of resets; 1.44M | the message path implements `MessageLog`; one socket's messages are stored in order; nothing sent after a lasting revocation is stored; a message leaves a list only for the reasons stated in `VanishExplained` |
| `delivered` | 2 users with a session each, 1 message, 1 crash; 779k | a message stored while a session is subscribed is accounted for until it is shown, and is eventually shown, unless it is lost in one of three ways: its sender was answered an error after the INSERT, the publish failed, or the subscription had lapsed when it was published |
| `connection` | 2 sockets, 1 conversation, 1 restart of either server; 794k | a page has one live socket and at most one reconnect pending; a page without either has been told 1000 by the proxy; the proxy keeps a backend connection without a browser only if that left while it was dialling; every other session ends, through read loop, cancelled streams and pumps, unless its browser vanished silently |
| `session` | 2 tabs, a person with 2 profiles in one unit and another with the e-mail of one of them, 3 requests, 1 of which may be a change by others; 903k | what a tab shows, stores and sends is one user; nothing offered is refused; signing in always verifies the password, also in the second round of choosing a unit; a password change touches a profile of the person and unit its tab shows, whose old password was the one given, and nobody else's; apart from signing out, a request without a token ends nobody's session |
| `admin_pages` | owner and 1 person, 2 units, 3 steps, 1 of which may be another owner's, 2 calls at once; 495k | once the calls are over a page shows what the backend holds, unless they overlapped or failed, another owner acted, the owner has reset the database, or the page was gone back to; the password dialog names a profile that exists unless a reset has removed it, and that the page lists unless it may lag |
| `chat_page` | 3 profiles in 2 units, 3 calls at once, 5 steps, 1 text; 617k | a message goes to the conversation the header named when its first key was typed, with the exceptions stated; a text is in the draft, on its way, handed over or knowingly dropped; it is stored twice only after a lost answer; loading and sending end |

Runs that TLC must find violated, each a disagreement between the code and what
the repository says of it (quoted under "findings"):

| Run | What happens |
|---|---|
| `dm_duplicates` | two get-or-create calls for one pair both miss and both insert: the pair has two DMs |
| `orphan_workspace` | the membership call fails inside the onboarding transaction: the unit is rolled back, its workspace stays. A comment says that the rollback keeps both systems consistent; the README and the design document say that the calls come after the commit and the unit is retained. It is neither |
| `role_per_unit` | the role select of a row changes the profile of another unit of the same person, and shows the new role in every row |
| `reconnects` | chat-service ends a connection; the proxy closes the browser's socket with 1000, for which the hook does not reconnect: the page stays without a socket |

The models also reach the following, which have no run of their own; nothing in the
repository excludes them, but for the owner's demotion:

- the loser of the first-access race on a group is answered an error;
- a startup interrupted between its two calls never adds the seeded owner;
- two overlapping enrolments under different e-mails give a person two profiles
  in one unit; `session` starts from there, and finds that either of the two may
  get the new password;
- an owner enrolled as staff in a unit they created becomes a chat Member there, by
  the upsert, although the README (lines 38 and 198) promises the owner the chat
  Admin's role in each workspace: the exception `CreatorIsAdmin` states;
- after a reset from the layout the staff and unit pages go on showing rows that
  are gone, until they are left;
- a session whose browser vanished silently stays, in the proxy and in
  chat-service;
- two overlapping resets make each other fail and leave no seed;
- a conversation created after a session listed its own is not pushed on it;
- a frame sent before the proxy's backend socket is open is dropped, although the
  page has emptied its draft;
- a press on another row moves the one spinner of the chat access page, so that
  a row can be pressed again and, after the first answer, once more: two opposite
  changes of it are in flight, and the store keeps what is answered last, which
  need not be what was applied last;
- Enter pressed twice in the unit dialog creates two units.

**Bounds.** Every race stated involves two requests, so two are enough to show
it and to kill every mutant. Two sessions or sockets are one reconnection or two
users. A page of one message makes "pushed out of the page" happen with two
messages. Two tabs are enough for one to change the cookies behind the other;
three requests are what it takes to sign in, sign out and act on the difference.
In `AdminPages` two overlapping calls
plus a page change, a reset or a change by others are the shortest way to every kind
of lag. In `ChatPage` three calls are the two
of the first load and one that overlaps them. `MaxCrashes`, `MaxRestarts`,
`MaxToggles`, `MaxChanges`, `MaxOthers`, `MaxAsks`, `MaxSteps`, `MaxTexts` and
`Offered` bound crashes, restarts, changes, what users do, and the kinds of
request; sessions, sockets, messages, requests and fetches are each used once.

**Deadlock** is checked for `session`, where a page can always be loaded again.
Elsewhere it is not: a bounded instance ends when everything has run, and the
real system may stand idle.

**Symmetry** is used for safety runs only, over sets whose elements no
definition distinguishes.

**Fairness.** Each is weak, and of steps the program takes by itself:

- `delivered`: the publishing goroutine (which may publish or fail), each pump,
  the proxy's `open` event and the browser's `onmessage`: goroutines that wait
  for nothing but their channel, and events queued in an event loop.
- `connection`, `reconnects`: the reconnect timer fires; `onclose` and the proxy's
  browser `close` are handled, the latter for sockets that did not vanish silently; a
  failing read, a cancelled stream and the return
  of `ServeWS` are goroutine steps.
- `chat_page`: a call ends, with an answer or an error, and its callback runs.

Nothing is assumed of users, of failures, of the database, of a restart, or of a
subscription being confirmed.

## 4. Proofs

TLC checks small instances; the theorems hold for every set of requests,
persons, workspaces, users, sessions, messages, tabs and accounts.

**ChatConversationsProofs.** `TypeCorrect` rests on `TInv`, the types and
`Control` (which locals are set at which program counter). `GroupUnique` and
`GroupAgreement` use `GInv`: ids are unique, one group per workspace, and every
request past its group statement holds a row of its own workspace
(`GroupHeld`); the uniqueness alone is not inductive, since `CreateGroup` is
guarded by the index and `GetGroup` copies. `DMBelongsToPair` and `PartialDMs`
use `DInv`: participants point to rows (`PartsHaveRow`), a row has one maker
(`MadeOnce`) and gets participants only from it, in order (`MadeByPair`), and a
request holds a DM that has its pair (`DMHeld`). The next layer rests on
`TablesGrow` (no row goes away, a request keeps what it was called with):
`RedundantDMsHaveFailed` states `NoRedundantDM` with `KnownInv` (a request whose
pair had a DM reaches the insert only through a failed lookup), and
`ListsAreSound` states `ConversationListSound` with the rows still to be read and
those answered (`LInv`): both keep being true of the tables they were read from.
`ImplementsTheDirectory` is the refinement. `TheRooms` says which rooms there are
in terms of participants, `RoomsStep` that a step opens the room of the group it
inserts or of the DM whose second person it adds, `GivenAreRooms` that whatever a
request holds at its end is a room of what it asked for, and `ToldStep` that
nobody is told twice.

**ProvisioningProofs.** Layers: `TInv` (types, every started request has a
call), `RInv` (`Phases`: a request is only at program counters of its own
operation), then `PInv` for `UnitsHaveWorkspaces`, `CreatorsAreAdmins` and
`AccessIsExplained` (`Provisioned`: a transaction past its gRPC calls has its
workspace and an Admin, whom only an enrolment of the creator in that very unit makes
a Member, and chat rows only grow; `Explained`: access has a
grant or an owner), and `KInv` for `ProfilesStayWithinCompany`
(`RowsKeyed`, `Locked`, `LookedUp`: a row found by an earlier statement has the
company it had then, because ids are never reused for another company, even
through a reset). `GInv` adds for `GapsAreExplained` (`StaffGapsExplained`) who
is at work on the rows of a person that lacks a profile or a membership
(`RowsNamed`, `Gaps`), and `LInv` for `LoneResetsRestore` (`LoneResetRestores`)
what the tables hold at each statement of a reset that has run alone so far
(`Restoring`). Each layer has one lemma per action; the layers above cite the
frame lemmas (`GotoMoves`, `StepMoves`, `StepEffects`...) instead of the actions.

**ChatDeliveryProofs.** `TypeCorrect` rests on `TypeInv`, the types and
`Addressed` (a history request that was made names a user and a conversation, so
what `FetchRead` takes are rows of a conversation). `OnlyAllowedStored` states
`AccessChecked`. By itself that is not inductive: `Save` looks at nothing but
the stage of the message. `AccessInv` adds that a message that passed
`CheckAccess` had been granted (`Checked`), that whoever has access now has had
it since each of the messages they sent (`Entitled`, which `UpdateAccess`
keeps), and that the frames on the way hold messages that were sent, by somebody
(`Framed`, `Named`). `QuietActions` names the actions with no part in it; the
other ten have a step each.

**MessageLogProofs.** `ImplementsTheLog` shows that `ChatDelivery` implements
`MessageLog`; `ListsAreSound` that a list holds stored messages only, each once.
The two need one invariant, `LogInv`, for a step of the log needs to know that a
message being saved is nowhere in it and that a fetched page is a page of it:
`Placed` and `Afloat` (a message that is a frame on its way up is in one place of
one socket only, at the stage the model says), `Stored` and `Once` (a message is
in the log of its conversation, once, exactly if it was saved), `Published` and
`Queued` (what is pending, queued or going down was saved), `Copied` (what a
fetch has read is the newest page between two erasures, and stays one as the log
grows and is erased). `SteadyKeeps` reduces an action that leaves the log alone to what it does
to queues and fetches; `StillKeeps` covers the actions that
touch neither.
`LogRefines` then maps each step to `Post`, `Erase`, `See`, `Reload` or a stutter.

From `LogInv` three more follow. `OnlyFetchesRemove` states `VanishExplained`: the
rows of a fetch are a page of the log for the length and the erasure it read, and a
page holds all of the last `Page` messages of that length that were not erased
(`PageCovers`). `MessagesKeepTheirOrder`
states `SessionOrder` with `OrderInv`: messages are numbered as they are sent, the
frames of a socket wait in that order, all of them (`InOrder`, `Waiting`), at most
one message of a socket is in a call, and what is further on was sent before
(`Turns`), which a message sent over REST never mixes with (`RestOnly`).
`LapsesKeepOrder` covers the steps that lose or refuse something.
`OwedAreAccounted` states `Accounted` with `OwedInv`: a session that is owed a
message Redis has not published yet still has a subscription for it, which is what
puts the message into a queue when it is published, or Redis does not serve it then
and the message is `missed`; a message that is stored without an answer is
`unanswered` for good; and nothing is owed to a session before it is subscribed.

**ChatConnectionProofs.** `TypeCorrect`; and from one invariant, `ConnInv`,
`PageHasOneSocket`, `GivesUpOnlyOn1000` and `OnlyEarlyLeaversAreKept`. It adds to
the three properties that the cleanup has detached the handler of a socket that
is still closing and that `wsRef` is the socket opened last (`HookInv`), how far
the proxy's two ends may be apart and that code 1000 is sent only for a bridged
socket (`ProxyInv`), and that the proxy is through with the socket of a page that
gave up, so that its code stays what it is (`QuietInv`).

**SessionProofs.** `TypeCorrect` rests on `TypeInv`, the types and
`SoundRequests` (a form is sent when its fields are filled, and "expired" answers
a request that carried a token), from which `SignInIsVerified` and
`OnlyTokensEnd` follow step by step. `ShownIsSession`, `WhatIsOfferedIsAllowed`
and `ChangesOwnPassword` (`OwnPasswordOnly`) need `SessionInv`. It says that the two cookies agree;
of each tab (`TabInv`), that a mounted layout nobody has gone behind is `InStep`,
also on the way to the next page, where a tab that signs in or out is behind
itself and for that reason has no request under way; and of each request
(`ReqInv`), what its token must be if its tab was in step when it asked
(`Honest`), for the answer comes when the cookies may be others. `OthersKeep` is
the step of a tab that does nothing: whatever changes the cookies marks it as
behind. `ShowKeeps` covers the navigations.

**ChatPageProofs.** `TypeCorrect`; `NoTextIsLost` (`TextAccounted`) and
`PostedTextsAreStoredOnce` (`StoredOnce`) need that a text has one place: in the
draft, in one call, or where its `fate` says (`OInv`), and how often the backend
has stored it (`FInv`). `MessagesGoWhereLabelled` (`SentAsLabelled`) uses `LInv`: an
active conversation that is not `inherited` is the user's, is listed unless the
list is `behind`, and is what the header named when the draft was begun. The proof
failed with the exceptions as the model first had them, which were too wide here
and too narrow there: an earlier user's selection may also come from a call that
was under way when they signed out, and a list of the user's own puts an end to
the lag only if it holds what they had. The steps that bring this about now set
the two variables.

**AdminPagesProofs.** `TypeCorrect`; then `KInv`: calls in progress on the same rows
make those rows lag, and a reset in progress makes everything lag (`NoClash`);
profiles are in the backend or were lost to a reset (`There`), units that were made
stay `Founded` in chat-service, and a call names rows and units of these (`RInv`).
Profiles and units may thus go away at any statement of a reset, but no row goes
while the staff page does not lag (`Grows`). `AnnouncedAreThere` (`AddedIsThere`) adds that
only the staff page announces (`HInv`) and that no answer on its way to it lacks the
row, unless the page lags (`AInv`). `QuietPagesAreTrue` (`QuietIsTrue`) adds what the
lists of a page waited for are (`NInv`: the backend's, or that page lags) and an
invariant for each page (`StaffShown`, `UnitsShown`, `MembersShown`): a page nothing
excuses shows what the backend holds, or one call is under way that will make it so,
and that call's answer, if it has been given, is still what the backend holds. On
the chat access page that is what the backend returns of the members, which leaves
out persons without a profile: `EffectSeen` and `OthersSeen` say that what is done in
other units leaves it alone. The property speaks of calls without counting them, so
no finiteness is assumed.

Constants are assumed only to be what the code makes them: `None`-like values
outside the sets they complement, the seed outside the requests, accounts within
the one unique index of `bu_staff_profiles`, on unit and e-mail, bounds natural
numbers.

Every type invariant, safety invariant, action property and refinement that a
run checks is proved. Only model-checked are the liveness properties `Delivered`,
`SessionsEnd` and `PageSettles`: liveness under fairness is out of the prover's
reach. `NoDuplicates`, `ShownWasStored` and
`OneGroupPerWorkspace` are proved and have no run: `ImplementsLog` and
`ImplementsDirectory`, which have, imply them. The four properties of the failing runs
do not hold, so there is nothing to prove of them.

## 5. Not modelled

- Token signing and password hashing, which are taken to work.
- The backend's own WebSocket endpoint (`ChatWebSocketHandler`), which the
  browser no longer reaches, and the gRPC `StreamMessages` it alone uses.
- Paging backwards with a `before` cursor (no caller sends one) and
  `fetchMessages` of the chat store (nothing calls it).
- The `accessDenied` view of the chat page: it waits for a 403 from
  `GetConversations`, which never answers one.
- A change of the unit while the chat page stays mounted: signing in as somebody
  else leaves the page.
- The ping goroutine of chat-service and the capacities of queues: a missed pong is a failing
  read, and go-redis drops events only after a minute of back pressure.
- The transport and key check of gRPC, which keep no state.
- Layout, rendering, forms' validation, generated protobuf code, dependency
  injection, configuration, deployment.

## 6. Plan

1. Done: the seven models, their runs, the abstract specifications `MessageLog` and
   `ConversationDirectory` and their refinements, and the proofs above.
2. An abstract specification of `Provisioning` that it implements: companies with
   units, and persons with a profile and a membership in each, where onboarding,
   enrolling and resetting are one step, for requests that neither fail nor overlap.
3. Consequences of the two abstract specifications, proved of them alone: that a
   message keeps its place in the log, that a room is never taken from its pair.
4. The composition of `ChatConversations` and `ChatDelivery`: the conversation
   that `AddConversation` abstracts, so that the first visit to a new workspace
   (group created while the socket lists) is one behaviour.
