# MyMCPs in TLA+

MyMCPs is a gateway for the Model Context Protocol: AI clients connect to one
address, sign in with OAuth or with an access token made by hand, and call the
tools of the MCPs that a team configured.  Tools can be set to *ask*: a person
then approves or refuses each call in the browser.  The gateway keeps its state
in one SQLite database and a little of it in memory, and serves requests as
asynchronous tasks on several threads.

This directory models the parts of that program where the order of steps of
several actors decides whether it is right: the approval gate, the lines that
calls wait in, the grants of the OAuth server, the sign-in of the MCPs
themselves, where the gateway is the OAuth client, the daemons and packages the
server runs, the timer that updates them, setting an instance up from a backup,
the accounts (guesses of passwords, sessions, second steps, teams, invites),
uploads, the log of calls, and what the gateway is a client of: processes and
HTTP servers of MCPs, machines of a tailnet, a mail server.  TLC checks the models
on small instances.  TLAPS proves every safety property and every refinement that
the passing runs check, for instances of any size; only liveness is left to TLC.

* `PROJECT.json` maps every definition to the lines it models, and lists the
  runs, the mutants that show each property can fail, the hazards, the findings
  and the theorems.
* Names are those of the source where TLA+ allows it (`decided` is spread over
  several actions; its statements are named in their comments).

## 1. The system and its parts

| part | state it keeps | operations | interacts with |
|---|---|---|---|
| approval turns (`gateway/src/approvals/mod.rs`: `Turns`, `Queued`, `in_turn`) | a map token -> `Arc<Mutex>` in memory | join, lock, run, unlock, leave | `decided` runs inside a turn |
| tool approvals (`ApprovalService`, `core/.../approval_request.rs`, `upstream/src/approvals.rs`) | `approval_requests`; the choices saved with an MCP | gate, request, decide, consume, prune | called by the endpoint; decided from web pages; rows fall with their MCP or token |
| OAuth grants (`gateway/src/access_token.rs`, `gateway/src/oauth/mod.rs`, `web/.../oauth_server.rs`) | `oauth_authorization_codes`, `access_tokens`, `oauth_refresh_token_history` | consent, exchange, rotate, revoke, narrow, delete | MCP clients, the Tokens page, `Team::detach` |
| teams and people (`core/.../team.rs`, `user.rs`, `invite.rs`, `web/.../teams.rs`, `invites.rs`) | `users`, `team_user`, roles, super admins, invites | invite, join, change of role, removal, deletion of accounts and teams | ends tokens and codes of who leaves |
| gateway endpoint (`gateway/src/endpoint.rs`, `bearer.rs`) | none of its own | authenticate, list and call tools | gate, limiter, upstream, call log |
| upstream OAuth (`upstream/src/oauth.rs`, `session.rs`, `shared.rs`, `core/.../mcp.rs`) | tokens and generation in the row of an MCP; shared refreshes in memory; started sign-ins in the browser session | start, callback, refresh, disconnect | endpoint and web pages race on one row |
| rate limiter (`core/src/limiter.rs`) | counters per key and window, in the database or in memory | consume, get, decrement, delete, sweep | sign-in form, token endpoint, endpoint |
| npm packages (`node/src/package.rs`, `runner.rs`) | one directory per install, `current.json`, a lock per MCP in memory | install, put in place, sweep, delete all | calls run a directory that updates and edits replace or delete |
| update schedule (`gateway/src/auto_update`, `upstream/src/npm_update.rs`) | the handle of a timer, the run in flight | resync, tick, run | saved settings; npm packages |
| tailnets (`tailnet/src/tailnets.rs`, `supervisor.rs`) | a supervised daemon per tailnet, its state directory, a turn per tailnet | ensure running, stop, remove, discard, restart with backoff | upstream connections, web pages, imports |
| upload store (`builtin/src/upload_store.rs`, `web/.../builtin_files.rs`) | a file and its metadata per upload, without a lock | save, sweep, find, read, remove all | links of agents, tools of built-in MCPs |
| backup and restore (`core/src/backup`, `web/.../backup.rs`) | the place of one import, a line for keys, temporary directories | onboard, import, export | replaces every row of a new instance |
| sign-in and sessions (`web/src/auth.rs`, `web/.../auth.rs`, `settings.rs`) | session version, stamps in cookies, remember-me rows | sign in, be remembered, sign out, change the password | limiter, second step |
| second step (`core/.../two_factor.rs`, `web/.../two_factor.rs`, `passkeys.rs`) | secret and last step of an app, passkeys, recovery codes | set up, remove, renew, reset, use a code | sign-in |
| call log (`gateway/src/call_log.rs`) | a queue in memory and the task that writes it; rows | record, write, flush, prune | endpoint; saved settings say what is kept |
| MCP client over pipes (`mcp/src/client/mod.rs`, `stdio.rs`, `node/src/runner.rs`) | requests that wait, a child with its pipes, a supervisor | connect, ask, close | npm packages; one use per call or probe |
| MCP client over HTTP (`mcp/src/client/http.rs`, `upstream/src/http_client.rs`) | requests that wait, tasks that read and resume event streams | connect, post, listen, resume, close | upstream OAuth gives it the token |
| requests through a tailnet (`upstream/src/tailnet.rs`, `tailnet/src/handle.rs`, `net/src/overlay.rs`, `core/.../tailnet.rs`) | the tailnet the credentials of MCPs are for; a cached status; kept connections | settle the identity, route, dial, send | daemons; edits of an MCP; a node signed in elsewhere |
| mail (`icloud-mail/src/tools.rs`, `connection.rs`, `smtp.rs`) | places for attachments, the form of a user name | send a mail, save a copy | outside servers; what the agent is told |

Protocol parsing, address tables, the kernel sandbox, input validation, the
other clients of outside services, pages and the command line are data or I/O without a protocol of their own; `PROJECT.json` lists them with the reason.

### What is hard here

* **Awaits.**  A task is suspended at every statement and every network call.
  What it read may be stale when it acts: the count of waiting requests, a live
  approval, a code, a current refresh token, a membership.
* **Callers that go away.**  The runtime drops a future at the await it stands
  at.  What is done stays done, locks must be given on.
* **Tasks that outlive their request.**  A supervisor, a run of updates, a
  renewal and an import go on when whoever asked for them is gone.
* **Restarts.**  Lines, locks and timers are in memory, rows in the database,
  installs, uploads and copies of the database on disk.
* **Copies of a row.**  `save` writes the columns that differ from what was read:
  two requests that read the same account or MCP each write their half.
* **Files without locks.**  An upload is two directory entries, an install a
  directory and a name in `current.json`.
* **Others that hang.**  A child keeps silent, ignores its closed stdin or leaves its
  stdout to a process of its own; a server ends its event stream before the
  answer; a mail server takes a mail and its reply is lost.
* **Repeats.**  An agent calls a tool again to learn the outcome of its request;
  an OAuth client retries a refresh it got no answer for; a person decides from
  an old page.
* **Time.**  A request, an approval, a code or a token can expire between any
  two steps of whoever uses it.
* **Drops.**  Rust drops a struct's fields after the body of `drop`; the
  reference count that `Queued::drop` reads depends on it.

### What makes each part correct

* turns: one call of a token has the turn; calls pass in order; a line is not
  forgotten under a call that uses it, and is forgotten afterwards; waiting ends.
* approvals: a call of a tool that asks runs only by spending an approval a
  person gave for that very call; at most `MAX_PENDING_PER_TOKEN` requests wait;
  a call is not put to people twice; a decision is final and a refusal said once;
  every call is answered.
* grants: codes and refresh tokens work once; a replay ends the grant; a
  revocation sticks; a client touches its own grants only; who leaves a team
  keeps nothing.
* upstream OAuth: no refresh token is presented twice unless its answer was
  lost; the tokens of a row are those of the destination and of the sign-in it
  names, whatever ran when it was moved; a token goes only where it was issued
  for; who waits for a renewal goes on with its result, and is answered.
* tailnets: one daemon per tailnet; one that was removed stays down; every request
  ends.
* npm packages: a call starts a whole install of the package it asked for, and
  keeps it over the update that comes next; every caller ends.
* update schedule: no timer that cannot be stopped; every tick ends.
* backup: an instance is set up once, and can read its secrets; no copy of the
  database is left on disk; the place of the one import comes back.
* limiter: signing in buys no guesses against another account, and guesses in
  parallel get no more than the limit.
* sessions: a session counts only under the password that opened it.
* second step: a code works once, as long as its app is not set up again; who has a
  second step has recovery codes.
* teams: a team keeps an owner and the instance a super admin; an invite lets one
  person in.
* uploads: a tool reads the whole file that its metadata describes, or none, until a
  file of its link has expired.
* call log: one task writes; every record accepted is written once, in order, or
  dropped with its batch, and keeps what some level saved since it was queued
  allows; who flushes goes on.
* MCP clients: a use ends whatever the MCP does, and leaves neither its process nor a
  stream; nothing is pending that nobody waits for.
* requests through a tailnet: a credential reaches only the network it was entered for,
  or the one its MCP was in when it was saved.
* mail: what an agent is told is true, so a mail is not sent twice.

## 2. The modules

| module | what it is | code |
|---|---|---|
| `TokenLine` | promise: one FIFO line of calls per access token | doc of `in_turn` |
| `Turns` | the map of reference-counted locks that keeps it | `Turns`, `Queued`, `in_turn` |
| `ApprovalPromise` | promise: what a request can become, and that a call is let through only by turning an approved request for it into a used one | docs of `gate`, `decide`, `consume` |
| `Approvals` | the gate, with calls, people, clock, deletions and restarts | `ApprovalService` and what calls it |
| `GrantPromise` | promise: a grant is a chain of token pairs without forks | docs of `exchange_authorization_code`, `rotate_oauth_grant` |
| `OauthGrants` | consent, token endpoint, revocation endpoint, Tokens page, leaving a team | see `map` |
| `UpstreamOauth` | the tokens in the row of an MCP: renewals, sign-ins, edits | see `map` |
| `Tailnets` | the daemons of tailnets, requests and supervisors | `Tailnets`, `Supervisor` |
| `NpmPackages` | the installs of an npm MCP | `NodeRunner`, `make_current` |
| `AutoUpdate` | the timer of updates and its shared run | `McpAutoUpdateScheduler` |
| `Backups` | setting up, importing and exporting | `core/src/backup`, `routes/backup.rs` |
| `Limiter` | two counters and the sign-in form | `Limiter`, `login` |
| `Sessions` | who is signed in to one account | `web/src/auth.rs`, `change_password` |
| `TwoFactor` | apps, passkeys and recovery codes of one account | `models/two_factor.rs` |
| `Teams` | one team, its people, its invites, the super admins | `routes/teams.rs`, `invites.rs` |
| `UploadStore` | the uploads of one built-in MCP | `UploadStore`, `PUT /uploads` |
| `CallLog` | the queue of records and its writer | `McpCallLogService` |
| `StdioClient` | one use of an npm MCP | `NodeRunner::call_tool`, `Client`, `supervise` |
| `HttpClient` | one use of an HTTP MCP | `list_http_tools`, `Client`, `StreamableHttpClientTransport` |
| `TailnetRequests` | requests of an MCP that is reached through a tailnet | `tailnet_fetcher`, `settle_identity`, `TailnetHandle`, `OverlayNetwork` |
| `SendMail` | sending a mail | `send_message`, `smtp::send` |
| `Parts` | the sum of thirteen parts: all from `Tailnets` on but `HttpClient` | |
| `TurnsProofs`, `ApprovalsProofs`, `OauthGrantsProofs`, `UpstreamOauthProofs` | theorems about the module of that name | |
| `AccountsProofs` | theorems about `Limiter`, `Sessions`, `TwoFactor`, `Teams` | |
| `DaemonsProofs` | theorems about `AutoUpdate`, `StdioClient`, `NpmPackages`, `Tailnets`, `TailnetRequests`, `SendMail` | |
| `StorageProofs` | theorems about `Backups`, `UploadStore`, `CallLog` | |
| `PartsProofs` | the types of all thirteen | |
| `MCApprovals`, `MCOauthGrants`, `MCUpstreamOauth`, `MCParts` | instances for TLC | |
| `MCServices` | an instance of the parts in which somebody waits, with fairness | |

`Turns` is shown to implement `TokenLine`; `Approvals` composes with `TokenLine`
(it uses the line, not its implementation), and is shown to implement
`ApprovalPromise`; `OauthGrants` is shown to implement `GrantPromise`.

The modules from `Tailnets` on have no state in common, with each other or with
those before: they work on other rows, files and tasks.  `Parts` and `MCServices`
therefore put several in one specification as a sum, not as a product: the
variable `part` names the one that moves and never changes, the others stay
where they start.  Every behaviour of the sum is a behaviour of one part, and
every behaviour of a part is in the sum.  `MCServices` is the run with fairness,
in which somebody waits for something; `Parts` has the safety properties.  The
theorems are about `Parts` itself; the run `parts` checks `MCParts`, which gives the
constants small values and lets a part that does not move start in one state
instead of each of its initial states.  A property of the sum has the name of the
part's property it stands for and is explained where that one is; `DaemonAsAsked`
stands for two, `OneDaemon` and `RemovedStaysDown` of `Tailnets`.

### Turns

`turns` is the map, `held[c]` the Arc in the `Queued` of a call, `queue[l]` the
waiters of the lock `l`, owner first (tokio's `Mutex` is fair).  A call goes
`outside -> joined -> locking -> unlocked -> dropping -> outside`:

| action | code |
|---|---|
| `Join` | `Queued::join`: clone the entry under the map's mutex, made when absent |
| `Lock` | first poll of `line.lock()` |
| `Finish` | the task ended; the guard is dropped |
| `GiveUp` | the future is dropped while it waits or has the turn |
| `Leave` | the body of `Queued::drop`, under the map's mutex |
| `DropArc` | the field `line` dropped after that body, without the mutex |

`Lines` are allocations; a freed one may be used again for another token.

### Approvals

`rows` is the table by id, `nextId` its autoincrement, `saved` the choices saved
for the tool of each MCP ("unreadable" is a value the program cannot parse),
`line` the lines of `TokenLine`, and `pc`, `ask`, `mode`, `found` and `now` are
the locals of a call; `deciding` those of a person's `decide`, with the time it took.  An *ask* is an MCP, a tool and arguments as
`arguments_hash` tells them apart.  Each statement of `decided` and of what it
calls is an action; `GiveUp` may replace any of them (a failed statement or a
dropped future), `Restart` ends them all.

| action | code |
|---|---|
| `Authenticate` | `authenticate_bearer` and lookup of the tool; the row of the MCP is read here and carried along |
| `GateOpen`, `GateAsks` | `gate` by `tool_approval_mode`; the second joins the line |
| `Select` | the select of `decided` and its match on the status |
| `ConsumeApproved`, `ConsumeDenied` | `consume` and what follows it |
| `Open`, `Ran` | the turn is given on, the tool is called, the call ends |
| `Count` | size check, count against the limit, the time of the row |
| `Summarize` | the description by the built-in tool or a probe, which may refuse |
| `Insert`, `InsertFails` | the insert, refused by a foreign key |
| `Decide`, `Record`, `Abandon` | `decide`: the time it takes, later the conditional update with that time, or none |
| `Choose` | the tools page, `assign_tool_approvals` |
| `DeleteMcp`, `DeleteToken` | deletions and their cascades |
| `prune_expired`, `Tick`, `Restart` | the prune, the clock, the process |

Points a reader of the code may ask about:

* `decide` takes its time, then waits for a connection and the write lock, so the
  update of `Record` may come when the request is over (section 6).  The selects of
  `decided` and `request` also compare with a time taken before them; the model reads
  the clock with them.  An older time only makes `Select` and `Count` see rows that are
  just over: the call is held, or told of a refusal or let through by an approval that
  ended that moment, as `ConsumeApproved` and `ConsumeDenied` already allow.
* `consume` does not ask for `expires_at` again.  A call that read an approval in
  time may consume it just after; the promise allows that.
* The mode of a tool is the one in the row read by `Authenticate`; a choice
  saved later does not hold a call already on its way (`mode`).
* `prune_expired` runs at most once an hour in the code; the model lets it run
  at any time, which only adds behaviours.
* Who may see a request (`visible_to`) is not modelled: anybody may decide.
* A statement that was handed to a connection by a future that is then dropped
  may still complete after the turn passed on.  The model lets a dropped call
  stop before or after each statement, never complete one later.

### OauthGrants

A request of a client or of the Tokens page is a slot that runs once.  The pair
of tokens a request hands out and the grant it inserts carry its name, so that
"which request issued this" needs no further state.  The client of a request
stands for what the endpoint checks with it: client id, redirect URI, PKCE
verifier and resource.  Expiry is a flag that `Expire` clears.  One action is
one statement or one transaction; transactions are `BEGIN IMMEDIATE`.

| action | code |
|---|---|
| `Visit`, `CheckRole`, `Sweep`, `create_authorization_code` | `POST /authorize`: memberships read by the `Auth` extractor, `role_of`, deletion of expired codes, insert |
| `Arrive`, `Manage` | a request comes in at the token or revocation endpoint, or from the Tokens page |
| `ReadCode`, `Redeem` | `exchange_authorization_code`: select and checks, then one transaction |
| `LookUp`, `Suspect` | `find_oauth_grant_by_refresh_history` |
| `ReadCurrent`, `Rotate` | `rotate_oauth_grant`: select and checks, then the conditional update with the insert into the history |
| `Find` | `revoke_oauth_token` |
| `Load`, `remove_mcp_management`, `revoke` | the Tokens page |
| `detach` | `Team::detach` in one transaction |
| `delete_inactive`, `Expire` | deletion with its cascade; time |

A request may stop for good at any point (the caller leaves, the process
stops), because nothing forces a step.  `late` and `Call.replay` are history
variables that only properties read.

### UpstreamOauth

`row` is the row of one MCP with the columns that matter: where it leads (URL and
network together), whether it signs in with OAuth, the generation, the client,
the endpoints, the tokens.  The access and the refresh token of one answer of a
provider are a *pair*, and `home` keeps what each pair was issued for.  A
provider takes a refresh token once.  Every actor works on a copy of the row it
read earlier: `basis` of a renewal, `mine` of a caller, `copy` of a sign-in
request, `draft` of an edit.

| action | code |
|---|---|
| `ReadRow`, `pending_refresh`, `ReloadMine`, `Use` | `connect_http_upstream` and `refresh_oauth_access_token`: join or start the renewal, read the row again, connect |
| `GiveUp` | the caller's future is dropped; the task goes on |
| `Reload`, `AskProvider`, `SaveRenewed` | `refresh_current_oauth_access_token`, a task of its own |
| `Release`, `Send` | `drop(release)` removes the entry, then the outcome is sent to all who wait |
| `BeginStart`, `StartAgain`, `StartMoved`, `StartRegistered` | `oauth_start`, `start_oauth_flow`: nothing to save, other endpoints, another client |
| `Callback`, `Exchange`, `SaveSignIn` | `oauth_callback`, `exchange_authorization_code` |
| `FlowFails` | a provider refuses or the browser goes away |
| `BeginEdit`, `SaveEdit`, `RefuseEdit` | `update`, `assign_mcp_from_payload`, `save` of the columns that differ |
| `sign_out_mcps`, `Delete` | the network is another one now; `destroy` |
| `Expire`, `Restart` | time; the process, which forgets all but the row and the browser session |

Points a reader of the code may ask about:

* A save without a condition writes the columns that differ from what was read,
  and those named by `write_over`.  `Cleared` is the first kind, `Forgotten` the
  second.
* A save in which nothing changed compares nothing (`save_if` returns `true`):
  `StartAgain` does not look at its basis.  Its session entry carries the
  generation it read, and `check_current` catches it later.
* Generations are drawn at random in the code and are taken to be distinct.
* There is one browser session.  A start in another browser is the disjunct of
  `start_oauth_session` that leaves the session alone.  `MaxStarts` stands for
  `MAX_PENDING_OAUTH_STARTS`; the limit in bytes may make room earlier.
* `lost` holds the pairs whose refresh token was taken and whose answer was not
  saved.  Such a token stays in the row and is presented again by the next
  renewal, which fails.  That includes a start that changed only the endpoints
  while the renewal was under way.
* The status of an MCP and what `test_and_update_status` writes are left out.  A
  test connects like any caller.

### Tailnets

`entries` is the map of supervisors, `sup` their tasks, `turn` the lock of each
tailnet, `removed` the tailnets that may not be started, `states` those with a
state file on disk.  `gone` remembers which removals were answered with `Ok`.

| action | code |
|---|---|
| `Begin`, `TakeTurn` | a request comes, `remove` and `discard` mark the tailnet first; `turn` |
| `Refuse`, `Ensure`, `Start`, `StartFails` | `ensure_running`, `start` |
| `Leave`, `Logout`, `StopDaemon`, `Ended`, `EndTimesOut`, `Clear` | `stop`, `remove`, `discard`, `stop_daemon`, `Supervisor::stop`, `remove_dir` |
| `GoAway` | the future is dropped, and with it the supervisor it is stopping |
| `Spawn`, `Dies`, `Retry`, `Cancel`, `Exits` | the loop of `supervise`, `terminate` |
| `ForgetRemovals` | `database_replaced` after an import |

### NpmPackages and AutoUpdate

`current` is `current.json`, `disk[i]` what is in the directory of an install,
whole or not, `holder` the lock of the MCP, `row` how far the row was edited.
`since` counts the updates a running call has outlived.

| action | code |
|---|---|
| `Ask` | a call, or an update of an MCP that tracks `latest`; the row is read here |
| `Read`, `BeginInstall`, `NoRoom` | the lock, then `read_current` or `install` |
| `InstallDone`, `InstallFails`, `Put`, `Sweep` | npm, `inspect`, `make_current` |
| `Finish`, `GoAway` | the call ends; its future is dropped |
| `Edit`, `Wipe`, `WipeEnds` | the row is saved, `remove_sandbox` deletes without the lock |
| `Crash` | the process stops, the disk stays |

In `AutoUpdate`, `Save`, `Stop`, `ReadSettings` and `Schedule` are a save of the
settings and the steps of its `resync`; `Tick`, `Told` and `NeverAgain` the task of
a timer (`run_job`, `Run`); `RunEnds` the shared run of
`update_latest_tracking_mcps`.

### Backups

`db` says who set the instance up and under which key its secrets are; `place` is
the one import, `queue` the line of `KeyDerivations`, `dirs` the temporary
directories on disk.  `Visit` is the guard of the setup screen; `Onboard` the
form; `FirstByte`, `RunImport`, `Interrupted`, `Derived`, `Prepare`, `CopyRows`,
`DeleteFiles`, `Release` the way of an import through `receive_file`, `run_import`,
`import`, `prepare`, `copy_rows` and the drop of `Upload`, whose fields go in
order; `StartExport` and `EndExport` an export; `Crash` and `Boot` a stop and
`clear_temporary_files`.

### Limiter

One address, some accounts.  `Post`, `CountAddress`, `CountAccount`, `Check`,
`Forget`, `Get` and `Subtract` are the statements of `login`: `consume` of both
counters, the password, `delete` of one counter and `decrement` of the other,
which is a `get` and an `add`.  Each statement compares with a time that was read
before it.  `windows`, `wrong` and `guessed` count what the properties speak of.

### Sessions and TwoFactor

`Sessions` has one account.  A request reads its row (`version`) and writes
later.  Stamps and remember-me rows carry the proof they came from: which
password, and whether through a remember-me cookie.  `Login`, `Proven`,
`SecondStep`, `PasskeySignIn` and `SignIn` are the ways in; `RememberRow`,
`RememberUser` and `RememberDelete` the statements of
`authenticate_via_remember_cookie`; `AskChange` and `ChangePassword`, `Logout` and
`SignOut` the settings page and the way out.

`TwoFactor` has the columns of an account's app, its passkeys and its recovery
codes.  `Ask` reads the row, and `Confirm` that of a request that turns an app on, with
the secret its setup put in the session: a cookie, so that several requests may bring
the same one.  `Enable`, `Disable`, `Store`, `Destroy`, `Renew` and
`Reset` are the transactions that follow, with `Saved` for a column written by
`save`; `TypeAppCode`, `AcceptAppCode`, `TypeRecoveryCode` and
`ConsumeRecoveryCode` are the second step.

### Teams

`role`, `super`, `account` and `invite` are the tables.  A request is let in by what
its account was (`AskTeam`, `AskInstance`, `AskInvite`, `Follow`) and writes under
the write lock, where the code reads again what it reads again (`UpdateMember`,
`DestroyMember`, `UpdateSuperAdmin`, `DestroyUser`, `Join`, `Make`) and does not
where it does not (`Destroy`, `Store`).  Ids are given out once; an address may
get a second account after the first was deleted.

### UploadStore

`file` and `meta` are the two entries of an upload.  `Arrive` is `admit_upload`;
`Sweep`, `RemoveFile`, `RemoveMeta` and `Admit` the sweep at the start of `save`,
entry by entry; `Open`, `Write`, `Describe`, `Receipt` and `Broken` the rest of it;
`Prune` and `PruneEnds` the sweeper; `Find` and `Read` a tool; `swept` remembers the
links of which something was deleted as expired; `Delete` and
`RemoveAll` the deletion of the MCP; `Crash` a stop between any two.

### CallLog

`waiting`, `pending`, `queued`, `written` and `writing` are the fields of `Queue` and
`Inner`; `writer` the tasks of `write_queue`, each with the batch it took and the
level it read; `rows` the table; `levels` the levels saved so far.  `record` queues
and spawns unless a task writes; `TakeBatch`, `ReadLevel`, `Commit`, `Discount` and
`Publish` are one round of the task, of which every statement may fail; `Flush` and
`Flushed` a caller of `flush`; `SaveLevel` the settings page with its forced prune,
`prune_expired` the one of the endpoint, `DeleteExpired` the delete of both.  Of the
four levels there are two, off and not off: the others keep more columns of the
same row.

### StdioClient and HttpClient

`StdioClient` is one use of an npm MCP.  `caller` is where the use is, `pending` and
`answer` the map of the client and the channel of the one request, `alive`, `killed`,
`held` and `eof` the child and its stdout, `sup`, `exited`, `output_read` and `closing`
the supervisor, `closer` the two calls of `close`.

| action | code |
|---|---|
| `Connect`, `Failed`, `Greeted` | `spawn`, `Client::connect`, `initialize` |
| `RequestFails`, `Answered`, `Reply`, `EndCall` | `request_within`, `Handler::settle`, `call_tool` |
| `ReadStderr`, `Ask`, `NextClose`, `LetGo` | the start that failed, the two `close` |
| `GoAway` | the future is dropped: `PendingRequest::drop`, the handles |
| `SeesExit`, `SeesOutput`, `TakesClose`, `Abandoned`, `Deadline`, `Settled`, `BeginClosing`, `Ends` | the arms of the `select!` of `supervise`, `on_close` |
| `Exits`, `OutputEnds`, `Overflow` | the child, its pipe, `read_messages` |

`HttpClient` is one use of an HTTP MCP.  `stream[s]` is the task of an event stream
(of the answer to `initialize`, of the answer to the request, of the GET that
listens): open, waiting to be resumed, dialling, over.  `PostAccepted`,
`PostAnswered` and `Listen` are the answers of the server to a POST, `Event`,
`StreamEnds`, `StreamCancelled` the loop of `read_stream`, `schedule`, `Wake`,
`Dial`, `Dialled`, `Refused` and `DialFailed` the way to open it again, `CallOver` the
end of the use or of its time limit.  A stream may be opened again as often as the
server ends it; what ends it is that the transport is closed.

### TailnetRequests

`node` is the tailnet the node runs in, `cached` the status its client keeps for two
seconds, `saved` the suffix in the row of the tailnet, `row` that of the MCP with a
secret and a generation, `pool` the connections that are kept, `req` the requests
with the copies they took.  An edit of the MCP is a request too: it decides on a copy
what it changes, and saves that.  `meant` remembers the network that the form of each
secret named, `beside` those the row named when it was saved.

| action | code |
|---|---|
| `NodeMoves` | the node is signed out, expires or is signed in again; the cached status stays |
| `Edit`, `Save` | `find_mcp` and `assign_mcp_from_payload`; `mcp.save` of the columns that differ, and the probe that follows (`test_and_update_status`) |
| `ReadMcp`, `ReadTailnet`, `ReadState` | `connect_http_upstream`, `tailnet_fetcher` |
| `Settle`, `SettleAgain` | `settle_identity`, with the sign-out of the MCPs in the transaction |
| `CheckGeneration`, `Route`, `Reuse`, `Dial`, `Dialled` | `tailnet_fetcher`, `check_pin`, `OverlayNetwork::send`, `dial`, `Connector::call` |
| `NextHop`, `End`, `ConnectionsClose` | a redirect on the same origin, the end of a request, `forget_tailnet` |

### SendMail

`call[m]` is the call that sends mail `m`: attachments (`Attach`, `ReadFiles`, with a
place of `LimitedPlaces`), IMAP (`SignIn`, `Compose`), SMTP (`OpenSmtp`, `Envelope`,
`WriteMessage`, `ReadReply`), the copy (`SaveCopy`).  `told` is what the agent was
told, `delivered` how often the server took the mail.  An agent calls again only when
it was told that the mail is not sent.

## 3. The runs

| run | instance | states | shows |
|---|---|---|---|
| `services` | see below | 82,494 | `OneTurnPerToken`, `KeepsLine` (refinement of `TokenLine`), `TypeOK` of `Turns`; `EveryWaitEnds` (liveness of nine modules) |
| `parts` | see below | 1,266,086 | `DaemonAsAsked`, `RunsItsPackage`, `NoStrayTimer`, `SetUpOnce`, `NoLeftovers`, `LoginBudget`, `SessionOfPassword`, `CodesWorkOnce`, `SomeoneInCharge`, `InviteAdmitsOnce`, `ReadsWholeUntilSwept`, `LogIsTrue`, `ChildEnded`, `SecretsGoAsSaved`, `MailSentOnce`, `PartsTypeOK` |
| `signed_out` | 2 requests of one account | | violation of `SignedOutEverywhere` (finding 4) |
| `codes_kept` | 2 requests of one account | | violation of `CodesWithProtection` (finding 5) |
| `approvals` | 2 calls of one token, 2 people, 2 asks, 2 rows, limit 1, clock 0..2 | 388,668 | `WithinLimit`, `OneOpenRequest`, `SaidOnce`, `DecisionIsFinal`, `KeepsPromise` (refinement of `ApprovalPromise`), `TypeOK` |
| `grants` | 4 requests, 1 code, 1 client, 1 person | 639,283 | `TradedOnce`, `NoneForgotten`, `ReplayEndsGrant`, `RevocationHolds`, `KeepsPromise` (refinement of `GrantPromise`), `TypeOK` |
| `grants_clients` | 3 requests, 2 codes, 2 clients (one without refresh tokens), 2 people (one admin) | 1,416,130 | `LeaversKeepNothing`, `OwnGrantsOnly` |
| `grants_replay` | 3 requests | | violation of `OtherRequestRevokes` (finding 1) |
| `grants_leaver` | 1 request | | violation of `LeaversHoldNoToken` (finding 2) |
| `upstream_refresh` | 2 callers, 2 renewals, updates that fail, no sign-ins or edits | 155,416 | `PresentedOnce`, `WaitersMoveOn`, `EveryCallerAnswered` (liveness) |
| `upstream_signin` | 1 caller, 1 renewal, 1 sign-in request at a time, 1 edit, 2 destinations, 2 generations | 1,443,106 | `SignInIntact`, `TokensStayHome`, `TypeOK` |
| `upstream_failure` | 1 sign-in request, 1 edit, updates that fail | | violation of `SignInIntact` (finding 3) |

The parts of `services` and of `parts`, with their states:

| part | in `services` | in `parts` |
|---|---|---|
| turns | 3 calls of one token, 1 of another, 4 allocations: 17,505 | |
| gate | 2 calls, 2 asks of which one is too large, 1 person, 1 row, clock 0..1: 28,443 | |
| tailnets | 1 tailnet, 2 requests, 2 supervisors: 5,516 | 3 supervisors: 7,736 |
| npm packages | 2 callers, 2 packages one after the other, 2 installs: 12,573 | 3 installs: 42,972 |
| update schedule | 2 saves, 1 schedule, 3 timers: 4,005 | 2 schedules: 11,367 |
| backups | 2 tasks, a file of this instance and one of another: 564 | 3 tasks: 5,511 |
| limiter | | 2 requests, 2 accounts, limits 2 and 1, 2 windows: 33,092 |
| sessions | | 2 requests, 3 passwords, 3 versions: 153,273 |
| second step | | 2 requests, 2 apps, 2 time steps, 1 passkey, 2 sets of codes: 212,208 |
| teams | | 3 accounts of 2 addresses, 1 invite, 2 requests: 104,175 |
| uploads | | 2 uploads to one link, the sweeper, a tool, clock 0..2: 334,273 |
| call log | 3 records, batches of 2, 1 flush: 7,500 | the level saved once more, a day: 95,762 |
| npm process | one use: 964 | the same |
| HTTP use | one use, 2 failed and 2 other resumptions: 5,424 | |
| tailnet requests | | 2 requests or edits, 2 tailnets, 2 secrets, 2 generations, 2 changes of the node: 411,586 |
| mail | | 2 mails, each tried twice, 1 place: 19,785 |

Every property of a passing run has a mutant in `PROJECT.json`: a definition of
the model changed as a plausible slip in the code would change it (a dropped
condition in an update, `>` for `>=`, a lock that is not fair, a cascade that is
missing), under which the same run reports the property violated.  The mutated
definitions stand before the ones they replace.

### Bounds, and why they are enough

* *Turns.*  Three calls of one token are one with the turn, one that waits and
  one that joins while another leaves; the fourth, of another token, can be
  given freed memory.  Slots are used again and again, so behaviours are
  unbounded.
* *Approvals.*  The races the turn excludes need two calls; two asks tell "this
  very call" from another; a second row lets a request come after one that
  lapsed, was used, told or deleted.  With `PendingTime` 1, `GrantTime` 2 and
  `KeptTime` 0 in a clock of 2 ticks, requests expire before, between and after the
  steps of the calls and of a decision, and are pruned; an approval whose update
  comes late is live beside a newer request.  Two people are one who
  approves a request while the other refuses it: `FewAtOnce` lets two decisions wait only
  then, and beside at most one call.  `MaxRows` bounds the
  rows ever inserted (beyond it an insert fails, as a failing database would
  make it), `MaxClock` the ticks.  More tokens share nothing but the id counter.
* *Grants.*  Four requests are an exchange, two that present the same refresh
  token, and a third party (revocation, narrowing, replay of an older token).
  A request runs once, which bounds the run; the number of requests is the only
  bound.  Two clients and two people, with three requests, are enough for one to
  present what belongs to the other.

* *Upstream.*  Two callers are one that starts a renewal and one that joins it, or
  that comes between its end and its outcome; two tasks let a renewal start while
  the one before still has to answer.  Two pairs are one and its successor; a
  third would only repeat that.  Two destinations and two generations let the MCP
  move and move back.  Slots are used again; `MaxPairs` bounds the pairs issued
  (beyond it providers only refuse) and `MaxGens` the generations drawn.

* *Tailnets.*  Two requests are one that holds the turn and one that waits or comes
  after it; three supervisors are one in the map, one being ended and one that
  was aborted and has not gone yet.  Requests come again and again.
* *Npm.*  Two callers are a call that runs while the other updates, again and again;
  three installs are the one in use, the one it replaced and the one being made.
  The row changes its package once, which is when everything is deleted.
* *Schedule.*  Two saves overlap at every step; three timers are the current one, one
  stopped whose tick still runs, and a new one.
* *Backups.*  Three tasks are two imports, one of which finds the place taken, and a
  form, or an import and two exports in line for their keys.
* *Limiter.*  Two requests at once, of the same or of two accounts; `MaxWindows` 2 lets
  a request count in one window and give back in the next; `Over` bounds what a
  counter holds beyond its limit, where only refusals follow.
* *Sessions.*  One request that signs in while the other changes the password or logs
  out, up to twice.  `MaxTokens` 1 bounds the kinds of remember-me rows at a time.
* *Second step.*  Two requests of the same account, each with its copy; two secrets are
  the one that both bring from one session, and that of a setup made later.
* *Teams.*  Two people are the two owners, or super admins, that act on each other; the
  third account is the second address come back.  Requests come again and again.
* *Uploads.*  Two uploads to one link are one that fails while the other succeeds; links
  to different ids meet only in the room they count.  `LinkTime` and `KeptTime` are 2
  and `WholeTime` 1, in the order of the code's 60, 60 and 5 minutes.
* *Call log.*  Three records with batches of two and a queue of two are a full queue, a
  batch in hand and a record that comes while the task ends.  Two tasks let a new
  one start while the last publishes.  In `services` the level does not change.
* *Npm process and HTTP.*  A use has a client of its own; other uses have others.
  `MaxReopened` bounds how often a server ends a stream that was opened again.
* *Tailnet requests.*  Two requests are one that settles the identity while the other
  holds an older copy, or two edits that cross; two tailnets and two changes let the
  node leave and come back.
* *Mail.*  Two mails compete for the one place and the remembered name; a second call
  for each is the retry.

In `EveryWaitEnds` one caller stands for all of its part, which treats them alike:
if another one could wait for good, renaming the two would give a behaviour in
which this one does.

Calls, asks, people and requests that the specification treats alike are permuted
(`SYMMETRY`) in the runs with safety properties only; those with liveness use none.  Deadlock is
not checked: everything may end.  Rows and clock are used up, MCP and token
deleted, all requests answered.

### Fairness

* `services` numbers the processes of each part.  `GoesOn(i)` is what process `i` does
  by itself, weakly fair: the part that moves has its own fairness there, as its
  module states it, and the others no steps.  `GetsLock(i)` is a lock handed out,
  strongly fair because tokio's `Mutex` serves its waiters in order.
* `Tailnets`: `CallerStep` and `SupervisorStep` weakly (waiting for a daemon, its end
  and a log-out have deadlines), `TakeTurn` strongly.  `NpmPackages`: `CallerStep`
  weakly (`npm install` and calls have a time limit), `Lock` strongly.
  `AutoUpdate`: a run ends, as its installs do; tasks go on.  `Backups`: `Work`
  weakly, since a form has `WHOLE_UPLOAD` and an import `IMPORT_DEADLINE`.  Nothing
  makes anybody come, go away, save or upload, a daemon die or a server stop.
* `CallLog`: `Write(w)` and `Flushed(f)` weakly.  `StdioClient`: `CallerStep` weakly, as
  requests, the reading of stderr and the two waits of `close` have deadlines;
  `Supervise` weakly; a child that was killed exits; a stdout that no process holds
  ends, or the supervisor stops waiting for it after its grace.  Nothing makes the
  child answer or exit by itself.  `HttpClient`: `CallOver` weakly, for every request
  has a time limit, and `GoesOn(s)` for the task of each stream.  Nothing makes the
  server answer.
* `Turns` and `Approvals`: weak fairness of `Step(c)` for each call.  The executor
  polls every task that can go on; the lock serves its waiters in order; the
  statements have a busy timeout and the probe of an MCP a time limit, so
  a task at the gate ends.  Nothing is assumed of agents (`Join`,
  `Authenticate`), people (`Decide`, `Record`, `Choose`), time (`Tick`), and callers that
  go away (`GiveUp`).
* `OauthGrants`, `Limiter`, `Sessions`, `TwoFactor`, `Teams`, `UploadStore`,
  `TailnetRequests`, `SendMail`: none.  Their
  properties are about safety.
* `UpstreamOauth`: weak fairness of `Renew(t)` for each task and of `Connect(c)`
  for each caller.  The executor polls them, and requests to a provider have a
  time limit.  Nothing is assumed of calls that come, sign-ins, edits, callers
  that go away, and time.

## 4. What is proved

Every invariant, action property and refinement that a passing run checks is also
a theorem of the specification, for every value of the constants under the
assumptions below.  `theorems` in `PROJECT.json` lists them.  The runs and the
proofs are about the same definitions; TLC evaluated each inductive invariant on
the runs before it was proved.

### Assumptions on constants

Each is named and stated in the module that declares the constants.

| assumption | says | because |
|---|---|---|
| `TurnsAssumption` | finitely many tokens and calls; a call has one token | the bearer of a request is authenticated once |
| `ApprovalsAssumption` | positive limits and times, `None` is no ask | they are constants of the code |
| `GrantConstants` | a code has a client and a person; ids of codes and of requests differ | columns that are not null; names of the model |
| `UpstreamAssumption` | a start and a pair at least; `None` names nobody | `MAX_PENDING_OAUTH_STARTS` is positive |
| `NoneAssumption` | `None` names no request, supervisor, timer or task | it stands for `Option::None` |
| `SessionsAssumption` | an account has a password and a version from the start | columns that are not null |
| `LimiterAssumption` | finitely many requests; at least one guess per address | the limits are constants of `login` |
| `TwoFactorAssumption` | bounds are numbers | |
| `TeamsAssumption` | the account that set the instance up is an account | `onboard` makes it |
| `NpmAssumption` | the row of an MCP has a package; `None` is no install | `current.json` absent is not an install |
| `TailnetsAssumption` | tailnets, "elsewhere", "not yet seen" and `None` are told apart; an MCP has a secret | `Network` is an enum |
| `UploadsAssumption` | a link lasts no longer than a file is kept; the sweeper and tools are no uploads | an hour at most for both (`LINK_MINUTES`, `BUILTIN_UPLOAD_MINUTES`) |
| `LogAssumption` | a batch has a record at least | `WRITE_BATCH` |
| `MailAssumption` | finitely many mails under way | |

`IsFiniteSet` is assumed where the code counts: the references of a line, the
charges of a counter, the places of attachments.

### Shape of the proofs

Every theorem rests on `Init => Inv` and `Inv /\ [Next]_vars => Inv'`, one lemma per
action or per kind of action, and `Spec => []Inv`.  `Inv` is nearly always stronger
than what it is for.  That of a part of `Parts` stands in its own module, before
`Spec => []Inv`, so that TLC can check it; those of the four large modules stand with
their proofs.  The step of a sum is a step of one part or leaves its
variables alone, which is why each part is proved by itself.

**Turns.**  Mutual exclusion is not inductive: a call that kept a line the map has
replaced would run beside the calls of the new one.  `Inv` adds

* `LineInUseIsMapped`: a call that has not finished shares the mapped line.  It
  is kept because `Leave` removes an entry only at count 2: the map's Arc and
  its own (a lemma on `strong_count` shows that with another holder it is at
  least 3);
* `LinesApart`: two tokens never share a mapped line;
* `HeldIsOwn`: an Arc held is that of the caller's own token, as long as the map
  has that line for any token;
* `QueueHolds`: the queue of a line holds exactly the calls in `locking` on it,
  each once.

**Approvals.**  `Inv` adds

* `LineHolds`: calls at the gate stand in the line of their token, once;
  `TurnHeld`: past `waiting`, a call is the head of its line;
* `NoFuture`: no rows at or after `nextId`;
* `CallsOK`: what a call knows is still so.  From `requesting` on, no row for its ask
  is live but those approved late; from `summarizing` on there is room under the limit at the
  time it took; in `consuming`, what it found is unconsumed unless it is gone.
  These survive the steps of others because only a call with the turn of the
  same token inserts or consumes, and decisions, deletions and time only take
  rows out of the counted sets;
* `OlderApproved`: of two rows for one call that are both live, the older was
  approved.  A late update of `decide` can only make such a row live again, so what a
  call on its way to a new request knows of live rows is that they are approved
  (`AllApproved`).

`DecisionsStand` follows from `RowStep`, which says what one step may do to one row: what
is over becomes live only by the update of somebody who began to approve it in time.
`GateKeepsPromise` maps the table and the calls to `ApprovalPromise` and shows, for
each kind of step, the step of the promise it is or that it changes nothing there.
It needs `More` beside `Inv`: a row that waits is not used up (`Fresh`), and a call that
was let through by a row is of the token and the ask of that row (`KnownBy`).

**OAuth grants.**  `Inv` adds

* `Shape`: what `pc`, `call` and `found` say of each other;
* `Rows`: a stored grant has a traded code and a pair issued by a request whose
  grant it is;
* `Spent`: a code that was traded is gone; a refresh token that was traded is not
  the current one of any grant;
* `HistoryOK`: an entry of the history names a stored grant, the one its token
  was issued for.

`InvMore` is what the rest needs, and is the argument a reviewer would ask for:

* `FoundOf`: what a request found is of its own client, and is the owner of the token
  it presented (hence `OwnGrantsOnly`: no statement touches the grant of another);
* `EndsOf`: a request that presented a retired token either left a grant that has
  ended, or is still on its way and has found the owner it is to revoke.  A rotation
  in between does not help a thief, since revoking goes by the id of the grant and
  not by the token;
* `LeftOf`: a code that was there when its person left is neither redeemable nor has
  a grant, for `detach` deletes codes and tokens in one transaction.

`PromiseIsKept` maps each grant, by the code it came from, to a chain of
`GrantPromise`: `Redeem` opens it, `Rotate` renews it, deletions and expiry end it,
and every other statement stutters.

**Upstream OAuth.**  `Inv` says that a copy of the row with the generation of the row
has its destination (`KnownOK`, `FlowOf`, `CallerOf`, `Entries`); that a renewal in the
map is alive and one that saves holds a new pair issued for its basis (`TaskOf`,
`RenewedOf`); that a renewal that asks with a spent token does so because the answer was
lost (`AskOf`); and that a spent pair in the row is being replaced by a renewal based
on it, or was lost (`RowAsk`).  The last two are what makes `PresentedOnce` inductive.
`SignInIntact` and `TokensStayHome` are theorems under `~ DbFails`: with updates that fail
the code violates the first (finding 3).  The invariant holds either way.

**Teams, sessions, second step, limiter.**

* `SomeoneInCharge` is inductive with `NamesOK`, because the transaction of each request
  counts again what it must not end.  `InviteAdmitsOnce` needs that an invite that is
  still usable has admitted nobody (`UnusedAdmitsNone`).
* `SessionOfPassword`: `Dates` says that a stamp of the current version comes from the
  current password, `ReadOK` the same of what a request read before.
* `CodesWorkOnce`: `AcceptedBefore` says that no step of the app's secret was accepted,
  since it was last confirmed, beyond the last one in the row, `SpentIsUsed` that a set whose code was accepted is
  used up, over any interleaving of copies of the account.
* `LoginBudget`: `wrong + Cardinality(Charged) <= Given` weighs the guesses made and those
  paid for but not yet made against what all windows have given; each step moves
  one unit between the sides or adds to the right one.

**Timers, packages, processes, daemons.**

* `NoStrayTimer` is inductive: `replace_job` takes the handle out of the mutex that it
  puts the next one in, and aborts it.
* `RunsItsPackage`: who holds the lock is the one that installs (`HoldsLock`), a call has
  a whole install of what it read (`HasInstall`, `MadeOK`), an install under way is in a
  directory of nobody else (`Apart`), and a call that was handed an install finds it as
  the current or the previous one (`CurrentOK`, `PreviousOK`) until two updates or an
  edit went by.
* `DaemonAsAsked`: a supervisor outside the map is being ended by the holder of the turn,
  or was aborted (`Known`); between the removal of an entry and the end of its daemon
  the turn is held (`HasTurn`, `Between`, `Waits`); a tailnet whose removal was answered is
  marked, and nobody starts it (`GoneOK`).
* `ChildEnded`: the supervisor knows every exit (`SupervisorKnows`), and runs as long as
  there is a child and a transport (`WatchedWhile`).

**Uploads, backups, call log.**

* `ReadsWholeUntilSwept`: the file of an upload under way is its own until it is done
  (`UploadOK`), what metadata describes was written whole (`Whole`), and the sweeper and
  the tools delete only what has expired (`OtherOK`).  All of it is said link by link, of
  those that are `Intact`: nothing sent to them was deleted as expired.  There is no
  hypothesis on times beyond `UploadsAssumption`, which the code meets with equality.
  Without the history variable `swept` it is false (section 6).
* `NoLeftovers`, `SetUpOnce`: every directory on disk belongs to a task that is at a place
  where it will be dropped; a task that imports holds the place, and what it copies is
  encrypted for this instance (`TaskOK`).
* `LogIsTrue`: the records in the queue are the last ones queued, in order; the batch
  of the writer is what comes before them; the rows are strictly ordered and before
  the batch; each row keeps what some level between its queuing and now allows
  (`BatchOK`, `RowOK`).  At most one task writes (`OneWriter`).

**Requests through a tailnet, mails.**

* `SecretsGoAsSaved`: the secret in the row is for the network the row names (`For`):
  its form named it, or the row did when it was saved.  A copy with the generation of
  the row is as good, an edit's too (`CopyOK`); a request that passed its check is
  pinned to a network its secret is for (`PinOK`); a connection counts as sure only if
  it goes where its pin says (`SureOK`).  That it is the network of the form alone is
  false (section 6).
* `MailSentOnce`: what a call knows of the delivery (`MailOK`), and that a place is
  taken by exactly the calls in `Places` (`PlaceOK`).

**All parts.**  `PartsTypes` collects the types of the thirteen parts.

## 5. What is only model-checked

* **Liveness under fairness**: `EveryWaitEnds`, which is `TurnComes`, `EveryCallAnswered`,
  `EveryCallEnds`, `EveryCallerEnds`, `TicksEnd`, `PlaceComesBack`, `FlushEnds`, `CallEnds`,
  `ProcessEnds` and `LeavesNothing` of its parts, and `EveryCallerAnswered`.  Fairness is
  stated with `ENABLED`, about which the prover cannot reason.
* **The violated properties** of section 6, which are not theorems.
* `HttpClient` has liveness only, and no theorem.

"For every value" includes the bounds of the model (`MaxRows`, `MaxGens`, ...): they may be
as large as one likes, but a behaviour has one.

## 6. Findings

1. **A replay can pass as a merely invalid token** (`grants_replay`).
   `rotate_oauth_grant` says the second of two requests with one refresh token
   "is a replay, whether it comes later or at the same time, and revokes the
   grant".  If the other request rotates between its look at the history and
   its select of the current grant, it is answered `Invalid` and the grant stays.
   `ReplayEndsGrant` states what does hold: a token retired before the
   request came, or a lost transaction, ends the grant.
2. **A consent under way outlives the membership** (`grants_leaver`).
   `Team::detach`: "The access tokens they made there stop working", and "Nor
   does a grant they had just made for an MCP client become a token."  A
   consent that read the membership before `detach` can insert its code after
   it.  `LeaversKeepNothing` states what does hold: everything stored before the
   person left is gone.
3. **A sign-in whose save fails is written to a row that moved**
   (`upstream_failure`).  `save_oauth_step`: "When the row moved, nothing is written
   and the step fails: its tokens are dropped".  When the conditional update
   ends in a database error instead, the value still holds the tokens, and
   `oauth_callback` saves it without a condition to record the error status.  An
   MCP moved during the exchange is left with the tokens of the destination
   before.  Without failing updates `SignInIntact` holds (`upstream_signin`).
4. **A sign-in under way outlives the password** (`signed_out`).  `change_password`:
   "Set a new password and sign the account out everywhere."  A sign-in, or a
   remember-me cookie, whose account was read before the change inserts its
   remember-me row after it, and that row signs in.  `SessionOfPassword` states what
   does hold: a session stamped from a password counts only under it.
5. **An app turned on meanwhile loses its recovery codes** (`codes_kept`).
   `settle_recovery_codes` is for "an account that has neither left", but asks a
   copy of the account that is older than the transaction.

### Kept less widely than the code says, without a run of its own

TLC finds each of these when the named property is put in the place of the invariants or
properties of the run.

* **A decision is written after the request's time** (`DecidedInTime`, `approvals`).
  `ApprovalService::decide`: "False when the request was decided in the meantime or has
  expired."  Its update compares with a time taken before it waited for the database
  (`approvals/mod.rs:526`, `:549`).  An approval written late makes the request live for
  another day, beside the one the agent's next call opened.  `DecisionIsFinal` and
  `OneOpenRequest` state what does hold: nothing else opens what is over, and of two
  open requests the older was approved.
* **The last step of an app goes back** (`StepNeverGoesBack`, `parts`).
  `enable_authenticator` records the step of the code that proved the app, "so that this
  code does not sign anyone in afterwards".  Two requests with the setup of one session
  confirm the same secret with the codes of two steps; the one that saves last lowers
  the step, and the later code works again (`web/.../two_factor.rs:192`).
  `CodesWorkOnce` states what does hold: a code works once since its secret was last
  confirmed.
* **A secret is saved beside another network** (`SecretsStayInTailnet`, `parts`).
  `assign_mcp_from_payload`: "Saved secrets [...] must not follow the MCP to another
  origin, network or package".  An edit that stays where it read the MCP saves a new
  secret alone; when another edit moved the MCP meanwhile, the secret is in the row of
  the new network (`mcps.rs:1133`), and the next request sends it there.
  `SecretsGoAsSaved` states what does hold: it goes nowhere but there and where its
  form said.
* **A link takes a second file** (`ReadsWhole`, `parts`).  `UploadStore::save`: "A link
  takes one file".  Links last up to 60 minutes (`LINK_MINUTES`), as long as a file is
  kept, and a request that came in time creates its file later.  When the first file
  was sent at once, the second request finds the name free after the sweep, and a tool
  that found the first file reads what there is of the second under its name.
  `ReadsWholeUntilSwept` states what does hold.

### Observed while modelling, without a run of its own

Statements of the code's comments that hold less widely than they read, or
states a reader may not expect.  None breaks a property above.

* `Queued`: "The line is forgotten when the last call leaves it"
  (`approvals/mod.rs:205`).  Two calls that leave together can both read the count
  3, because each drops its Arc after the body of `drop` (`:235`); the entry stays
  until the next call of that token leaves.  `LineForgotten` in `Turns` states it.
* `resync`: two saves that overlap can leave the timer of the older schedule, and a
  save that is dropped after `stop` leaves none (`auto_update/mod.rs:110`), until the
  next save or start.
* "Requests under way finish on the install they started with" (`runner.rs:340`): over
  one update, not over two (`OutlivesUpdate`).  An edit of the package deletes
  installs without the lock; a call that read the old row can install again what
  was deleted (`mcps.rs:1134`).
* `decrement` may give back in the window after the one it was counted in
  (`limiter.rs:223`).  Over all windows `LoginBudget` holds.
* "The token is used once" (`web/src/auth.rs:248`): two requests that present a
  remember-me cookie at once are both signed in, each with a new one.
* `DELETE /team` and `POST /invites` act on the role the request came with; only
  changes of members read it again.  Two invites to one address can be made at once.
* Changing one's address looks for another account before it saves, in two
  statements (`settings.rs:184`); `find_by_email` then takes the older account.
* `UploadStore`: two uploads count room before either writes, so that
  `MAX_STORED_BYTES` can be passed; a failed upload that stands between its two
  deletes can take the metadata of a later one to the same link, whose file is
  then swept as one without metadata; a stop between them leaves a `.json` alone,
  which no sweep deletes.
* "A stream that delivered its answer is complete" (`mcp/src/client/http.rs:566`): the flag
  is set by a result only; a stream whose answer was an error is resumed until the
  transport is closed.
* A child that exits just before a request is registered gives "Not connected" instead
  of "Connection closed".  Only the child is killed: a process it started may outlive
  it and hold its stdout, which the supervisor stops reading after a grace.
* A request that holds an older status of the node can move the row of the tailnet back
  and sign its MCPs out once more (`core/.../tailnet.rs`): nothing leaks, somebody
  signs in again.  `dial` documents a window that `Sends` leaves out: the node moves
  during the round trip of the dial itself.
* A reply lost after a draft was appended makes an agent save the draft twice
  (`create_draft`); only sending is modelled.
* Records in the queue of the call log are lost when the process stops.

## 7. Plan

Done: all the modules of section 2; theorems for all safety properties and
refinements of the passing runs.  Next:

1. Safety of one use of an HTTP MCP (`HttpClient`): no stream is dialled after the
   transport was closed, as an invariant with a proof.
2. An abstract specification of the upstream sign-in (a row that is signed in,
   renewed, signed out, moved) that `UpstreamOauth` implements without failing
   updates.
3. A refinement for `CallLog`: the rows are those of a log to which records are
   appended in order and from which old ones are cut.
4. Statements of section 6 that hold less widely than they read, each with what does
   hold as a theorem (`LineForgotten` for calls that do not leave together).

## 8. Not modelled

* **Of the modelled parts:** registration and pruning of OAuth clients, tokens made by
  hand, the MCPs a token is limited to, `touch_last_used`; visibility and wording of
  approval requests, encryption; lazy tools, listing and the management tools of
  the endpoint; the MCP server; built-in MCPs in `UpstreamOauth`; `attempt` and the counters in
  memory of the limiter; registration and changes of address; creating teams and
  switching between them; what npm, WebAuthn, Tailscale and the format of backups do.
* **Data and I/O.**  Most of the repository has no protocol that a model checker could
  say something about: clients of outside services and their formats (Google Ads,
  iCloud mail beyond sending, with its own IMAP, MIME and HTML conversion, Strava), parsers (JSON,
  event streams, discovery documents, OAuth messages), a port of a validation
  library, address classification, TLS and DNS, the kernel sandbox,
  pages, forms and the command line, and tests.  These are pure functions over
  strings or calls into the operating system: they keep no state that two actors
  share, and their inputs are beyond small instances.  They are about nine tenths
  of the lines, which is why the map covers a small share of them while it covers
  the files that do coordinate (approvals, grants, upstream OAuth, tailnets, npm
  installs, backup, sessions, second step, teams, uploads, the call log, the MCP
  client).
