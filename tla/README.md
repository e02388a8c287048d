# twentytoo in TLA+

A specification of the parts of twentytoo (a Rust framework for server-rendered
administration workspaces) whose correctness depends on the order of things: what
concurrent requests, callers and administrators may do to each other between two
statements. The modules are translated from the source under `crates/`; TLC checks
them on small instances and TLAPS proves the properties that matter most for every
value of the constants.

    tlc -config MCLoginFlow_plain.cfg MCLoginFlow     # one run
    tlapm LoginFlow_inv.tla                           # one module of proofs

## 1. The system

| Component | State | Operations | Where |
|---|---|---|---|
| Sign-in flow | tables `users`, `login_tokens`, `sessions`, `inapp_events`; the browser's two cookies | `start_login`, `verify_code`, `complete_login`, the POST handlers, `logout_handler` | `twentytoo/src/application/auth/service.rs`, `presentation/handlers/auth.rs`, `twentytoo-db/src/queries/{login_tokens,sessions,users,audit}.rs` |
| Bootstrap | `users`, `roles`, `permissions`, grants | `AuthService::bootstrap`, once per process start | `service.rs` |
| Users area | `users`, `inapp_events` | list, create, update of accounts by an administrator | `presentation/handlers/users.rs` |
| Access control | roles, permissions, groups, memberships, grants | grant and revoke, `load_actor`, `Actor::can` | `twentytoo-db/src/queries/{access,groups}.rs`, `twentytoo-core/src/actor.rs` |
| Request pipeline | none | session cookie to actor on every request, public paths | `presentation/middleware.rs`, `container.rs` |
| In-memory adapter | one map of JSON rows behind a lock; a private copy per transaction | `create`, `update`, `delete`, `apply_mutations`, `begin`/`apply`/`commit`/`rollback`, `get`, `list`, `aggregate`, `stream` | `twentytoo-core/src/{in_memory,adapter,write,query,aggregation}.rs` |
| Resource requests | the resource's adapter; feature flags | list, detail, forms, create, update, delete of one record | `presentation/handlers/{list,detail,forms,mutations,helpers}.rs` |
| Forms, filters, pager, view models | none | `build_payload`, validators, `build_filter`, `build_pager`, DTOs, `form_control` | `application/{payload,query,dto}.rs`, `helpers.rs`, `infrastructure/templates.rs` |
| Registry | the registered resources | navigation, `home_cards` | `presentation/registry.rs`, `handlers/home.rs` |
| Templates, static files, errors, hashing | none | rendering and conversion | `infrastructure/`, `shared/`, `application/auth/{tokens,passwords}.rs` |

**How they interact.** An HTTP request passes the pipeline (two reads: the session, then
the actor with its grants) and reaches a handler with an actor, or, for `/login*` and
`/logout`, without one. A handler is an asynchronous function that awaits one database
statement or adapter method after the other. There are no transactions around the SQL
statements: every one commits by itself. The only state between two login requests is
the step token, named by the hash of a random value the browser holds in a cookie. The
users area writes the rows the sign-in flow reads. The resource handlers use a
`DataAdapter`; the in-memory one is the reference implementation of that trait, with a
lock per method and nothing across methods.

**What is hard about it.** Between two awaits of a request anything may happen: another
request with the same cookie, an administrator's edit, the passing of `expires_at`, the
sweep of expired tokens, the client hanging up (the future is dropped where it stands), or
a failing statement whose error `?` returns. Reads are used after awaits (status, password,
attempts). An error in the middle of a handler or a batch leaves the first half done. The
hazards are listed line by line under `hazards` in `PROJECT.json`, with the properties that
cover each, and a note where the code promises nothing that could be stated.

**What makes each component correct.**

* *Sign-in flow*: a session only at the end of the whole chain of steps taken for its
  account; dead tokens stay dead; the limit on guesses; one creation of a racing account;
  every session audited; every request answered.
* *Bootstrap, users area*: concurrent boots converge on one administrator; an edit is
  applied whole or reported; an administrator does not disable their own account.
* *Access control, pipeline*: the actor of a request holds exactly what its grants give it;
  a revoked grant is gone at the next request; no handler but the public ones without one.
* *In-memory adapter*: the key of a row is its id; uncommitted rows are seen by nobody; what
  a commit may overwrite; what a failed batch leaves; pages partition the rows they page over.
* *Resource requests*: nothing is written without the policy's consent to the record that
  is written; a disabled flag hides every operation; each request writes at most once.
* *Forms*: opening a record and saving it changes what was edited and nothing else.
* *List*: the rows stand in one order, the pages share them out, and who goes through them
  while others write misses no row that stayed where it was.

## 2. The modules

| Module | What it is |
|---|---|
| `LoginFlow` | the sign-in flow and sign-out, one action per awaited statement |
| `SignIn` | what that flow promises: rights that are earned and cashed in, without handlers, cookies or answers |
| `LoginFlow_inv` | its inductive invariant and the proof that every step keeps it |
| `LoginFlow_proofs` | the theorems about its properties, the refinement of `SignIn` |
| `MCLoginFlow` + 5 `.cfg` | its instances |
| `MemoryStore` | the in-memory adapter's writes and transactions under concurrent callers |
| `MemoryStore_proofs` | its inductive invariant and theorems |
| `MCMemoryStore` + 2 `.cfg` | its instances |
| `Grants` | accounts, roles, permissions, groups: the statements, `load_actor`'s grants, `Actor::can` |
| `Bootstrap` (EXTENDS `Grants`) | `AuthService::bootstrap` in several processes on one database |
| `Bootstrap_proofs`, `MCBootstrap` + 1 `.cfg` | its theorems, its instance |
| `UsersArea` (EXTENDS `Grants`) | `POST /users/new` and `POST /users/{id}` behind the pipeline |
| `UsersArea_proofs`, `MCUsersArea` + 1 `.cfg` | its theorems, its instance |
| `Values` | JSON values, rows, fields, and what their texts read as |
| `Listing` (EXTENDS `Values`) | the list: filters, search, sort, pages, cursors, pager links |
| `Forms` (EXTENDS `Values`) | the form: what it shows, what the browser returns, the payload, the merge |
| `Resources` (EXTENDS `Listing`, `Forms`) | the requests on one resource and a reader of its list |
| `Records` | what those requests promise: atomic creates, updates and deletes |
| `Aggregates`, `Registry` (EXTEND `Resources`) | `aggregate`; the home page's cards |
| `Resources_proofs` | the invariant of the requests, its theorems, the refinement of `Records` |
| `Listing_proofs` | that the sort is a line, places, slices, divisions: lemmas about `Listing` |
| `Reads_proofs` (EXTENDS both) | the invariant of the reader, the theorems about the list, the cards and the aggregates |
| `MCResources` + 3 `.cfg` | the instances of all of them |

### 2.1 LoginFlow

*State.* `users`, `tokens`, `sessions`, `audit` are the tables, cut down to the columns the
flow decides on. `req`, `pc`, `result` are what the handler of each request holds: its
arguments and locals, the statement it awaits next, the outcome it answers with. `dropped`
is the set of requests that were abandoned; `jar` the cookies of each browser. A token or a
session is named by the request that minted it, since the code names it by a fresh random
value. Time is not a number: a row may expire at any moment (`ExpireToken`,
`ExpireSession`), each on its own, which covers every setting of the lifetimes and every
clock. `code_ttl` has no counterpart because the code reads only `step_token_ttl`.

*Actions.* One action is one awaited statement with the computation on its result up to the
next await. `start_login` is `Cleanup`, `FindEmail`, then `CreateUser` and `RecordCreate`
for a new address on an allowed domain, then `CreateLoginToken`. `verify_code` is
`LoadCodeToken`, then `Consume` and `CreateLoginToken`, or `Bump` and possibly `Lock`.
`complete_login` is `LoadPasswordToken`, `LoadUser`, then `Bump`/`Lock`, or `SetPassword`
for an account without one, `Consume`, `CreateSession`, `RecordLogin`. `logout_handler` is
`LoadSession`, `DeleteSession`, `LoadLogoutUser`, `RecordLogout`. `Answer` is the response
reaching the browser with its `Set-Cookie` headers. `Drop` is a request that goes no
further: the future is dropped, the process ends, or the awaited statement fails and `?`
returns the error; such an answer sets no cookie, so all three leave the same state. Where the
code ignores an error (`let _ =`, `.ok()`) the action chooses between both outcomes and
goes on. `EditStatus` and `EditPassword` are the statements of the users area's
`update_handler`; the whole handler is in `UsersArea`.

*Left out.* Requests without the cookie they need (they are redirected and touch nothing).
The branch of a token without a user (`user_id` is always given) and of a user that is gone
(no statement deletes one). The GET screens, which write nothing. The hashing: a password
stands for its hash, a guess at a code is right or wrong.

*SignIn* knows tables and rights. A request that has earned nothing yet looks once at the tables and
earns one right: an active or allowed account the right to a first ticket, a ticket and a guess at
the code the right to the next one or to a miss, a ticket and a password the right to try it. It
cashes the right in at most once, for a ticket, for a session or for a miss, and a code or a password
only when the ticket it was earned with is spent. `LoginFlow` implements it: tickets are the rows of
`login_tokens`, and the right of a request is read off the statement it awaits next (`Stage`), so
that a handler which is dropped or fails keeps what it has earned and never uses it. `SignIn` has no
order of handlers in it and still says in one formula what a flow with one statement too few, too
many or in the wrong place would break. That one ticket may be spent for two sessions is in it
(`GiveSession` asks that the ticket is gone, not who spent it), because the code allows it: see
`login_single_use`.

### 2.2 MemoryStore

*State.* `store` is the shared map; `view[c]` the private copy of a transaction of caller
`c` and `base[c]` what it was cloned from; `job`, `batch`, `pos`, `pc`, `outcome` say which
mutations a caller asked for and how far they are. Two parts are there for the properties
and decide nothing: `base`, and the field `by` of a row, the mutation that last wrote it.
A payload is an id (absent, a string, or a number) and one value for all its other fields;
whether the merged row reads back as the adapter's entity type depends on that value
(`Readable`).

*Actions.* Every method takes the lock once, so one action is one method call: `Mutate`
(`create`, `update`, `delete`, or the create half of an `Upsert`), `Retry` (its update
half), `BeginTx`, `TxMutate` (one mutation on the private copy, which nobody else sees),
`Commit`, `Rollback` (also a transaction that goes out of scope). `Proceed` is the loop of
`apply_mutations` and of `TxAdapter::apply`: to the next mutation, or out at the first
error. A transaction may be committed after an error, because `commit` does not look at
the outcome.

*Left out.* `insert`, which seeds the map before the first caller: the seeds are assumed to
carry their key as their id. `get`, `list`, `aggregate`, `stream` are in `Listing`, `Resources` and
`Aggregates`, over a map that changes by single mutations.
The record an update finds is always an object, because every write stores objects, so that
check of `apply_one` cannot fail.

### 2.3 Grants

*State.* `users` and the tables of access control: `roles` and `permissions` by key and code,
`role_permissions`, `user_roles`, `group_roles` and `group_members` as sets of tuples. A row
is named by its unique key (email, role key, code), since no statement changes one or deletes
the row. A permission code is a pair of segments, because `validate_permission_code` accepts
nothing else before the insert.

*Operators.* One per statement that writes, with its constraint (a duplicate key is no
step, the caller decides what a conflict means) and its foreign keys. `Granted` is the second
query of `load_actor`, `Can` is `Actor::can`. The role names and the team of an actor are left
out: no handler decides on them.

### 2.4 Bootstrap

*State.* `boot[p]` is the statement that the boot of process `p` awaits next or how it ended,
`next_code[p]` the turn of its loop. `early` only remembers which boots began before their
administrator's account existed.

*Actions.* One per awaited statement of `bootstrap`. A conflict on the role or a permission
leads to a second read (and to the `expect` after it, a panic), one on the account ends
the boot. `Begin` starts a process, for the first time or again, `BreakOff` is a failed
statement or the end of the process. `OutsideCreate` is an account created by a process
that already serves. A process without `bootstrap_admin` takes no step.

### 2.5 UsersArea

*State.* The tables of `Grants`, the live `sessions`, the `audit` entries, and of each
request its form, its session, the row it has read (`found`) and its next statement (`pc`).
`since` and `overlap` decide nothing: `since` remembers whether, at some moment since a request
arrived, its session was alive and its account entitled; `overlap` holds the requests whose
account somebody else wrote after they had read it.

*Actions.* `LoadSession`, `LoadActorUser` and `LoadGrants` are the statements of the middleware,
`Deny` their failure. `LoadGrants` runs into the handler up to its first await: the
permission, and for a create the checks of the form. `Create` and `RecordCreate` are
`create_handler`; `Find` (with the checks of the form), `SetPassword`, `UpdateName` and
`SetStatus` are `update_handler`. `Fail` is an error or an abandoned request. Meanwhile
sessions end and grants are given and revoked (`EditGrants`); no handler does that, but the
access layer offers it to the workspace that embeds it.

*Left out.* The list and the two form screens, which only read. A malformed email or id: the
first is one more way for a create form to be refused, the second is answered before any read.
New sessions: a request that arrives with one is a request of the instance's `Sessions`.

### 2.6 Values, Listing, Forms

*Values.* A JSON value is a type and a content; a row maps every field to one, or to `Missing`. A
text is a natural, so that texts have the order of their bytes; what a text is when it is
trimmed, read as a number or as an instant, or contained in another, are constants. An instance
gives a handful of texts that tell the cases apart: a padded number, two ways to write one
instant, a date without a time, the words for true, false and nothing.

*Listing.* One operator for each function of the read path: `eq_match`, `range_match`,
`order_match`, `text_match` and `is_in` are the arms of `eval_field`; `coerce` and `build_filter`
make the filter from the parameters of a request; `sort_cmp` and `precedes` are the comparison
that `sort_rows` sorts by. A sorted vector is not built: a row's index is its `rank`, the number
of rows before it, and a page is the set of rows whose rank is in the slice. Whether ranks really
are indexes is the property `RowsInLine`. `build_pager` gives links as the parameters of the
request they lead to.

*Forms.* `form_control` is what a browser sends for the control of a field that nobody
touched: what the template prints, cut down to what the control can hold (a number input empties
a text that is no number, a select what is not among its options). `entry` is one turn of
`build_payload`'s loop, `merge` the update arm of `apply_one`.

*Left out.* Floats (a number is an integer), so the rounding of ids above 9e15 and of averages. A
project of columns, which loses no row. `Or` and `Not`, which no code builds. The sanitizing a
browser does to texts (line breaks).

### 2.7 Resources and Records

*State.* `store` is the shared map of `InMemoryAdapter`; `flagged` whether the resource names a
flag, which is then off: `FlagService::set` has no caller. `pc`, `job` and `seen` are a request: how
far it is, the form its browser holds and what it was opened on, and the record that the policy
was asked about. `wpc`, `walk`, `after` are the reader. `base`, `got`, `twice`, `shrunk`, `grown`,
`resorted` decide nothing: they remember what the reader was shown and whether others have since
moved rows out of their places, or into places.

*Actions.* `OpenNew`, `OpenEdit`, `Detail` are the GET handlers; `Send` is the browser that
returns the form with at most one control changed; `SendKept` sends a create form that was opened
long ago. `Create` is `create_handler` in one step, since its only await is the adapter's `create`.
`update_handler` and `delete_handler` are two: `Read` (flag, `get`, policy, payload, validation)
and `Update` or `Delete` (the adapter's write). `WalkPage` is one page: of `list_handler` followed
by a click on the pager's next link, or of the default `stream` by page number or by cursor.

*Records* knows no form, policy or flag: a request writes one row once or is closed without.
`Resources` implements it with the rows of `store` and the outcome of each request.

*Left out.* A form that is answered with 422 and sent again: it holds the first text of each
control. A record that cannot be read back as the entity: the seeds can, and what was
validated can. Other adapters; the in-memory one has no versions, so `Conflict` of an update never comes.

### 2.8 Aggregates and Registry

`aggregate` over a set of rows, with the groups by value and by interval and the measures; a bucket's
place in the order of the keys decides where a limit cuts. `home_cards` over a sequence of registered
resources, whose counts come from `list_offset`; the n-th card is that of the resource with n - 1
others before it that the actor may view, as in a filtered vector. Both are functions of the
records: `BucketsAddUp` is asked once, in the initial state, of every input of the instance, and
`CardsCountOwn` of every set of viewers in every state. No handler calls `aggregate`.

## 3. What is checked

| Run | Instance | Shows |
|---|---|---|
| `login_plain` | 3 requests, 1 browser, a new account, 2 passwords, limit 1, an administrator who disables and resets; no code step; fairness | `LoginAudited`; `CreatedOnce`: one record of a creation per account that is created; `PasswordJudged`; `RequestsEnd`: every request is answered or abandoned |
| `login_code` | 4 requests, 2 browsers, an active and an invited account, limit 2, with the code step | `TypeOK`; `LockPending`: a token at its limit is live only while its lock is the next statement; `LoginChain`: no step is skipped or taken for another account; `AnsweredTokenIsDead`; `OnlyAdmitted`; `DeadTokensStay`; `ImplementsSignIn`: every statement earns or cashes in a right of `SignIn`, or does nothing there |
| `login_single_use` | 4 requests, 1 account | violated: one step token, two sessions |
| `login_inactive` | the same with an administrator who disables | violated: a disabled account gets a session |
| `login_fresh` | the same, new account | violated: the second of two first sign-ins writes over the first one's password |
| `store` | 3 callers, 6 batches of two mutations, 2 named rows and a uuid per caller | `TypeOK`; `KeyIsId`; `Isolated`; `ErrorLeavesPrefix`; `OnlyOvertakenIsLost` |
| `store_upsert` | 2 callers, a re-import without ids | violated: an acknowledged `Upsert` leaves the row it names as it was |
| `boot` | 3 processes, 2 of one administrator with different passwords, 2 permissions | `TypeOK`; `Seeded`: a boot that came up leaves an administrator who can do what is seeded; `FailsOnlyOnce`; `OnlySeeds`: no account is changed, nothing revoked |
| `users_area` | 2 requests, 6 forms, 2 sessions, 3 accounts, one grant of each table that comes and goes | `TypeOK`; `Authorised`: past the permission only with a session and a right it had since it arrived; `OnlyAdministered`: accounts change by such requests alone, nobody disables themselves; `UpdateLands`; `CreatorOnRecord` |
| `resources` | 2 requests of an administrator and a user with fewer roles and rights, 3 records with numbers, texts, null and missing keys in one column, 5 edits, a reader on one of 4 walks, fairness of the reader | of the requests: `TypeOK`; `SavesOnlyEdits`; `UnseenOnlyBlanked`; `Consented`; `BehindFlagOnlyGrows`; `ImplementsRecords`. Of the reader: `RowsInLine`; `ReaderSeesAll`; `ReaderSeesOnce`; `ReaderEnds`. Of the operators: `OrderAgreesWithEquality`; `PagerFits`; `BucketsAddUp` |
| `resources_range` | the same, with walks that ask for a least price and a latest date | violated: rows within the range are not listed |
| `resources_cards` | the same as `resources` | violated: a card shows the count of another resource |

**The bounds and why they are enough.** A property of the sign-in flow is violated by at
most two racing requests and the one that minted their token: three requests without the
code step, four with it (email, code and two racing passwords). Two accounts are enough to
confuse one for another, two browsers to carry a token minted elsewhere. The limit of 5 is 2 in
`login_code`, so that a token can take a wrong guess below, at and after the limit. `login_plain`
has what the other run has not: a new account, a choice of passwords and an administrator. Its limit
is 1, so that one wrong guess leads to the lock. Its `RequestsEnd` is asked of the email,
password and sign-out handlers; `verify_code` has one read of its own and then only statements
that these have. In the store, two
mutations per batch give a first, a middle and a last position, two named rows and a fresh
uuid the three ways an id can come about, and three callers a batch between the begin and the commit of another
transaction together with a third that overtakes both. A boot races with one other on each conflict, and the third process shows
that two administrators share the role; two permissions give the loop a first and a last turn.
Two requests of the users area overlap in every way two handlers can; a third would only
repeat the part of one of them, since no property compares more than two. The path of a
right from account to code has one link of each kind that is edited, so each of the tables can be the
one that changes between two reads. The bounds are on the sets
only; no counter is cut off by a guard (attempts cannot exceed the number of requests).
In `resources`, one request is opened while the other writes, which is all that a lost update or a
stale consent takes. Three records on pages of one or two give a first, a middle and a last page and
a page that is not full; a writer may remove a row that was shown, one that was not, change the
sort key of either, or add one (with a given id or a uuid) before or behind the reader.
The four walks are the three ways through a list, with and without a sort and a search. The pager
is asked for all totals to 30 on pages of 1 to 3, past the window of nine links at both ends.

**Symmetry** over requests (and over callers and uuids in the store) is used in the passing runs of
invariants and step properties except `boot`, where those sets are interchangeable; `login_plain` and
`resources` check liveness and use none.

**Deadlock** is checked in every run but those of `Resources`: `Quiet` and `Rest` let an instance stutter only when
every request or caller has its answer, so a handler that waits for what never comes would
be reported. In `Bootstrap` and `UsersArea` it says less: a process can always be started again, a
grant revoked again. The runs of `Resources` do not check it: a request that is answered and a reader at the
end have nothing left to do.

**Fairness.** `FairSpec` is weak fairness of `Work(r)`, one request's next statement. The
async runtime polls every ready future and the database answers or fails every statement; a
failure is `Drop`, which `RequestsEnd` counts as an end. There is no fairness of arrivals,
of expiry or of the administrator. `ReadsOn` is weak fairness of the reader's next page, the only
thing `ReaderEnds` needs: a consumer polls a stream to its end, and a crawl follows the links. That the
writers can put off the end only finitely often is because each request writes once; no
fairness of theirs is assumed. It is written out rather than as `WF_`, because TLC would otherwise
search for the successors of every disjunct of the page step to decide whether it is enabled.

**The violations** are six statements of the repository that the code does not keep; they
are listed with the line and the quotation under `findings`. What does hold in their place:

* `login_single_use`: the consume that is documented to let a racing second consumer see the token
  as gone returns a `bool` that both callers discard. `AnsweredTokenIsDead` holds.
* `login_inactive`: the status that is documented to gate sign-in is checked at the email step only.
  `OnlyAdmitted` holds of that step.
* `login_fresh`: of two first sign-ins, the second may write over the first one's password.
  `PasswordJudged` holds: each passes with the password that stands as it passes.
* `store_upsert`: an upsert whose payload has no id creates another row. `KeyIsId` holds of it.
* `resources_range`: `application/query.rs:15` documents range filters by `{field}_min` and
  `{field}_max`. `build_filter` asks for them as `Gte`, and `eval_field` knows a range under `Eq` only, so
  that a list with a bound is empty. If `eval_field` took a range under any operator, `RangeFilters`
  would hold for numbers; dates would still fail, as `range_match` compares numbers alone.
* `resources_cards`: `registry.rs:29` and `:124-125` say that a card has the record count of its
  resource. `home_cards` zips the cards the actor may see with the counts of all. The count is right on
  every card up to the first hidden resource (the theorem `OwnCountIfNoneHidden`).

**Two more disagreements** are not runs. `brainstorms/01-ui-kit.md:150` says of the pagination that
"all links preserve the query string", but `list_handler` (`list.rs:120`) takes the sort out of them: a
reader who sorts and follows the next link is on a page of another order. `ReaderSeesAll` and
`ReaderSeesOnce` are conditional on it (`resorted`) and do not show it. `brainstorms/00-architecture.md:195`
counts updates of accounts among what the audit trail has, but `update_handler` (`users.rs:318`)
answers without a call of `record`, which takes no run to see; of creations `CreatorOnRecord` holds.

**What the model follows although a reader may expect otherwise.** Each of these is the code's
choice as translated:

* `Gt` to `Lte` on an instant compare its RFC 3339 text, `Eq` compares instants: a row that writes
  the instant in another way is equal to the bound and yet above or below it. `Comparable` in
  `OrderAgreesWithEquality` leaves such rows out.
* `create_handler` asks for no flag: `BehindFlagOnlyGrows`, and not "nothing changes".
* `update_handler` and `delete_handler` judge one read and write over another: `Consented` allows the
  record that was overtaken, `SavesOnlyEdits` the value from when the form was opened.
* `build_payload` builds every field, so that a save blanks what its sender was not shown:
  `UnseenOnlyBlanked`.
* Where the id is a text of the form, a create that leaves it empty stores a row under the empty text.
* The previous link of a cursor page subtracts the page length from a start that has it subtracted
  already (`list_cursor`, `CursorStart`); no reader goes backwards in the model.
* Asked for a page past the last one, the pager links that page.

## 4. What is proved

`ConfigAssumption` and `NilAssumption` (`LoginFlow`), `StoreAssumption` and `SeedAssumption`
(`MemoryStore`), `GrantsAssumption`, `BootAssumption`, `UsersAreaAssumption`, and
`ValuesAssumption`, `ListingAssumption`, `FormsAssumption`, `ResourcesAssumption` and
`AggregatesAssumption` are the only assumptions: the constants have their types, `Nil` is none of the
values it stands in for, the map is seeded with finitely many rows under their own ids, and grants,
sessions and their edits name accounts that exist. The conversions are constants of which only this
is assumed: a number that is displayed reads back as itself, trimming twice is trimming once, the
RFC 3339 text of an instant reads as that instant, a text prints as itself, a list of options is
determined by its members, and options and dates carry no space around them; of `truncate`, that the
start of an interval is at or before what it contains, is its own start, and comes no earlier for a
later instant. TLC evaluates the
assumptions on every instance.

**LoginFlow.** The properties are not inductive: nothing in `LoginChain` says why a request
that is about to create a session holds a token of the right steps. `IInv` adds what each
await knows (`LocalsOK`), that a cookie names an answered request (`CookiesOK`: a browser
sends only what an answer has set, so the request that minted a token has stopped
changing), that a token row says what its minting request said (`TokensOK`), the chain of
steps behind every request that has read a token (`ChainOK`), and that a token is dead from
the consume on (`SpentOK`). `LoginFlow_inv` has one lemma per conjunct, one step per action;
the two actions that do something are `LoadCodeToken` and `LoadPasswordToken`, where the
purpose of the row starts a chain, and the rest only carries it along. From `Inductive`
follow `TypeCorrect`, `LoginChainHolds` and `AnsweredTokensAreDead`; `DeadTokensStayDead`,
`LockIsPending`, `LoginIsAudited`, `PasswordIsJudged` and `OnlyAdmittedHold` each need one
more lemma over the actions. `AccountsAreCreatedOnce` needs an invariant of its own, `CreationOK`: an
account that is there and was not at first has exactly one request about to record its creation, or
one record of it. All but three statements are `Calm` about that.

*The refinement.* `SignInImplemented` needs `IInv`, `CreationOK` (the account a request is about to
create has no row) and one more invariant, `CountedOK`: a request stands at a lock only if its
token, when it is still live, has reached the limit. It is not in `IInv` because it needs what no
single request knows, that nobody takes an attempt back (`EveryStepCounts`). Then `StepsMap` takes
one statement after the other. `FindEmail` and `CreateUser` are `Admit` and `Join` (or `Refuse`, or
nothing); `LoadCodeToken` and `LoadPasswordToken` are `GuessCode` and `Open`; `LoadUser`,
`SetPassword`, `Bump`, `CreateLoginToken` and `CreateSession` are `GuessPassword`, `Choose`, `Miss`,
`GiveTicket` and `GiveSession`; `Consume`, `Lock`, `Cleanup`, `DeleteSession`, the expiries and the
edits of an administrator change a table and no right. The audit entries, the reads of a sign-out,
arrivals, answers and drops are none of its business.

**MemoryStore.** `Isolated` is not inductive either: a commit publishes a whole map. `IInv`
says of every row of the map and of every copy which mutation may have written it by now
(`RowOK`: none of a caller that has not come so far, none of a transaction other than the
copy's own unless it is committed), and that a copy agrees with what it was cloned from
outside the rows its mutations name. From `Inductive` follow `TypeCorrect`, `KeysAreIds`,
`TransactionsAreIsolated`, `ErrorsLeaveAPrefix` and, with the second part,
`CommitsOverwriteOnlyTheirWindow`.

**Bootstrap.** Nothing that a boot relies on is ever taken back (`StepGrows`), so the
invariant can say of every statement what is in the tables by then (`PassedOK`), and another
process's step keeps it. `BootSeeds` then follows the way `load_actor` and `Actor::can` go: role
assigned, permissions granted, code held. `FailsOnlyOnce` needs that a boot which meets the
account's conflict is in `early`: had the account been there at its beginning, its read would have
found it. `BootsOnlySeed` is read off the actions.

**UsersArea.** `SinceOK` ties what the ghost remembers to what each read has just seen, `CheckedOK`
carries the checks of the form and of one's own account to the statement that writes,
`LandedOK` says which columns already are the form's, `RecordOK` which request is behind each
new account. `GrantedIsEntitled` connects the query of `load_actor` and the wildcards of
`Actor::can` with the independent definition `Entitled` that the property uses. From `Inductive`
follow the theorems of all five properties of the run `users_area`.

**Resources.** `IInv` carries over the two steps of a write what the first has established
(`JudgedOK`: the flag, the policy on the record that was read, a payload that was not refused), and
over the time a form lies open what it was (`SentOK`: the form of an update is the untouched form of
the record that was opened but for one control). `WhatSteps` sorts every step into creating,
updating, deleting or leaving the rows alone, so that the theorems about writes look at three
cases. `OnlyEdits` needs the lemma `RoundTrip`, over every kind of field: a value that survives its
control comes back from `form_control`, the browser and `build_payload` as itself or not at all.
`UnseenBlanked` needs `EntryOfNone`, what the payload has for a control that was not sent.
`RecordsImplemented` maps a request to its fate and shows that every step is one of `Records` or
stutters.

**The list and its reader.** Of the operators first: the sort keys compare totally and transitively
whatever types the values mix (`OneKey`, `Total`, `Transitive`), so that no two rows have the same
rank and the ranks are 0 to n - 1 (`InLine`); hence `AlwaysInLine`. `PagerFitsAll` is the arithmetic
of `div_ceil` and of the window of links, for every total. Of the reader, `ReaderInv` says where
its position is: the rows of the beginning that it has not seen stand at or behind it (`ToCome`),
those it has seen before it (`Behind`). A write moves rows only one way (`PlacesGrow`: a new row
moves others back, a removed one forward), which is why one property asks that no row left its
place and the other that none came in. `NextStart` and `LastPage` say that the next link and the
end of the list are where the slice ends. From `ReaderInvariance` follow `SeesAll` and `SeesOnce`.

**Cards and aggregates.** What is proved of them is proved of any rows and any registered resources.
The counting of both rests on `Ranks`: where one thing stands before the other and no two stand
level (`Line`), the numbers of what stands before each are 0 to n - 1, one each. Hence
`OwnCountIfNoneHidden`: every card is of a resource the actor may view, and it shows that resource's
count if the actor may view all that are registered before it; and `CutTo`: a limit of n leaves n groups, as
the order of the keys tells all keys apart (`KeysInLine`). The sums are the community modules'
folds, functions chosen to satisfy a recursion, and not RECURSIVE operators; `SumExists` shows that
there is such a function and `SumSteps` what it does, whichever element the fold takes first. The
induction is `SetInduction`, with the property as a set instead of an operator: of the subsets
without it, look at one with the fewest elements. `Parts` says that what adds up over disjoint sets
of rows (`CountsAdd`, `SumsAdd`) adds up over a partition, `Groups` that the groups of a key are
one, `BetweenStarts` which rows a histogram's bucket holds. `BucketsAddUpAlways` is the property of
the run; `EveryStoreAddsUp` says the same of the store at any time, from `TypeCorrect`.

**Only model-checked.** `RequestsEnd` and `ReaderEnds`, because the prover does not handle fairness
and ENABLED. Every other property of a passing run is a theorem.

## 5. State of the plan

The sign-in flow, the store, bootstrap and the users area came first, the resource requests, forms,
list and reader after them, each with its instance, its mutants and its theorems. What would add
most from here:

1. The reader over the transactions of `MemoryStore`: a commit replaces the whole map between two
   pages. `MemoryStore` and `Resources` share no state now.
2. The choice of the actor per path: public paths, and the default actor of an instance without auth.
3. The reader who goes backwards by `before` cursors.

## 6. Not modelled

* *Rendering*: what the templates draw but for `form_control`; columns, detail fields, toolbar,
  navigation and `materialize_computed` choose or add what is drawn and store nothing.
* *Static files, extractors, the mapping of errors to responses, the builder's checks*: stateless
  conversions of one value into another, with no order of steps to get wrong.
* *Hashing and randomness*: two tokens never collide, a password stands for its hash.
* *Calls nobody makes*: `touch_session`, `delete_expired_sessions`, `create_group`, `FlagService::set`,
  the `Or` and `Not` of filters.
* *The database*: migrations, connections and the isolation of one statement are Postgres's.
* *The projection of untyped entities* and rows that cannot be read back as their entity: seeds and
  validated payloads can.
