# Lengua, specified

TLA+ models of the core of [Lengua](../src/README.md), a language-learning
application: a FastAPI server (`src/apps/api/app`), a framework-free core
(`src/apps/api/lengua_core`), Supabase's Postgres and Auth, and a React client
(`src/apps/web/src`). A learner types words, an LLM writes example sentences,
the sentences become flashcards, and an FSRS scheduler asks for them again. The
operator pays for the LLM, so most of the server's machinery is about bounding
that spend; most of the client's is about showing state that is no staler than
it looks.

Paths below are relative to `src/apps/api/` or `src/apps/web/src/` unless they
start with `src/`. The line-by-line correspondence of every definition is in
`PROJECT.json` under `map`.

## 1. Inventory

### Server

| Component | State it keeps | Operations | What is hard | What makes it correct |
|---|---|---|---|---|
| **Rate limiter** `app/ratelimit.py` | per process: a dict of deques of hit times, time of the last sweep | `hit` with eviction, reclaim of emptied keys, throttled sweep | boundaries of the window, a sweep that must drop only what is dead | no window admits more than the limit; bookkeeping is invisible; memory is bounded |
| **LLM cost guard** `app/quota.py`, `app/llm_runner.py`, `app/repositories/usage.py`, migration 0004, `lengua_core/llm/retry.py` | `llm_usage` and `llm_budget` counters, per-request guard, a semaphore of permits | four gates, provider call with retries, increment, finalisation | gates and increments of many requests interleave, midnight, users moving their own cap, failures after the spend, crashes | bounded overshoot of every ceiling, no lost permit, counters that agree, a spent budget stays spent |
| **Review grading** `app/services/review.py`, `lengua_core/proficiency.py` | `cards.fsrs_state`, `reviews`, `proficiency` | grade, manual level, removal of a language | READ COMMITTED: reads without locks, writes that wait for row locks | schedules follow the log; what can be lost is bounded; no deadlock |
| **Batch choice** `lengua_core/scheduler.py` | none | `select_due_batch` | two limits | nothing due is left behind for ever |
| **Discover** `app/services/discover.py`, `app/discover_cache.py` | per process: an ordered dict of previews with their time | suggest, reroll, accept | a cached preview and cards saved meanwhile; eviction order | a preview is fresh, for the right key, and holds nothing its deck had |
| **Generate, cards** `app/services/generate.py`, `app/routers/cards.py`, `app/repositories/cards.py` | `cards` | build and verify cards, save | failure between the paid call and the save; a provider that names words it did not write | saved implies counted; known implies written |
| **Explain** `app/services/explain.py` | `cards.word_explanations` | read or fetch and store a note | cards are read before the provider call and written after it; cards are saved with notes of their own at any time | what is served free was counted or came with its card; a note is lost only to an overlapping request |
| **Prompt store, feature flags** `app/prompt_store.py`, `app/feature_flags.py` | a snapshot with an expiry, a lock | warm, snapshot, invalidate | expiry races, failing reads replaced by defaults | one refresh at a time, a reader always has a prompt |
| **Languages, settings, me** `app/services/{languages,settings,me}.py` | `languages`, `user_settings` | add (check, then insert), rename, remove; set many with a cross-field check | check-then-act under READ COMMITTED | names are unique; new limit <= total limit |
| **Account** `app/services/account.py`, `app/deletion_tokens.py`, `app/routers/account*.py` | profile rows here, the user at Supabase Auth | export; delete in the app and by mail | two systems, no common transaction | a deletion that failed half-way can be repeated to the end |
| **Sessions, RLS, auth** `app/db/*`, `app/deps.py`, `app/auth.py` | a connection pool, a role per transaction | a scoped session per request, a privileged one for counters, a third for prompts | up to three pooled connections per request; a commit in the middle changes the connection | rows of other users are out of reach; nobody waits for ever |
| **Providers** `lengua_core/llm/*`, `app/llm_runner.py` | the operator's keys, a usage sink per call | generate, suggest, explain; retries; parsing | transient errors, worker threads beside the loop | an answer says what became of its own attempts; a span tells its own call |
| **Legacy application** `legacy_streamlit/*` | SQLite tables | languages, levels, cards, grades | pages that are interrupted | the schedule follows the log |
| **Import** `scripts/import_sqlite.py` | a run: rows read, id maps, an open transaction | read, upsert, commit, dry run | two stores that are used meanwhile, repeated and interrupted runs, languages renamed between or during them, equal cards | nothing brought twice, each review at its card, nothing overwritten |
| **Mail** `app/mailer.py` | none | send the deletion link | it may be lost unnoticed | see account |
| **Observability, entry point** `app/observability.py`, `app/product_metrics.py`, `app/main.py` ... | metrics | spans, counters, probes | none that changes the system's state | - |

### Client

| Component | State it keeps | Operations | What is hard | What makes it correct |
|---|---|---|---|---|
| **Review session** `pages/Review.tsx`, `lib/review.ts`, `lib/query-client.ts` | the query cache, the position in the batch | fetch, reveal, grade, restart | a batch that changes under the position, lost and late answers | what lies behind the position is graded; the queue drains |
| **API client** `lib/api-client.ts` | at most one refresh in flight | attach the token, refresh on a 401, retry once, sign out | parallel 401s, requests that outlive their session | a burst shares one refresh and its outcome |
| **Auth provider, guards, active language** `components/{auth,active-language}-provider.tsx` | the session, the chosen language | subscribe, clear the cache on a sign-out; persist, fall back | late answers | the next user starts with an empty cache |
| **Other pages** | forms | - | - | - |

### How they meet

A request passes authentication, takes a row-level-secured session, and, on the
four LLM routes, a `QuotaGuard` with a second, privileged session. The guard
uses the rate limiter, the counters, the provider through the concurrency
limiter, and finalises a log record. Services write cards, levels and settings
through repositories and commit once. The client calls all of it through one
API client; pages share a query cache.

The deployment decides what can interleave: one instance (`max-instances=1`),
one event loop, so code between two `await`s is atomic within the process;
Postgres at READ COMMITTED; requests that can be cancelled or die at any await. Provider calls and
the building of prompts run in worker threads, beside the loop and each other.

## 2. Plan

| # | Modules | State of the plan |
|---|---|---|
| 1 | `SlidingWindow`, `RateLimiter`, `RateLimiterProofs` | done, all of it proved |
| 2 | `Meter`, `CostGuard`, `MCCostGuard`, `CostGuardProofs` | done, its safety proved |
| 3 | `Grading`, `MCGrading`, `GradingProofs` | done |
| 4 | `ReviewSession`, `MCReviewSession`, in `GradingProofs` | done, its safety proved |
| 5 | `ReuseWindow`, `Discover`, `MCDiscover`, in `ProviderCallProofs` (with the writing and saving of cards) | done, all of it proved |
| 6 | `Erasure`, `AccountDeletion`, `AccountDeletionProofs` (with the export and the mailed link) | done |
| 7 | `Preferences`, `MCPreferences`, `PreferencesProofs` (settings and languages) | done |
| 8 | `Overrides`, `MCOverrides`, in `RateLimiterProofs` (prompt store and feature flags) | done, its safety proved |
| 9 | `Sessions`, `SessionsProofs` (pool, sessions, identities) | done |
| 10 | `ProviderCall`, `MCProviderCall`, `ProviderCallProofs` (retries, providers, spans, notes) | done, all of it proved |
| 11 | `Legacy`, `LegacyImport`, `MCLegacyImport`, `LegacyImportProofs` | done, all of it proved |
| 12 | `ApiClient`, in `SessionsProofs` (refresh, sign-out, the cache of the settings) | done, proved for any number of calls and without a run; later: other tabs, the teardown after a deletion |

The order is that of what can go wrong at the operator's or the learner's cost: first
the spend, then what a learner would lose, then what the rest rests on.

`CostGuard` composes the counters with the limiter's verdict and uses `Meter`
twice as its abstract specification. `RateLimiter` stands behind one
nondeterministic answer in `CostGuard` (`Gates(s, allowed)`): that is sound,
since it allows every answer the limiter gives. In the same way the gates of
`CostGuard` are a choice in `ProviderCall` and `Discover`, and the provider call of
`ProviderCall` is a choice in `CostGuard`: each module has the detail of one part and
every behaviour of the others. `Sessions` stands below all of them: it has no rows, and
the others have no connections. `ApiClient` stands beside `ReviewSession`, whose requests are answered or fail without a
reason: both are the one tab, by another query each. `LegacyImport` extends `Legacy` and composes the two
applications with the script between them.

## 3. Modules

### RateLimiter implements SlidingWindow

`SlidingWindow` is the promise: a request is allowed exactly when fewer than
`Limit` grants of its key lie in the last `Window` ticks of a complete history.
`RateLimiter` is `InProcessRateLimiter`: `hits` is `_hits`, `lastSweep` is
`_last_sweep`, and `Hit` is the whole of `hit`: sweep if due, evict, reclaim the
emptied key, decide, append. It runs without an await, so it is one action.
The float clock of seconds is a count of ticks, several to the second so that
the rounding up of `retry_after` matters.

### CostGuard implements Meter, twice

A *slot* is a request in hand; `req[s].pc` is where it is between two awaits.

| Action | Code |
|---|---|
| `Arrive`, `Lookup` | the route; the caches of `/discover` and `/explain` come before the guard |
| `Gates`, `ReadCap`, `ReadUsage`, `ReadBudget`, `GateReadFails` | `QuotaGuard.check`, one action per await |
| `Prepare`, `Acquire`, `AcquireTimeout`, `AttemptFails`, `CallFails`, `CallReturns`, `NothingToAsk` | the service and `LLMConcurrencyLimiter.run` around `call_with_retry` |
| `RecordSuccess`, `RecordFails` | `record_success` and `increment_llm_usage`, one transaction |
| `Save`, `Finalize`, `Respond` | the commit of cards or notes, the dependency's `finally` |
| `Refusals`, `Block` | the four refusals, each with its handler's answer, logged once |
| `SetCap`, `Midnight`, `Restart` | users' settings, the UTC day, the process |

`Meter` is what the guard promises of a family of counters: let a job in below
the ceiling, settle it or drop it later. From that alone follows its bound
`Overshoot`: a counter plus the jobs open on it stay below the ceiling plus
the number of jobs. The global budget and the per-user counters are both shown
to implement it, under the refinement mappings `BudgetMeter` and `CapMeter`.

### Grading

A grade is four awaited statements and a commit. The model keeps what the code
reads when, and the row locks that uncommitted updates hold: `Reschedule` waits
for the card's row, `Upsert` for the level's row, and then writes what was
computed from the earlier read. The FSRS arithmetic is external; a card state is
the sequence of ratings it was computed from, which makes a lost grade visible
as a gap. `since` is history: who changed the level after a grade had read it.

### ReviewSession

One tab, over limits that the learner may change on another page and that an older store
may hold as nonsense (`ResolveReviewLimit`): the cached batch, its fetch, the position, a grade on its way, and on
the server the queue and `select_due_batch`. The behaviour of TanStack Query
(stale data is shown while it is fetched again, callbacks of an unmounted
component are dropped, unused data is collected) is external and modelled from
how the page uses it. `WalkIsFaithful` joins the types, `WalkedIsGraded` and
`NoRepeatInWalk`.

`QueueDrains` is stated under the fairness below and for a learner who, from
some time on, leaves the page only when it says that all is done.

### ApiClient

One tab and whoever signs in to it, one after the other. supabase-js is external: it
stores the session, takes its calls one at a time (so nothing of it happens while a
refresh is on its way) and says `SIGNED_OUT` when a session has ended, at which the
provider clears the query cache. A destroyed query drops its answer, though its request
goes on (`kept`); the answer of a mutation is always handled. The API refuses a token
whenever it likes, since a token may have expired by the time it arrives.

| Action | Code |
|---|---|
| `Read`, `Save` | `useSettingsQuery`, the form on the Settings page; `authMiddleware` takes the token of the moment |
| `Serve`, `Refuse`, `Lose` | `/settings` for the user of the token; 401; any other error, or none at all |
| `Land` | the query's data, the `setQueryData` of the save |
| `AwaitRefresh` | `sessionRefreshToken`: the refresh in flight, or a new one |
| `Refreshed`, `RefreshFailed` | it settles: every waiting request goes out again with the new token, or gives the session up |
| `GiveUp`, `Leave` | the second 401 is returned; `defaultOnAuthFailure`, which may fail |
| `SignIn`, `SignOut`, `AutoRefresh`, `Collect` | the log-in page, the menu, supabase-js, `gcTime` |

`settings` counts the saves of a user, so that older settings can be told from newer ones.

### Discover implements ReuseWindow

`ReuseWindow` keeps the whole history of stores; a key is found exactly when its
latest store is younger than `Ttl` and fewer than `MaxEntries` other keys were
stored since. `Discover` is `DiscoverService.suggest` over the ordered dict of
`InProcessDiscoverCache` (`entries`), with the expiry from the front, the move to
the end and the size cap.

| Action | Code |
|---|---|
| `Ask` | a request, or a reroll (`fresh`), which passes the lookup by |
| `Lookup` | the check of the language and `cache.get`, one step: no await between |
| `ReadKnown` | the gate, the level, `known_words` |
| `Suggest` | the provider's answer, `_dedup_unknown`, `record_success`, `cache.put` |
| `Fail` | a missing language, a refusal, an error, a client that goes away |
| `AskForCards`, `Accept`, `Generate` | words typed or accepted; the provider's sentences, each with the words it says it used, of which `VerifiedUsedWords` believes those that were asked for and stand there as a run |
| `SaveChosen`, `SaveAccepted` | the sentences kept on the Generate page, with a commit; all of an accepted preview |

`Folded` stands for `str.lower` or `fold_word`, whichever the language calls for.
The over-request of five words is left out: what the provider may answer is a
parameter. `PreviewsHold` joins the types (no empty preview is kept, no more than fit),
`OnlyLearnedSince` and `KnownIsWritten`.

### AccountDeletion implements Erasure

`Erasure` is the life of an account in one atomic system: signed up, stores data,
closed (its data gone), erased, never back. `AccountDeletion` is the same life in
two systems: `auth` is `auth.users` at Supabase, `profiles` the table here and
`content` the profiles with rows in the tables that hang on it by `ON DELETE
CASCADE`. All identities have the same mail address, one after the other, so that
links and tokens of an earlier account meet a later one. `authFk` says whether the
database has the foreign key from `profiles` to `auth.users`: migration 0006 adds it
only where it can, and deletion must not rest on it.

| Action | Code |
|---|---|
| `SignUp`, `RenewAccess` | Supabase Auth, with the trigger `handle_new_user` |
| `AskToWrite`, `Insert`, `Commit` | any request that writes a row of the account (`add_language` stands for all): the INSERT needs the profile's row and locks it until the commit |
| `AskToExport`, `ReadProfile`, `ReadRows` | `export_account`: the profile, then the tables, each as of its own statement |
| `AskForLink`, `FindByEmail`, `FindViaAdmin` | `request_account_deletion`: the address in `auth.users`, or in the pages of the Admin API, where it can be missed |
| `SendLink`, `Mail` | the signed link, and a mail that arrives or does not |
| `AskToDelete`, `FollowLink` | `DELETE /account` for the token's account; `verify_deletion_token` for the link's |
| `Purge` | `_purge_profile`: delete, cascade, commit |
| `EraseAuth`, `EraseAuthUnheard` | `_admin_delete_auth_user`: deleted or gone already; deleted, but the answer was lost |
| `Fail` | any refusal, error, rollback or death of a request |

A request is verified by its token alone (`get_current_user` asks nobody whether
the identity still exists), so `SignedIn` outlives the account.

### Overrides

The prompt store and the feature flags are two copies of one design: a table read
into one snapshot with a TTL, refreshed under an `asyncio.Lock` with a second look.
The table is created and seeded by a migration while the code already reads it
(`CreatePrompts`, `CreateFlags`); until then a read fails like any other.
`store` says at the start which of the two it is; they differ only in what a caller
does with the snapshot. `age` is the clock less `_fetched_at`, up to the TTL, and
`gone` is history: how long ago the table last held a version.

| Action | Code |
|---|---|
| `Ask` | `warm`, `_table_overrides`: a fresh snapshot is served, an expired one sends the caller to the lock |
| `Enter` | under the lock, `_expired` once more |
| `Select`, `Answer`, `ReadFails` | the SELECT, its rows folded into a snapshot, and the defaults in place of rows that could not be read; `Install` is the assignment with the time of the fetch |
| `Resolve` | `is_enabled`, `public_map` |
| `Build`, `BuildRest`, `Sent` | the worker thread: `_capture_overrides`, then each fragment out of the captured map |
| `Cancel` | the request is cancelled, or gets no permit |
| `CreatePrompts`, `CreateFlags`, `Publish`, `StoreTick` | the migrations, the operator, the clock |

`invalidate` is called by tests alone and is left out. The wait for a permit lies
between `warm` and `Build`, so the snapshot a prompt is built from is the one that is
active then, and may be older than the one that was warmed.

### Preferences

Settings and languages are one pattern: a check that locks nothing, then writes that
wait for what other transactions have written and not committed, then one commit.
They share no table, so `service` says which of the two a behaviour is about. `name`
maps the ids of languages to their names, `level` to what is known of the learner's
proficiency in them.

| Action | Code |
|---|---|
| `AskToSave`, `CheckLimits`, `Write`, `CommitSave` | `set_many`: the bounds, the cross-field check, one upsert or delete per key in the order of the body, the commit |
| `AskToAdd`, `AskToRename`, `LookUp` | the routes and `get_by_name`: the oldest row of that name in any case |
| `Find`, `LockRow` | `get` by id; the UPDATE or DELETE reaches the row, which may be gone by then |
| `ClaimName` | the unique constraint, which compares exactly |
| `CommitName`, `CommitRemoval`, `SetBand` | the commits; the starting band the client sends after `created = true` |
| `Fail` | the session is closed without a commit: an error, a lost client, a deadlock that Postgres ends |

A DELETE waits only for a row it can see. A save that clears a limit which another
save is about to insert does not wait for it, and the two together leave half of
each; `SavesAreWhole` is therefore about saves that set both limits, and for others
`LimitsOrdered` says when the limits can be out of order (`skewed`).

### Sessions

A request has up to three sessions: its own, bound to its user (`main`), the privileged
one of the counters (`usage`), and the one of a prompt store that is refreshed on its way
(`inner`). Each takes a connection of the pool at its first statement and gives it back at
commit, rollback or close. `conn` is the role and the claims that a connection's
transaction runs with; `req[r].held` the connections a request holds.

| Action | Code |
|---|---|
| `Arrive`, `Authenticate` | the route; `decode_supabase_jwt` by the algorithms the settings allow |
| `Checkout` | the pool and `_after_begin`: SET LOCAL of role and claims, in every transaction of the bound session |
| `Work` | a statement of any service on its user's rows, with or without a commit after it |
| `ReadCap` ... `Save` | a gated request, which keeps two connections through the provider call and may ask for a third, under the lock of the prompts |
| `Purge`, `DeleteIdentity` | `DELETE /account` on the privileged session |
| `Ping`, `ProbeTimeout` | `GET /ready` |
| `PoolTimeout`, `StatementFails`, `Close` | the errors, and the dependencies that close every session |

### ProviderCall

What happens between the guard and the vendor. `call` is a request's own record, `sink`
the `TokenUsage` of its context, which the worker thread writes and the loop reads,
`span` the `llm.call` span and what was counted for it. A usage is told by the request of
the vendor it belongs to, so that the tokens of another call would be seen.

| Action | Code |
|---|---|
| `Start`, `LookUpNote`, `LookUpPreview` | the provider is built, which needs the operator's key, before any cache is asked; a note on any card of the sentence, or a preview in reuse, is the answer |
| `Check`, `Prepare` | the gates (CostGuard's) and the start of the span; the language |
| `Dispatch`, `Acquire`, `AcquireTimeout` | `run_provider`, the permit |
| `AttemptFails`, `AttemptAnswers`, `NothingToAsk` | `call_with_retry` for each provider: what is repeated, what is raised, what becomes of a response that is no list |
| `Returned`, `Raised` | the permit, the span, the tokens; the handlers |
| `Record`, `RecordFails`, `WriteNotes`, `WriteFails`, `Finalize` | `record_success`, `set_explanation` over the cards as they were read, the end of the span |
| `SaveCard` | `save_cards`: one more card of the sentence, with the notes of its generation or none, at any time |

A note on a card is there because somebody explained the word or because the card was
saved with it: `/generate` writes notes, `/cards/save` keeps them, and `LookUpNote` serves
both free. The histories `paid` and `given` tell the two apart. Cards of one sentence that
are saved one after the other may have different notes; `beside` is history, the cards that
were there when a card was saved, if no explanation was under way then. On these an
explained note must be too (`NotesPaidAndShared`).

### LegacyImport

`Legacy` is the predecessor: a SQLite file and the transactions of its pages. A card is
its sentence and direction; `last` stands for its schedule, by the time of the grade it
came from. `LegacyImport` adds the account of one user in Postgres (`dst`) and a run of
the script (`imp`): `got` is what it has read, `mine` the rows of its open transaction,
`langMap` and `cardMap` the ids it has found or given. What the script sees is committed
rows and its own (`Seen`); what it refers to cannot be deleted until it ends (`Locked`), and a
language it has given rows to cannot be renamed either (`KeyShared`): the name is part of a
key. `renamed` and `brought` are history: in or after which run a language got another name,
and which cards came with which run.

| Action | Code |
|---|---|
| `Read` | `read_sqlite`: one SELECT after the other, without a transaction |
| `EnsureProfile` | the profile is there, is made, or ends the run |
| `UpsertLanguage` ... `UpsertSetting` | one upsert by its natural key each, parents first |
| `LanguageVanishes`, `ParentGone`, `Stopped` | a row deleted or renamed between two statements, a foreign key that fails, an interruption |
| `Commit`, `Rollback` | `run_import`, and its dry run |
| `AppAddLanguage`, `AppRenameLanguage`, `AppDeleteLanguage` | the user in the new application (`LanguagesService`) |
| `AppSaveCards`, `AppGrade` | `/cards/save`, also of cards that are there already, since no key forbids it; `/review`, with the level if it moves |
| `AppSetLevel`, `AppSaveSetting`, `AppDeleteAccount` | levels and settings set by hand; the account goes with all below it |

The names of `LegacyImport` are different names in any case: the look-up of the new
application, which folds the case, is in `Preferences`. Three things the user can do are
what the properties have to except. A card the user saves may equal one the script brings,
before it or after; so `ImportedOnce` is about the cards the script brought (`brought`). A
language renamed after a run is not known again by the next, which makes the old name and
brings everything under it; so it excepts cards whose language was renamed since
(`RenamedSince`). And a language may be renamed while the script knows it by its id only:
its cards then arrive in it under its new name, which `HistoryArrives` allows for names
changed during that very run.

## 4. Runs

| Run | Instance | What it shows |
|---|---|---|
| `rate_limiter` | two keys, limit 2, window of 3 ticks, 2 ticks to the second, no free room in the dict (`MaxKeys = 0`), clock to 7 | what a limiter that forgets nothing would allow is allowed, so no window admits more than the limit; `Retry-After` is exact; stale keys are swept within two windows |
| `cost_guard` | two requests of one user to `/generate` and `/explain`, one permit, two attempts per call, two days, one restart | permits are conserved, the books are in order (counters agree, kept implies counted, one line in the log, refused for good reason), counting stays on the day read at the gates, both counters are metered, every request ends, a spent budget lets nobody in any more that day |
| `cost_guard_overshoot` | three requests, one permit, budget 1 | violation, see section 7 |
| `grading` | two handlers, three grades, two cards (imported and generated), overrides inside and beyond the scale, removal of the language | what a grade cannot lose, and that the row locks never block for ever |
| `review_session` | three cards that become due three times in all, limits that change on the way, one of them no number, one grade in flight | the walk skips and repeats nothing while its batch stands; a staying learner drains the queue |
| `discover` | two requests, three keys, room for two, a word in two spellings and a phrase with it, window of 2 ticks, four requests in all | a preview fits the deck it was made for; the cache is as good as one that forgets nothing; what counts as known was written |
| `account_deletion` | two accounts of one address, two requests in hand, with and without the foreign key, one mailed link | nothing outlives its account or comes back, success is never claimed falsely, an export never has rows without their profile, a link spares a later account, a half-done deletion is finished by repeating it |
| `provider_call` | each vendor, with and without its key, two calls of any kind, one permit, two attempts, three kinds of fault, two words and two cards that are saved at any time with any notes | each call is answered for what became of its own attempts, spans and counted tokens are its own, notes are paid for and shared, and lost to overlapping requests only |
| `overrides` | either store, two callers, three versions of a table that is created meanwhile, a TTL of 2 ticks, answers that take up to one tick more | nothing withdrawn is handed out for longer than a TTL, no prompt mixes versions, every waiter gets on |
| `preferences` | two handlers, four requests; saves of one limit, of both in either order, that clear, that hold no number, that are refused; three spellings of two names | a check holds unless another commit came in between, a form is stored whole, a re-add keeps the level |
| `sessions` | two requests of any kind by two users, three connections, two statements, one expiry of the prompts | nobody sees another one's rows, connections come back clean and all of them, requests that wait for each other's connections end |
| `legacy_import` | one language and two names for it, one sentence (two cards), two reviews, two runs of the script, a rename, equal cards, a deletion of language or account beside it | what it brings is there once, complete, at the right card; what was there stays |

### Bounds and why they are enough

*Rate limiter.* A window can only be overfilled by a hit evicted one tick too
early or a log swept too early; both need one window and one tick, and the clock
runs for two windows and one tick. Two keys are the least for a sweep on
behalf of another key.

*Cost guard.* An overshoot needs two requests past a gate; the third, in
`cost_guard_overshoot`, shows that it grows with the requests and not with the
permits. One permit makes requests
queue behind a call. `MaxDay = 1` gives one midnight, `MaxRestarts = 1` one crash
at any step. `/generate` is checked up front and saves nothing, `/explain` looks into its
cache first and saves after it was counted: the other two routes combine these halves. The
run stores no caps of users' own (`Overrides = {}`), which would double it several times;
the theorems below hold for any, and for any number of requests, days and routes.

*Grading.* Two handlers are the least for a lost update and a deadlock needs no
more where every grade takes two locks; the third grade comes after a lost one
and shows what the schedule remembers. Ratings 1 and 4 nudge in opposite
directions, and 2800 lies beyond the scale.

*Review session.* A batch of two out of three cards leaves one behind for the
next batch, and one new card per batch makes the limits disagree; a total that is no number
takes its default, which is less than three. `MaxDue` bounds how often a card becomes due.

*Discover.* Three keys are one more than fit. A key stored again in place of
moving to the end takes four requests to be noticed. The raw sentences name a phrase that
is not in them, a word twice, and a word in another spelling.

*Account deletion.* Two requests are the least for a writer beside a purge and for
two overlapping deletions; the second account is the one that must be spared. A
link lives for the tick it was mailed in and an access token for one tick more,
which leaves room for one expiry of each before the clock stops at 1.

*Overrides.* Two callers are the least for one that waits while another reads, and
two versions the least for a torn prompt; the third is the seeded one. `Ttl = 2` leaves a tick inside the window.
`ReadTicks = 1` bounds how long an answer of the table may be on its way; the bound
of `ServedInTime` is stated in it. Times are relative (`age`, `gone`), so the run has
no end and no bound on its length.

*Preferences.* Two handlers are the least for a check that is overtaken and for a
deadlock; the third and fourth find what two overlapping ones left behind. Two spellings
of one name are the least for a twin, the other name for a rename.

*Sessions.* Three connections are the fewest that let one request refresh the prompts on
its way to the provider, and few enough that two requests hold them all and both want
another, which is the wait that has to end. A plain request of two statements can commit
between them.

*Provider calls.* Two attempts, one fewer than the code makes, are the least with a
repetition, and a second failure that must not be repeated; the theorems hold for any number.
Three kinds of fault: one that both vendors repeat, one that only Groq does and one that is
never repeated. Two cards are the least for one that is saved beside another or while that one
is explained. Calls, words and cards are interchangeable, which the run uses as symmetry;
what becomes of notes does not depend on the vendor, so the second card is saved with one of
the vendors only (`OneVendorsCards`).

*Import.* One sentence gives two cards; two seconds and two reviews give a grade before
and one after an import; two runs are the least for a repetition, and a second name is the
least for a rename. One language at a time
is in the source (`MaxLanguages` bounds its ids): reviews that meet the wrong language's
card are out of this instance, though not those that meet the wrong card. The constraint
`InPhase` leaves out steps that commute: the script touches the source only while it reads
and the target only while it writes, and of a table of the target the user's steps are taken
before the script is through with its own rows of it; names change between two runs or while
the script knows a language by its id only. A run that is stopped before it has written
anything leaves what a rollback leaves. `Small` bounds the sum of cards and reviews on both
sides: enough for cards of the user that equal the source's, and a review or two of them; a
source with a level has no reviews besides. None of these is assumed by the theorems.

`CHECK_DEADLOCK FALSE` is set in `Grading.cfg`, `Discover.cfg`, `AccountDeletion.cfg`,
`Preferences.cfg` and `LegacyImport.cfg`: there the bound on requests, or on the clock and
the accounts, ends the behaviour. All other runs check for deadlock.

### Fairness

* `CostGuard`: weak fairness of what the server does for each request. The event
  loop runs what is ready; statements, commits and provider calls return or raise
  (the HTTP client and the pool have timeouts), and the wait for a permit is
  timed. Weak fairness is enough because the timeout of the wait stays enabled
  while the permit comes and goes.
* `Grading`: strong fairness of each handler: Postgres grants a row lock in the
  order of waiting, so a handler for which the lock comes free again and again
  gets it.
* `ReviewSession`: `staleTime` passes; the network and the server answer at last
  (strong: a fetch may be started anew before it answers); the learner goes on
  (strong: what the learner can do is interrupted by answers). Nothing forces the
  learner to leave early, or a grade to succeed the first time.
* `Sessions`: weak fairness of what the server does for each request: statements and
  provider calls return or raise, and the wait for a connection is timed. Whoever holds
  a connection and waits for another gets one or times out; nobody has to get one.
* `AccountDeletion`: weak fairness of statements, commits, reads and mail, which end by
  themselves; strong fairness, per account, of asking to delete, of the purge and of
  the erasure at Supabase. The last three are what "can safely retry" assumes: the
  owner asks again after a failure, and not every attempt fails. `Fail` stays
  possible at every step.

* `Overrides`: weak fairness of a read, which answers or fails; strong fairness of
  taking the lock, because `asyncio.Lock` wakes its waiters in order. Neither the
  clock nor the operator nor a cancellation has to happen.

Every safety property is checked without using fairness.

## 5. Proofs

A proof module has the theorems of the component it is named for, and four have those of a
second one as well: `RateLimiterProofs` of `Overrides`, `GradingProofs` of `ReviewSession`,
`SessionsProofs` of `ApiClient`, `ProviderCallProofs` of `Discover`. `ApiClient` comes in as
an instance; the others are extended, so their initial predicate, steps and specification
have names of their own (`StoreSpec`, `TabSpec`, `LearnerSpec`).

`RateLimiterProofs`. The invariant `LimiterInv` says what forgetting leaves: the log of a
key is a suffix of its grants, and what was dropped from it (`Forgotten`) is older than a
window, because logs are in the order of the clock. So the live part of the log is the
part of the grants inside the window (`LiveIsYounger`), and both limiters count the same:
`LimiterIsSlidingWindow`, a refinement with a step for each outcome of a hit. That a
refusal's `Retry-After` is exact needs the oldest live hit to be the one whose end of window
frees the slot, and the rounding to whole seconds (`RetryAfterIsExact`). `StaleKeysAreReclaimed`
needs `Swept`, which bounds the age of the keys by the time of the last sweep and holds
although a sweep is throttled to one per window.

Its second part is `Overrides`, the store of the prompts and that of the feature flags, which
is the same code. A
prompt under way is of the one map captured for it, as far as it is built (`Whole`); no
action of the event loop touches it, so it is sent whole (`PromptsAreWhole`). `Recent` bounds how
long ago the table held what is in force, by its age and the longest answer; this needs that
an answer under way is of a version the table held since the read began, and that only one
caller reads at a time, which the lock in the types says. What is served is then either what
has not expired or what was just read (`SnapshotsAreRecent`).

`CostGuardProofs`. `GuardType` is inductive by itself. The refinement needs two
facts about a request past its gates, `GuardInv`:

* `DayPinned`: past its first gate a request has a day, and keeps it: both gates
  and the increment use it, so a midnight cannot move it to another counter;
* `CapHeld`: the cap a request compares its count with is at most the server's
  ceiling for that user, kind and day, whatever was stored since it was read.

With it, every step of the guard is an `Admit`, `Settle` or `Drop` of the meter or
leaves it alone: `BudgetRefinesMeter` and `CapRefinesMeter`. The bounds
`BudgetBound` and `CapBound` are then the meter's own: `MeterOvershoot` shows, for any finite
set of jobs and any natural ceilings (`Metering`), that its bound is inductive once written
per key over the set of open jobs. Admitting a job adds one to a counter that was below its
ceiling, settling moves one from the open jobs to the counter, dropping removes one
(`MeterAdmits`, `MeterSettles`, `MeterDrops`, with the cardinalities of finite sets). These
lemmas are about values of the meter's variables, so both mappings can use them.
`PermitsAreConserved` is inductive together with the types: every step either
leaves both the semaphore and the set of calling requests alone, or takes one
from one and gives it to the other. `BooksOf` says what the record of a request shows
at each stage of what was logged, counted and kept for it; with it the parts of
`BooksAreInOrder` that are no sum are inductive (`BooksKept`), a refusal for the budget
because counters only grow within a day (`BudgetOnlyGrows`). The sum, `CountersAgree`, is
a fold that takes the elements of a set away one by one, in an order that depends on the set
alone. So the sums before and after a step take the same elements in the same order, and
differ by one from the subset on that has the counter that was bumped (`SumGrows`, by
induction over the number of elements; `SumIsThere` shows that the fold is defined at all). `CountedOnItsDay` follows from
the part that the day read at the gates is the day of the request.

`GradingProofs`. `GradingType` is inductive. `SameCardIsSerial` needs `SerialInv`:
a handler past its flush holds its card's row until it ends, no two handlers hold
the same row, and until the flush nothing is in its history. `LatestCounts` is
inductive with the types, since only `Commit` touches schedule and log, and both
at once. `SchedulesFollowLog` needs `LogInv`: what a handler has read, and what it
is about to write without its own rating, embeds into the log, which only grows;
the lemmas `EmbedsGrows` and `EmbedsBoth` carry an embedding over an append.

Its second part is the page the grades come from, `ReviewSession`. `WalkFaithful` is the
conjunction the run checks, from `TabInv`: of a walk that was not moved, what is done is
exactly what lies before the position (`WalkInOrder`), and at most one grade is still the
page's own, of the card that is shown (`GradeInOrder`). `WalkedIsGraded` alone is not
inductive: an answer is for the card that was shown when the grade was sent, and only the
second part says that this is the card it takes the walk over. That no card is sent twice
rests on batches without repeats. `select_due_batch` filters, cuts and joins, and each keeps
that (`OnlyBatches`, `FirstBatches`, `JoinedBatches`); the filter is a recursive function,
whose values are known by an induction over the numbers up to the length (`UpTo`, from
`LeastNumber`: every set of numbers has a least one), and so for batches of any length.

`AccountDeletionProofs`. The inductive invariant `DeletionInv` adds to the types: a
request in hand, and a token, belong to an identity that was handed out
(`JobsOfBorn`, `SignedInBorn`), so `SignUp` never collides with one; a writer that is
about to commit still has its profile (`WriterHolds`), which holds because the
purge waits for the row; the profile goes before the identity and a request that is
at Supabase has no profile any more (`PurgedFirst`), so that the foreign key has
nothing left to cascade to and its absence makes no difference; and who was told
has no identity (`ToldInTime`). From it `SignUp`, `Commit`, `Purge` and `EraseAuth` map
to the steps of `Erasure` (`DeletionImplementsErasure`), a repeated purge or erasure
to a stutter. `SuccessorIsSpared` is an action property: who asked for a purge was signed in
to the account or came with a link mailed for it (`Entitled`), a title that no step takes
away (`TitleKept`).

`SessionsProofs`. The invariant `SessionsInv` joins the types, `ConnectionsKept` itself
(`LentOnce`, `IdentityKept`) and `Fits`, what is true of a request by its stage: past its
token it has a user, before it no connection, and what it saw so far was its user's. Every
step but a checkout only gives connections back, which is one lemma (`Release`, with
`Keep`, `GotoStep` and `GiveBackStep` on top of it); a checkout takes a connection that is as
it came and puts the request's identity on it, if it is the session of a user. `OwnRowsOnly`
follows from `Fits`: a statement of the main session sees by the policies the rows of the
claims on its connection, and these are the user's.

Its second part is the other end of an identity, `ApiClient` (as the instance `Client`, with
variables of its own). The invariant adds two facts to the types. A query that is still kept
was asked, and will be sent again, with a token of the session's user (`KeptIsOwn`): a
refresh renews the session for the same user, and the end of a session lets go of every
query, so what lands is the user's own (`FetchedStaysOwn`). And whoever waits, waits for
the one refresh in flight (`WaitsForInFlight`), so the step that wakes one wakes all
(`BurstShares`). `ApiClient` is proved only: no run instantiates it, and that a call ends is
neither checked nor proved.

`PreferencesProofs`. All the properties of the run follow from one invariant,
`PreferencesInv`, in two parts that share the types. For languages (`LanguagesInv`): whoever
has looked a name up and was not overtaken since meets no other row of that name, except
rows that were themselves named late (`SeenBy`); every commit of a name overtakes all
who have looked one up, so this survives everything but the request's own commit, where it
is `NoTwins`. It rests on rows that stay while they are locked, by one transaction at a time
(`OneHolder`), and on ids that are never handed out twice, which is also what keeps an added
language out of what its learner knew (`Fit`, for `ReAddKeepsLevel`). That a look-up finds
somebody whenever there is a match (`OldestIsThere`) is the well-ordering of the ids. For
settings (`SettingsInv`): what a save that was not overtaken leaves behind, taken from the
rest of its body, from what it has written and from what is stored, in this order, is in
order at every step of the writing (`InOrder`), and a form has both limits written or to come
(`WholeForm`); `WriteHead` says what the rest of a body still determines.

`ProviderCallProofs`. `Tells` is what a call knows at each of its stages, of its own record,
its span and its sink, and of nobody else's: until it asks, it has met nothing; while its
thread works, its sink is empty and its faults were temporary; when it is back, the sink has
the usage of its last request and the retries before it. A step of one call keeps this
(one lemma per operation, `...Keeps`) and leaves the records of the others alone (`Aside`),
so `SpansTellTheirCalls` and `AnswersAreHonest` are what it says at the last stage. For the
notes, `CardsKnown` is the property of the cards as they are, and `HasRead` relates every
explanation under way to them: the notes it has read have the property too, since it will
write them back; what is on a card was read by it or has appeared since; and a card it has
not read was saved beside it, so nothing is said of the cards beside that one. Whoever writes
over a note had not read it then, and knows it as one that appeared (`OnlyOverlapLosesNotes`).

This invariant was not inductive at first, and rightly: with three overlapping explanations
the second can bring back a note that the first had lost, and the third lose it again. The
history `since` kept only the word that a call had explained; now it has every note that
appears. Two calls, as the run has them, cannot tell the difference. The same proof showed
that `AfterFault` left two cases of its outcome to overlap: which error is raised when the
last attempt meets a fault that is not repeated. Both are corrected in `ProviderCall`.

Its second part is what such calls are made for, `Discover`. `PreviewsAreNew` rests on what
`_dedup_unknown` leaves of any suggestion (`DedupIsNew`): the fold goes word by word
(`DedupTakes`), and no step keeps a word that is known, or there already, by its folded form.
That this outlives the request is part of the invariant: a cached preview is new to the deck
it is kept with, and what a request has read grows no smaller than what was known when it was
made (`Carries`). `CacheKeepsPromise` is the refinement of the reuse window. `Mirrors` says
how the cache stands to all that was ever stored: its entries are, in order, the latest stores
of their keys from some store on, and every latest store before that is gone, by its age or by
the number of keys stored since. The latter is read off the cache, because the keys stored
since an entry are those that stand behind it (`SinceIsBehind`); so the put that drops what is
too many drops only what is gone (`PutMirrored`), and so does the expiry, which stops at the first
young entry (`EvictMirrored`). That nothing old is left behind a young entry holds because the
clock never goes back (`InTime`). A lookup of the cache is then one of the window
(`LookupKeepsPromise`), a suggestion is a store or, when nothing is left of it, a stutter.

`LegacyImportProofs`. `ImportInv` has three parts. The source is in order (`SourceInOrder`):
ids are given once, no review is of a card that never was or of a time to come, which is what
keeps the last grade of a card the latest in its log. The target is, both as it is committed
and as the open transaction sees it (`TargetInOrder`, `Apart`): keys are unique, and a natural
key is there once. And the import is (`ImportInOrder`, `LanguagesMapped`, `CardsMapped`,
`ReviewsMapped`): of each row that is done, what it was mapped to is there with its natural
key, as long as what it hangs on has not been deleted. Every upsert is brought to one shape,
`Moved`: a row leaves the rows that are left, something is inserted, something is mapped; the
rest is one lemma per table, and one per step of the user that says which targets still stand
(`LanguagesStand`, `CardsStand`, `ReviewsStand`). A target keeps the name of its row unless
it was renamed in this run (`Called`); a card the user saves is no target and takes none away.
At the commit nothing is left, so the maps
say that everything has arrived (`ImportIsComplete`). That nothing was brought twice, over
any number of runs, needs the names as history (`HistoryInOrder`): a card the script brought
is in a language of the name it came under, or that was renamed since (`NamesTold`). The
script makes a card only where its language, found by its name, has none of that text; so an
older card of the same row is in another language, and that has another name now, hence was
renamed (`NamesApart`, `BroughtOnce`). Ids, which are never given twice, tell whether what is
there was there before a step (`Drawn`). The theorems are about `Spec` itself:
the constraint `InPhase`, by which the run saves interleavings, is not assumed. So they
also cover what the run's instance is too small for, several languages and any number of runs.

Assumed: `LimiterAssumption` (a natural limit, a window and a clock that have ticks),
`OverridesAssumption` (versions are of known contents, a TTL of at least a tick, marks that are
no versions and no callers),
`GuardAssumption` (finitely many slots and users, some of both,
ceilings and budget natural, defaults below the ceilings), `GradingAssumption` (a
non-empty set of cards and of ratings, integer nudges, a natural scale),
`DeletionAssumption` (some identity, natural times to live, an access token that lives
at all), `SessionsAssumption` (finitely many connections, marks that are no users and no
connections, at least one statement), `SessionAssumption` (natural limits by default, some
card, a mark for no data that is none), `DiscoverAssumption` (suggestions and the words said to
be used are sequences of spellings, some word is asked for, natural bounds),
`ProviderCallAssumption` (known kinds of call, vendors
and faults, at least one permit and one attempt), `PreferencesAssumption` (the limits are keys, bodies are finite sequences, the
marks for "no value" are no values), `LegacyAssumption` (ratings and scores are natural, and the
legacy clock has a first second, so that a review of the new application is later). TLC evaluates
each on the runs of its module. The theorems about `ApiClient` state their one assumption
themselves: the mark for no user is none. Nothing else is assumed.

Every safety property and every refinement that a run checks is the statement of a theorem.
Only model-checked is all liveness, which is out of reach of the proof system:
`EveryRequestEnds`, `KillSwitchHolds`, `EveryGradeEnds`, `QueueDrains`, `HalfErasedEnds`,
`WaitersGetOn`, `RequestsEnd`. Where a proof needs induction, over the words of a suggestion,
the jobs of a counter or the cards of a batch, it is by the least number for which something
fails (`LeastNumber`, from the well-foundedness of the order of the naturals).

## 6. Not modelled

* Text: the wording of prompts, the parsing of an answer beyond whether it is a list,
  vowel marks, translations, the wording of notes (which words have one is in ProviderCall),
  the columns of an export. Pure functions
  of strings without a property that concerns more than one of them.
* The arithmetic of FSRS (a library), the clock of `due`: `BecomeDue` lets a card
  become due at any time.
* The checks inside the database beyond the owner policies, and the fetching of signing
  keys, which are good or not. Sessions apart, the models have one learner (Grading, ReviewSession, Discover) or users that
  share nothing but the global budget (CostGuard).
* A timeout of the wait for a permit that meets the release of one inside `asyncio`: the
  permit is taken in one step or not at all.
* Caps of users' own in the run of CostGuard (see the bounds); the theorems have them.
* Cards that are removed, with their language, while a note of theirs is explained: the write
  finds no row and fails, which is `WriteFails`; or it came first, and the note goes with them.
* The client that posts the words and notes of a preview back to `/cards/save`: in Discover
  it posts what it was given, in ProviderCall any notes.
* Key-share locks of foreign keys in Grading: the first grade of a language can
  deadlock with the language's deletion, which Postgres breaks by aborting one of
  the two; both roll back.
* A provider call whose request was cancelled keeps running in its thread after
  its permit was given back, so more calls than permits can be at the provider.
  `calling` in CostGuard means "holds a permit".
* Of account deletion: the refusal where Supabase is not configured, which touches nothing.
* The fields of a language that no check reads (code, vowels), the numbers of `GET /me`.
* Of the web client: other tabs on the same stored session, sign-up and the ways to sign in
  but the log-in page, the teardown after the account was deleted, the choice of the active
  language; the other pages, which keep forms.
* Metrics and tracing beyond the span of a call, the mail transport, security headers, the
  operator's scripts but the import, infrastructure. Nothing there is read back by the
  program.
* Of the legacy application: its limits, its notes, vowels, layout.

## 7. Where the code and its words part

Found by a run:

* `cost_guard_overshoot`. `Settings.llm_max_concurrency` is documented as the
  worst-case overshoot of the global budget. The budget gate comes before the wait
  for a permit, so every request that passed the gate while the budget was open is
  counted, one after the other. What holds is `BudgetOvershoot` (proved as
  `BudgetBound`): fewer than the number of requests in hand.

Seen while modelling, without a run of their own. Cost and providers:

* `app/settings.py:92-95` bounds the requests to the provider by the concurrency
  limit and the retries; calls abandoned by a cancelled request are not in it.
* `app/quota.py:470` says that only a call that raised is finalised as an error. A
  `/generate` of blank words alone answers 200 with nothing and is logged as an error too.
* `lengua_core/llm/retry.py:110-112` reports the retries of a call that exhausted them;
  the span of such a call never shows it, since `app/llm_runner.py:179-182` writes the
  span of a result only.
* A connection that fails is repeated for Groq and not for Gemini, where it ends as an
  internal error.
* The provider is built before the caches are asked: without the operator's key also a
  request fails that a cache would have answered (`AnswersTellFaults`).

Learning:

* The comments at the due query say the queue refreshes on the next mount. A remount
  within `staleTime` uses the cached batch, and "Check for more" shows it again from the
  first card while the fetch runs: cards graded a moment ago are asked, and can be graded,
  again.
* `suggest` promises words the learner does not know. A hit in the reuse cache is returned
  as it was stored, also when its words were accepted and saved as cards meanwhile:
  `OnlyLearnedSince` asks no more of it.
* `app/services/explain.py` writes a card's map of notes back as it was read
  before the provider was asked: of two overlapping explanations on one card the
  note of one is lost, though both are counted. "so a later tap ... is served from
  cache" (lines 86-87) does not hold for it; `LostToOverlapOnly` says that nothing else
  loses a note.
* `app/services/settings.py` says its check keeps a caller from storing a limit of new
  cards above the total, and `app/repositories/languages.py:64-71` that two spellings
  of a name are recognised as one language. Both are read before they are written: two
  requests that overlap can store what each alone would be refused (`skewed` and `late`
  mark exactly these cases in `Preferences`).
* `app/services/languages.py:41` calls the add idempotent. Of two that overlap, the
  second fails on the unique key with an error of the server; repeated, it gets the row.

Accounts and operation:

* A refused request is sent again with the token of whatever session there is when the
  refresh settles, and a failed refresh signs out whatever session there is then
  (`lib/api-client.ts:259-266`). After a change of users on the way that is the next
  user's: a save made by one is then stored for the other.
* A sign-out empties the query cache so that "the next user starts clean"
  (`components/auth-provider.tsx:59`). The answer of a save of settings that comes after it is
  written into the cache all the same, under a key that names no user
  (`lib/settings.ts:76`), and counts as fresh for 30 s. Fetched data does not linger
  (`FetchedIsOwn`).
* That write is called authoritative (`lib/settings.ts:66-68`), but a fetch on its way is
  not cancelled: answered before the save and arriving after it, it puts the older settings
  back.
* `app/services/account.py:184` says "auth user untouched". After a timeout the
  identity may be gone (`EraseAuthUnheard`); the retry then finds it gone already.
* `app/schemas/account.py:89-90` expects a bundle without a profile only before the
  profile was made. A token that outlives its account gets one after the deletion
  (stage `bare`). The tables of an export are read one after the other, so a bundle can
  hold a card whose language it lacks, added in between.
* `app/ratelimit.py:85-87` says a skipped sweep would reclaim nothing; it can leave
  keys that expired within the last window, as `StaleKeysReclaimed` states.
* `app/prompt_store.py` says that builders "read a fresh-within-TTL snapshot in the
  worker thread". Between the warm and the build lies the wait for a permit, up to
  five seconds, in which the snapshot may expire without being refreshed.

Import of the legacy data:

* The script is to recognise what it brought: "re-running inserts nothing new"
  (`scripts/import_sqlite.py:30`). It knows a language by its name; after the user has renamed
  one, the next run makes the old name again and brings every card and review once more.
  And where the user has saved a card that equals one of the script's, it takes whichever of the two
  Postgres finds (lines 223-229, without an order), so the reviews may arrive a second time,
  on the other one. `ImportedOnce` says what is left: nothing is brought twice under a name
  that stayed, and no review is on one card twice.
* A card that is in the target keeps its schedule (`scripts/import_sqlite.py:229`) while
  the reviews made since in the legacy application are added to it: after a second run the
  log is ahead of the schedule.
* Two reviews of one card in one second with one rating arrive as one, and so do two
  cards of one text, which an interrupted page leaves behind.
* `active_language_id` is taken over as a number of the source; nothing reads it.
* Two runs at the same time would each miss what the other has not committed and double
  it: cards have no unique key. The model runs one at a time, as an operator does.
* The user may save the level or the setting that the script is about to insert, between its
  SELECT and its INSERT: the unique key ends the run, which is `Stopped`.
