--------------------------- MODULE ReviewSession ---------------------------
(***************************************************************************)
(* One browser tab walking the due batch of a language: the Review page    *)
(* (apps/web/src/pages/Review.tsx), its queries (lib/review.ts,            *)
(* lib/query-client.ts) with the cache of TanStack Query behind them, and  *)
(* on the server the choice of the batch (lengua_core/scheduler.py).       *)
(*                                                                         *)
(* The cached batch outlives the page; the position in it does not.        *)
(* Grading does not touch the cache.                                       *)
(***************************************************************************)
EXTENDS Naturals, Sequences

CONSTANTS Deck,         \* the cards of a language, saved by now or later
          Settings,     \* what may be stored as daily_new_limit, daily_total_limit
          DefaultNew,   \* lengua_core.config: DAILY_NEW_LIMIT
          DefaultTotal, \* DAILY_TOTAL_LIMIT
          Posts,        \* bound of the model: grade requests in flight
          MaxDue        \* bound of the model: times a card becomes due

ASSUME SessionAssumption ==
  /\ {DefaultNew, DefaultTotal} \subseteq Nat \ {0} /\ MaxDue \in Nat
  /\ Deck # {} /\ "no data" \notin Deck

VARIABLES
  queue,      \* server: the saved cards that are due, oldest due date first
  reviewed,   \* server: the cards with a last_review; the others are new
  arrivals,   \* times a card became due so far
  stored,     \* server: the stored limits of a batch
  cache,      \* the query's data, whether it is stale, whether its last fetch failed
  fetch,      \* the query's fetch: idle, on its way, or answered with a batch
  page,       \* the mounted ReviewSession
  post        \* grade requests and their answers on the way

tabVars == <<queue, reviewed, arrivals, stored, cache, fetch, page, post>>
server  == <<queue, reviewed, arrivals, stored>>

NoData  == <<"no data">>
NoPost  == [pc |-> "none", card |-> CHOOSE c \in Deck : TRUE, mine |-> FALSE]
Closed  == [open |-> FALSE, index |-> 0, revealed |-> FALSE, moved |-> FALSE, done |-> {}]
Elements(s) == {s[i] : i \in DOMAIN s}

TabInit ==
  /\ queue = <<>>
  /\ reviewed = {}
  /\ arrivals = 0
  /\ stored \in Settings
  /\ cache = [data |-> NoData, stale |-> TRUE, error |-> FALSE]
  /\ fetch = [pc |-> "idle", batch |-> <<>>]
  /\ page = Closed
  /\ post = [p \in Posts |-> NoPost]

-----------------------------------------------------------------------------
(* A limit that is stored as zero counts as a limit.                       *)
TakeReviewLimit(raw, default) == IF raw \in Nat THEN raw ELSE default

(* A limit that is not stored, no number or not positive is the default.   *)
ResolveReviewLimit(raw, default) == IF raw \in Nat \ {0} THEN raw ELSE default

Limits == [new   |-> ResolveReviewLimit(stored.new, DefaultNew),
           total |-> ResolveReviewLimit(stored.total, DefaultTotal)]

(* select_due_batch: reviewed cards first, then the oldest new ones up to  *)
(* their limit, cut at the total limit.                                    *)
FirstOf(s, n) == IF Len(s) <= n THEN s ELSE SubSeq(s, 1, n)

(* What of s is in S, in the order of s. *)
Only(s, S) ==
  LET kept[i \in 0 .. Len(s)] == IF i = 0 THEN <<>>
                                 ELSE IF s[i] \in S THEN Append(kept[i - 1], s[i]) ELSE kept[i - 1]
  IN  kept[Len(s)]

NewCards  == Only(queue, Deck \ reviewed)
SeenCards == Only(queue, reviewed)

SelectDueBatch(new, total) == FirstOf(SeenCards \o FirstOf(NewCards, new), total)

Batch == SelectDueBatch(Limits.new, Limits.total)

(* Settings.tsx, another page; the cached batch stays.                     *)
SaveLimits ==
  /\ ~page.open
  /\ stored' \in Settings \ {stored}
  /\ UNCHANGED <<queue, reviewed, arrivals, cache, fetch, page, post>>

(* A card's due date passes, or a new card is saved, due at once, from a   *)
(* page of this tab; saving invalidates the review queries.                *)
BecomeDue(c) ==
  /\ arrivals < MaxDue
  /\ c \notin Elements(queue)
  /\ queue' = Append(queue, c)
  /\ arrivals' = arrivals + 1
  /\ \/ c \in reviewed /\ UNCHANGED cache
     \/ c \notin reviewed /\ ~page.open /\ cache' = [cache EXCEPT !.stale = TRUE]
  /\ UNCHANGED <<reviewed, stored, fetch, page, post>>

-----------------------------------------------------------------------------
(* A fetch starts; a first one, or one after an error without data, shows  *)
(* the loading state.                                                      *)
StartFetch == /\ fetch' = [pc |-> "asked", batch |-> <<>>]
              /\ cache' = [cache EXCEPT !.error = @ /\ cache.data # NoData]

FetchIfStale == IF fetch.pc = "idle" /\ (cache.data = NoData \/ cache.stale)
                THEN StartFetch ELSE UNCHANGED <<fetch, cache>>

(* Data older than staleTime is stale. *)
GoStale ==
  /\ cache.data # NoData /\ ~cache.stale
  /\ cache' = [cache EXCEPT !.stale = TRUE]
  /\ UNCHANGED <<server, fetch, page, post>>

IsPending == \E p \in Posts : post[p].mine
Walking   == page.open /\ (page.index > 0 \/ IsPending)

(* The Dashboard, which shares the query, is entered; or a page that shows *)
(* stale data is back online.                                              *)
Refetch ==
  /\ fetch.pc = "idle" /\ (cache.data = NoData \/ cache.stale)
  /\ StartFetch
  /\ UNCHANGED <<server, page, post>>

(* After gcTime without a page that shows it the cached batch is dropped.  *)
Collect ==
  /\ ~page.open /\ fetch.pc = "idle" /\ cache.data # NoData
  /\ cache' = [data |-> NoData, stale |-> TRUE, error |-> FALSE]
  /\ UNCHANGED <<server, fetch, page, post>>

(* GET /review/due. *)
ServerAnswers ==
  /\ fetch.pc = "asked"
  /\ fetch' = [pc |-> "answered", batch |-> Batch]
  /\ UNCHANGED <<server, cache, page, post>>

FetchArrives ==
  /\ fetch.pc = "answered"
  /\ cache' = [data |-> fetch.batch, stale |-> FALSE, error |-> FALSE]
  /\ fetch' = [pc |-> "idle", batch |-> <<>>]
  /\ page' = [page EXCEPT !.moved = @ \/ (Walking /\ cache.data # fetch.batch)]
  /\ UNCHANGED <<server, post>>

(* Both attempts (retry: 1) failed. *)
FetchFails ==
  /\ fetch.pc # "idle"
  /\ fetch' = [pc |-> "idle", batch |-> <<>>]
  /\ cache' = [cache EXCEPT !.error = TRUE]
  /\ UNCHANGED <<server, page, post>>

-----------------------------------------------------------------------------
(* The page is entered, or re-keyed by a switch back to this language.     *)
Open ==
  /\ ~page.open
  /\ page' = [Closed EXCEPT !.open = TRUE]
  /\ FetchIfStale
  /\ UNCHANGED <<server, post>>

(* The callbacks outlive the page. *)
CloseKeepsCallbacks ==
  /\ page.open
  /\ page' = Closed
  /\ UNCHANGED <<server, cache, fetch, post>>

(* The page is left: callbacks of a mutate() on its way are not called.    *)
Close ==
  /\ page.open
  /\ page' = Closed
  /\ post' = [p \in Posts |-> [post[p] EXCEPT !.mine = FALSE]]
  /\ UNCHANGED <<server, cache, fetch>>

Showing   == page.open /\ cache.data # NoData /\ ~cache.error
Current   == cache.data[page.index + 1]
HasCard   == Showing /\ page.index < Len(cache.data)
AtTheEnd == Showing /\ cache.data # <<>> /\ page.index >= Len(cache.data)

(* The error state's button. *)
Retry ==
  /\ page.open /\ cache.error
  /\ StartFetch
  /\ UNCHANGED <<server, page, post>>

Reveal ==
  /\ HasCard /\ ~page.revealed
  /\ page' = [page EXCEPT !.revealed = TRUE]
  /\ UNCHANGED <<server, cache, fetch, post>>

(* submitGrade. *)
SubmitGrade ==
  /\ HasCard /\ page.revealed /\ ~IsPending
  /\ \E p \in Posts : /\ post[p] = NoPost
                      /\ post' = [post EXCEPT ![p] = [pc |-> "sent", card |-> Current, mine |-> TRUE]]
  /\ UNCHANGED <<server, cache, fetch, page>>

(* POST /review/{card_id}/grade: the card is rescheduled, or nothing       *)
(* happens; an answer that is lost is an error to the page either way.     *)
ServerGrades(p) ==
  /\ post[p].pc = "sent"
  /\ \/ /\ queue' = Only(queue, Deck \ {post[p].card})
        /\ reviewed' = reviewed \cup {post[p].card}
        /\ \E answer \in {"ok", "failed"} : post' = [post EXCEPT ![p].pc = answer]
     \/ /\ post' = [post EXCEPT ![p].pc = "failed"]
        /\ UNCHANGED <<queue, reviewed>>
  /\ UNCHANGED <<arrivals, stored, cache, fetch, page>>

(* The walk goes on whatever the answer was. *)
AnswerAdvances(p) ==
  /\ post[p].pc \in {"ok", "failed"}
  /\ post' = [post EXCEPT ![p] = NoPost]
  /\ page' = [page EXCEPT !.index = @ + 1, !.revealed = FALSE]
  /\ UNCHANGED <<server, cache, fetch>>

(* A success does not advance the walk. *)
AnswerStays(p) ==
  /\ post[p].pc \in {"ok", "failed"}
  /\ post' = [post EXCEPT ![p] = NoPost]
  /\ page' = IF post[p].pc = "ok" THEN [page EXCEPT !.done = @ \cup {post[p].card}] ELSE page
  /\ UNCHANGED <<server, cache, fetch>>

(* onSuccess: advance; onError: a toast, and the card stays. *)
Answer(p) ==
  /\ post[p].pc \in {"ok", "failed"}
  /\ post' = [post EXCEPT ![p] = NoPost]
  /\ IF post[p].pc = "ok" /\ post[p].mine
     THEN page' = [page EXCEPT !.index = @ + 1, !.revealed = FALSE, !.done = @ \cup {post[p].card}]
     ELSE UNCHANGED page
  /\ UNCHANGED <<server, cache, fetch>>

(* "Check for more" keeps showing the old batch while it fetches. *)
RestartWithoutFetch ==
  /\ AtTheEnd
  /\ page' = [Closed EXCEPT !.open = TRUE]
  /\ UNCHANGED <<server, cache, fetch, post>>

Restart ==
  /\ AtTheEnd
  /\ page' = [Closed EXCEPT !.open = TRUE, !.moved = IsPending]
  /\ StartFetch
  /\ UNCHANGED <<server, post>>

TabNext ==
  \/ \E c \in Deck : BecomeDue(c)
  \/ SaveLimits
  \/ GoStale \/ Refetch \/ Collect \/ ServerAnswers \/ FetchArrives \/ FetchFails
  \/ Open \/ Close \/ Retry \/ Reveal \/ SubmitGrade \/ Restart
  \/ \E p \in Posts : ServerGrades(p) \/ Answer(p)

TabSpec == TabInit /\ [][TabNext]_tabVars

(* The network and the server answer, and grades are not refused for ever; *)
(* the learner keeps going: reveals, grades, checks for more, retries, and *)
(* when all is done looks in again later.                                  *)
GradeTaken(p) == ServerGrades(p) /\ post'[p].pc = "ok"
LookInLater   == Close /\ Showing /\ cache.data = <<>>

TabFairSpec ==
  /\ TabSpec
  /\ WF_tabVars(GoStale) /\ SF_tabVars(ServerAnswers) /\ SF_tabVars(FetchArrives)
  /\ \A p \in Posts : SF_tabVars(GradeTaken(p)) /\ WF_tabVars(Answer(p))
  /\ SF_tabVars(Reveal \/ SubmitGrade \/ Restart) /\ SF_tabVars(Retry)
  /\ WF_tabVars(Open \/ LookInLater)

-----------------------------------------------------------------------------
Batches == {s \in Seq(Deck) : \A i, j \in DOMAIN s : s[i] = s[j] => i = j}

(* No batch repeats a card, and a request that is still this page's        *)
(* belongs to a mounted page.                                              *)
TabTypeOK ==
  /\ queue \in Seq(Deck)
  /\ reviewed \subseteq Deck
  /\ arrivals \in 0 .. MaxDue
  /\ stored \in Settings
  /\ cache \in [data : Batches \cup {NoData}, stale : BOOLEAN, error : BOOLEAN]
  /\ fetch \in [pc : {"idle", "asked", "answered"}, batch : Batches]
  /\ page \in [open : BOOLEAN, index : Nat, revealed : BOOLEAN, moved : BOOLEAN,
               done : SUBSET Deck]
  /\ post \in [Posts -> [pc : {"none", "sent", "ok", "failed"}, card : Deck, mine : BOOLEAN]]
  /\ IsPending => page.open

(* As long as no fetch changes the batch under the walk, and it was not    *)
(* restarted with a grade still on its way (which such a change can put    *)
(* beyond the end), what lies behind is graded: every card before the      *)
(* position was acknowledged by the server in this walk, whatever answers  *)
(* were lost or came late.                                                 *)
WalkedIsGraded ==
  page.open /\ ~page.moved /\ cache.data # NoData =>
    \A i \in 1 .. page.index : i \in DOMAIN cache.data /\ cache.data[i] \in page.done

(* And no card is graded twice in such a walk, unless the first answer was *)
(* a failure.                                                              *)
NoRepeatInWalk ==
  [][\A p \in Posts : post[p].pc = "none" /\ post'[p].pc = "sent" /\ ~page.moved =>
       post'[p].card \notin page.done]_tabVars

(* A walk over a batch that stands is faithful to it: it neither skips nor *)
(* repeats a card, whatever becomes of the answers, also those that come   *)
(* after the page was left (submitGrade and its callbacks in Review.tsx).  *)
WalkIsFaithful == [](TabTypeOK /\ WalkedIsGraded) /\ NoRepeatInWalk

(* A learner who stays until the page says so gets through all that is     *)
(* due: no card is left behind by the limits, by skips when a fetch moves  *)
(* the batch, by lost answers, or by a batch shown from the cache.         *)
QueueDrains == <>[][Close => LookInLater]_tabVars => <>[](queue = <<>>)
=============================================================================
