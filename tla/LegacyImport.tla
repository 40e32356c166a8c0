---------------------------- MODULE LegacyImport ----------------------------
(***************************************************************************)
(* scripts/import_sqlite.py: the tables of the legacy application, read    *)
(* one after the other, go row by row and in one transaction into the      *)
(* account of a user, who may use the new application meanwhile.  It may   *)
(* be run again, also after the legacy application has been used again.    *)
(***************************************************************************)
EXTENDS Legacy

CONSTANTS MaxImports     \* bound of the model: runs of the script

VARIABLES dst,       \* the user's profile and tables in Postgres, and the identity sequences
          imp,       \* the run of the script
          runs,
          renamed,   \* history: the languages the user renamed, and the run it was in or after
          brought    \* history: the cards the script inserted, their language, and the run

history == <<renamed, brought>>
vars == <<src, clock, dst, imp, runs, renamed, brought>>
legacy == <<src, clock>>

Tables == {"langs", "cards", "reviews", "levels", "active"}

NoRows == [langs |-> {}, cards |-> {}, reviews |-> {}, levels |-> {}, active |-> {}]

(* got: what was read of the source; left: the rows that have yet to be    *)
(* imported; made, mine: the profile and the rows of the open transaction; *)
(* the maps lead from the ids of the source to those of the target.        *)
NotRunning == [pc |-> "idle", got |-> NoRows, left |-> NoRows, made |-> FALSE,
               mine |-> NoRows, langMap |-> {}, cardMap |-> {}]

Init == /\ LegacyInit
        /\ dst = [profile |-> TRUE, tables |-> NoRows, ids |-> NoIds]
        /\ imp = NotRunning /\ runs = 0
        /\ renamed = {} /\ brought = {}

At(stage) == imp.pc = stage
Run(rec)  == imp' = rec

(* What the transaction sees: what is committed, and its own.              *)
Seen == [x \in Tables |-> dst.tables[x] \cup imp.mine[x]]

Insert(rec, table, row) == [rec EXCEPT !.mine[table] = @ \cup {row}]
Done(rec, table, row)   == [rec EXCEPT !.left[table] = @ \ {row}]

(* An identity column gives a number once, also to what is rolled back.    *)
TakeId(table) == dst' = [dst EXCEPT !.ids[table] = @ + 1]
-----------------------------------------------------------------------------
(* read_sqlite: one SELECT after the other, without a transaction.         *)
SourceRows(table) == IF table # "active" THEN Rows[table]
                     ELSE {Rows.active} \ {None}

NextStage == [idle |-> "langs", langs |-> "cards", cards |-> "reviews",
              reviews |-> "levels", levels |-> "active", active |-> "profile"]

StartImport ==
  /\ At("idle") /\ runs < MaxImports
  /\ Run([NotRunning EXCEPT !.pc = "langs"])
  /\ runs' = runs + 1
  /\ UNCHANGED <<legacy, dst>>

Read(table) ==
  /\ At(table)
  /\ Run([imp EXCEPT !.pc = NextStage[table], !.got[table] = SourceRows(table),
                     !.left[table] = SourceRows(table)])
  /\ UNCHANGED <<legacy, dst, runs>>

(* An error ends the run and its transaction.                              *)
Abort == Run(NotRunning) /\ UNCHANGED <<legacy, dst, runs>>

(* ensure_profile: it is there; or it is made, on a database that knows no *)
(* identities of Supabase; or the account has to be opened first.          *)
EnsureProfile ==
  /\ At("profile")
  /\ \/ /\ Run([imp EXCEPT !.pc = "import", !.made = ~dst.profile])
        /\ UNCHANGED <<legacy, dst, runs>>
     \/ ~dst.profile /\ Abort

HasProfile == dst.profile \/ imp.made

(* import_data: the languages first, then what hangs on them, each table   *)
(* in the order of its ids.                                                *)
Before == [langs |-> {}, cards |-> {"langs"}, reviews |-> {"langs", "cards"},
           levels |-> {"langs", "cards", "reviews"},
           active |-> {"langs", "cards", "reviews", "levels"}]

Turn(table, row) ==
  /\ At("import") /\ row \in imp.left[table]
  /\ \A x \in Before[table] : imp.left[x] = {}
  /\ table \in {"langs", "cards", "reviews"} =>
       \A other \in imp.left[table] : row.id <= other.id

Target(map, id)    == {m[2] : m \in {x \in map : x[1] = id}}
MapTo(rec, id, to) == [rec EXCEPT !.langMap = @ \cup {<<id, to>>}]

(* _upsert_language: ON CONFLICT DO NOTHING, then the id of the one there. *)
UpsertLanguage(row) ==
  LET there == {l \in Seen.langs : l.name = row.name}
  IN  /\ Turn("langs", row)
      /\ \/ /\ there = {} /\ HasProfile
            /\ Run(MapTo(Insert(Done(imp, "langs", row), "langs",
                                [id |-> dst.ids.langs, name |-> row.name]),
                         row.id, dst.ids.langs))
            /\ TakeId("langs")
         \/ /\ there # {}
            /\ Run(MapTo(Done(imp, "langs", row), row.id, (CHOOSE l \in there : TRUE).id))
            /\ UNCHANGED dst
      /\ UNCHANGED <<legacy, runs>>

(* The user has deleted it in between, or given it another name.           *)
Deleted(l) == dst' = [dst EXCEPT !.tables = WithoutLanguage(@, l)] /\ UNCHANGED renamed

Renamed(l, name) ==
  /\ \A x \in Seen.langs : x.name # name
  /\ dst' = [dst EXCEPT !.tables.langs =
                  {IF x.id = l THEN [x EXCEPT !.name = name] ELSE x : x \in @}]
  /\ renamed' = renamed \cup {<<l, runs>>}

LanguageVanishes(row) ==
  /\ Turn("langs", row)
  /\ \E l \in {x.id : x \in {y \in dst.tables.langs : y.name = row.name}} :
       Deleted(l) \/ \E name \in Names : Renamed(l, name)
  /\ Run(NotRunning)
  /\ UNCHANGED <<legacy, runs, brought>>

(* The card that is there takes over the schedule of the source.           *)
ReuseUpdating(card, row) ==
  dst' = [dst EXCEPT !.tables.cards = IF card \notin @ THEN @
                       ELSE (@ \ {card}) \cup {[card EXCEPT !.last = row.last]}]

(* The card that is there stays as it is.                                  *)
Reuse(card, row) == UNCHANGED dst

(* The cards that are there were looked up before the import began.        *)
SameCardsAtStart(row) ==
  {c \in dst.tables.cards : c.lang \in Target(imp.langMap, row.lang) /\ c.text = row.text}

SameCards(row) ==
  {c \in Seen.cards : c.lang \in Target(imp.langMap, row.lang) /\ c.text = row.text}

Brings(card, lang) ==
  brought' = brought \cup {[card |-> card, name |-> l.name, run |-> runs] :
                           l \in {x \in imp.got.langs : x.id = lang}}

(* _upsert_card: a card with this language, these sides and this           *)
(* direction, of equal ones whichever Postgres finds, else a new one.  A   *)
(* card without a language is left out.  An equal card the user saves      *)
(* before the INSERT stands beside it as one saved after it does.          *)
UpsertCard(row) ==
  LET lang  == Target(imp.langMap, row.lang)
      there == SameCards(row)
      to(c) == [Done(imp, "cards", row) EXCEPT !.cardMap = @ \cup {<<row.id, c>>}]
  IN  /\ Turn("cards", row)
      /\ \/ /\ lang = {}
            /\ Run(Done(imp, "cards", row))
            /\ UNCHANGED <<dst, brought>>
         \/ /\ there # {}
            /\ \E c \in there : Run(to(c.id)) /\ Reuse(c, row)
            /\ UNCHANGED brought
         \/ /\ lang # {} /\ there = {} /\ lang \subseteq IdsOf(Seen.langs)
            /\ \E l \in lang :
                 Run(Insert(to(dst.ids.cards), "cards",
                            [id |-> dst.ids.cards, lang |-> l, text |-> row.text,
                             last |-> row.last]))
            /\ TakeId("cards") /\ Brings(dst.ids.cards, row.lang)
      /\ UNCHANGED <<legacy, runs, renamed>>

(* The reviews are inserted without a look at those that are there.        *)
UpsertReviewBlindly(row) ==
  /\ Turn("reviews", row)
  /\ \E c \in Target(imp.cardMap, row.card) :
       /\ c \in IdsOf(Seen.cards)
       /\ Run(Insert(Done(imp, "reviews", row), "reviews",
                     [id |-> dst.ids.reviews, card |-> c, rating |-> row.rating, at |-> row.at]))
  /\ TakeId("reviews")
  /\ UNCHANGED <<legacy, runs>>

(* _upsert_review: unless the card has a review of this rating and time.   *)
(* A review of a card that was not read is left out.                       *)
UpsertReviewOf(card, row) ==
  LET same == {r \in Seen.reviews : r.card \in card /\ r.rating = row.rating /\ r.at = row.at}
  IN  /\ Turn("reviews", row)
      /\ \/ /\ card = {} \/ same # {}
            /\ Run(Done(imp, "reviews", row))
            /\ UNCHANGED dst
         \/ /\ card # {} /\ same = {} /\ card \subseteq IdsOf(Seen.cards)
            /\ \E c \in card :
                 Run(Insert(Done(imp, "reviews", row), "reviews",
                            [id |-> dst.ids.reviews, card |-> c,
                             rating |-> row.rating, at |-> row.at]))
            /\ TakeId("reviews")
      /\ UNCHANGED <<legacy, runs>>

(* The id of the card is taken from the source as it is.                   *)
UpsertReviewUnmapped(row) == UpsertReviewOf({row.card}, row)

UpsertReview(row) == UpsertReviewOf(Target(imp.cardMap, row.card), row)

(* _upsert_proficiency: a level that is set stays.                         *)
UpsertLevel(row) ==
  LET lang == Target(imp.langMap, row.lang)
  IN  /\ Turn("levels", row)
      /\ \/ /\ lang = {} \/ \E v \in Seen.levels : v.lang \in lang
            /\ Run(Done(imp, "levels", row))
         \/ /\ lang # {} /\ lang \subseteq IdsOf(Seen.langs)
            /\ \A v \in Seen.levels : v.lang \notin lang
            /\ \E l \in lang : Run(Insert(Done(imp, "levels", row), "levels",
                                          [lang |-> l, score |-> row.score]))
      /\ UNCHANGED <<legacy, dst, runs>>

(* _upsert_setting: the value as it was, an id of the source if it is one. *)
UpsertSetting(row) ==
  /\ Turn("active", row)
  /\ Seen.active # {} \/ HasProfile
  /\ Run(IF Seen.active # {} THEN Done(imp, "active", row)
         ELSE Insert(Done(imp, "active", row), "active", row))
  /\ UNCHANGED <<legacy, dst, runs>>

(* What the rows hang on, a language, a card or the profile, is gone: the  *)
(* foreign key fails.                                                      *)
ParentGone ==
  /\ At("import")
  /\ \/ /\ ~HasProfile
        /\ \E table \in {"langs", "active"} : \E row \in imp.left[table] : Turn(table, row)
     \/ \E row \in imp.left.cards : Turn("cards", row)
          /\ \E l \in Target(imp.langMap, row.lang) : l \notin IdsOf(Seen.langs)
     \/ \E row \in imp.left.reviews : Turn("reviews", row)
          /\ \E c \in Target(imp.cardMap, row.card) : c \notin IdsOf(Seen.cards)
     \/ \E row \in imp.left.levels : Turn("levels", row)
          /\ \E l \in Target(imp.langMap, row.lang) : l \notin IdsOf(Seen.langs)
  /\ Abort

(* The script is stopped, or loses its connection, or the user has saved   *)
(* the level or the setting that it was about to insert.                   *)
Stopped == ~At("idle") /\ Abort

Finished == At("import") /\ \A x \in Tables : imp.left[x] = {}

(* run_import: everything, or, of a dry run, nothing.                      *)
Commit ==
  /\ Finished
  /\ dst' = [dst EXCEPT !.tables = Seen, !.profile = HasProfile]
  /\ Run(NotRunning)
  /\ UNCHANGED <<legacy, runs>>

Rollback == Finished /\ Abort
-----------------------------------------------------------------------------
(* The user in the new application.  A row the import has inserted keeps   *)
(* the rows it refers to from being deleted until the transaction ends.    *)
AppAddLanguage(name) ==
  /\ dst.profile /\ dst.ids.langs <= MaxLanguages
  /\ \A l \in Seen.langs : l.name # name
  /\ dst' = [dst EXCEPT !.tables.langs = @ \cup {[id |-> dst.ids.langs, name |-> name]},
                        !.ids.langs = @ + 1]
  /\ UNCHANGED <<legacy, imp, runs>>

KeyShared(l) == \E row \in imp.mine.cards \cup imp.mine.levels : row.lang = l

Locked(l) == \/ KeyShared(l)
             \/ \E r \in imp.mine.reviews : \E c \in dst.tables.cards :
                  c.id = r.card /\ c.lang = l

AppDeleteLanguage(l) ==
  /\ l \in IdsOf(dst.tables.langs) /\ ~Locked(l)
  /\ dst' = [dst EXCEPT !.tables = WithoutLanguage(@, l)]
  /\ UNCHANGED <<legacy, imp, runs>>

(* The name is part of a key as well.                                      *)
AppRenameLanguage(l, name) ==
  /\ l \in IdsOf(dst.tables.langs) /\ ~KeyShared(l)
  /\ Renamed(l, name)
  /\ UNCHANGED <<legacy, imp, runs, brought>>

(* There is no key that cards are there once by.                           *)
AppSaveCards(s, l) ==
  /\ l \in IdsOf(dst.tables.langs) /\ dst.ids.cards < MaxCards
  /\ dst' = [dst EXCEPT !.tables.cards = @ \cup NewCards(s, l, dst.ids.cards),
                        !.ids.cards = @ + 2]
  /\ UNCHANGED <<legacy, imp, runs>>

(* An upsert waits for the transaction that inserts the same row.          *)
LevelFree(l) == \A v \in imp.mine.levels : v.lang # l

AppSetLevel(l, score) ==
  /\ l \in IdsOf(dst.tables.langs) /\ LevelFree(l)
  /\ dst' = [dst EXCEPT !.tables = WithLevel(@, l, score)]
  /\ UNCHANGED <<legacy, imp, runs>>

(* The settings take any key: the active language of the old application   *)
(* may be set, or deleted.                                                 *)
AppSaveSetting(active) ==
  /\ dst.profile /\ imp.mine.active = {}
  /\ dst' = [dst EXCEPT !.tables.active = active]
  /\ UNCHANGED <<legacy, imp, runs>>

(* The account is deleted, with everything below its profile.              *)
AppDeleteAccount ==
  /\ dst.profile /\ imp.mine = NoRows
  /\ dst' = [dst EXCEPT !.tables = NoRows, !.profile = FALSE]
  /\ UNCHANGED <<legacy, imp, runs>>

(* Its reviews are told apart by their microseconds.  The level goes with  *)
(* the grade, if it changes.                                               *)
AppGrade(card, rating) ==
  LET graded == [dst.tables EXCEPT
                   !.cards = (@ \ {card}) \cup {[card EXCEPT !.last = MaxClock + 1]},
                   !.reviews = @ \cup {[id |-> dst.ids.reviews, card |-> card.id,
                                        rating |-> rating, at |-> MaxClock + 1]}]
  IN  /\ card \in dst.tables.cards
      /\ \A r \in dst.tables.reviews : r.at < MaxClock + 1
      /\ \E db \in {graded} \cup {WithLevel(graded, card.lang, score) :
                                   score \in {x \in Scores : LevelFree(card.lang)}} :
           dst' = [dst EXCEPT !.tables = db, !.ids.reviews = @ + 1]
      /\ UNCHANGED <<legacy, imp, runs>>

ImportNext ==
  \/ StartImport
  \/ \E table \in Tables : Read(table)
  \/ EnsureProfile
  \/ \E row \in imp.left.langs : UpsertLanguage(row)
  \/ \E row \in imp.left.reviews : UpsertReview(row)
  \/ \E row \in imp.left.levels : UpsertLevel(row)
  \/ \E row \in imp.left.active : UpsertSetting(row)
  \/ ParentGone \/ Stopped \/ Commit \/ Rollback

AppNext ==
  \/ \E name \in Names : AppAddLanguage(name)
  \/ \E l \in IdsOf(dst.tables.langs) :
       \/ AppDeleteLanguage(l)
       \/ \E s \in Sentences : AppSaveCards(s, l)
       \/ \E score \in Scores : AppSetLevel(l, score)
  \/ \E active \in {{}} \cup {{id} : id \in 1 .. MaxLanguages} : AppSaveSetting(active)
  \/ AppDeleteAccount
  \/ \E card \in dst.tables.cards, rating \in Ratings : AppGrade(card, rating)

(* The steps the history tells of.                                         *)
HistoryNext ==
  \/ \E row \in imp.left.langs : LanguageVanishes(row)
  \/ \E row \in imp.left.cards : UpsertCard(row)
  \/ \E l \in IdsOf(dst.tables.langs), name \in Names : AppRenameLanguage(l, name)

Next == \/ LegacyNext /\ UNCHANGED <<dst, imp, runs, history>>
        \/ (ImportNext \/ AppNext) /\ UNCHANGED history
        \/ HistoryNext

Spec == Init /\ [][Next]_vars
-----------------------------------------------------------------------------
(* The language was renamed in one of these runs, or after one and before  *)
(* the next.                                                               *)
RenamedSince(l, first, last) == \E run \in first .. last : <<l, run>> \in renamed

(* However often the script runs, and however it ends: a review is there   *)
(* once, and of the cards it brought no two are the same card of the old   *)
(* application, unless the user renamed the language of the older one      *)
(* between the runs, so that the script could not know it again.           *)
ImportedOnce ==
  /\ \A l, m \in dst.tables.langs : l.name = m.name => l = m
  /\ \A r, q \in dst.tables.reviews :
       r.card = q.card /\ r.rating = q.rating /\ r.at = q.at => r = q
  /\ \A a, b \in brought : \A c, d \in dst.tables.cards :
       c.id = a.card /\ d.id = b.card /\ c.text = d.text =>
         /\ c.lang = d.lang => c = d
         /\ a.name = b.name /\ c.id < d.id => RenamedSince(c.lang, a.run, b.run)

(* The language of a card in some tables, by its name.                     *)
NameOf(db, l) == {x.name : x \in {y \in db.langs : y.id = l}}

(* A committed import has brought every card it read with a language, and  *)
(* every review it read with its card, to a card of the same text in the   *)
(* language of the same name, unless the user has deleted that meanwhile,  *)
(* or, during this run, given it another name: no history is lost, and     *)
(* none is a wrong card's.                                                 *)
HistoryArrives ==
  [][Commit =>
       \A c \in imp.got.cards :
         LET lang == Target(imp.langMap, c.lang)
         IN  NameOf(imp.got, c.lang) # {} /\ lang \subseteq IdsOf(dst'.tables.langs) =>
               \E d \in dst'.tables.cards :
                 /\ d.text = c.text /\ d.lang \in lang
                 /\ \/ NameOf(dst'.tables, d.lang) = NameOf(imp.got, c.lang)
                    \/ <<d.lang, runs>> \in renamed
                 /\ \A r \in imp.got.reviews : r.card = c.id =>
                      \E q \in dst'.tables.reviews :
                        q.card = d.id /\ q.rating = r.rating /\ q.at = r.at]_vars

(* What the user has in the new application stays as it is.                *)
NothingOverwritten ==
  [][imp' # imp /\ ~(\E row \in imp.left.langs : LanguageVanishes(row)) =>
       \A x \in Tables : dst.tables[x] \subseteq dst'.tables[x]]_vars
=============================================================================
