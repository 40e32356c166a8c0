------------------------- MODULE LegacyImportProofs -------------------------
(* Theorems about the import of the legacy data, for any tables on either  *)
(* side, any number of runs, and any interleaving of the script with the   *)
(* legacy application and the new one, where the user saves cards, adds,   *)
(* renames and deletes languages, and grades.                              *)
EXTENDS LegacyImport, TLAPS

-----------------------------------------------------------------------------
(* The rows of the tables of both applications.                            *)
LangRow   == [id : Nat, name : Names]
CardRow   == [id : Nat, lang : Nat, text : Sentences \X Directions, last : Nat]
ReviewRow == [id : Nat, card : Nat, rating : Ratings, at : Nat]
LevelRow  == [lang : Nat, score : Scores]

Ids      == [langs : Nat, cards : Nat, reviews : Nat]
LegacyDb == [langs : SUBSET LangRow, cards : SUBSET CardRow, reviews : SUBSET ReviewRow,
             levels : SUBSET LevelRow, active : Nat]
Db       == [langs : SUBSET LangRow, cards : SUBSET CardRow, reviews : SUBSET ReviewRow,
             levels : SUBSET LevelRow, active : SUBSET Nat]
Import   == [pc : Tables \cup {"idle", "profile", "import"}, got : Db, left : Db, made : BOOLEAN,
             mine : Db, langMap : SUBSET (Nat \X Nat), cardMap : SUBSET (Nat \X Nat)]

LegacyTyped == src \in [tables : LegacyDb, ids : Ids] /\ clock \in 1 .. MaxClock

Typed == /\ LegacyTyped
         /\ dst \in [profile : BOOLEAN, tables : Db, ids : Ids]
         /\ imp \in Import
         /\ runs \in Nat
         /\ renamed \subseteq Nat \X Nat
         /\ brought \subseteq [card : Nat, name : Names, run : Nat]

-----------------------------------------------------------------------------
(* An id is given once, and to one row.                                    *)
Keyed(db) == /\ \A l, m \in db.langs : l.id = m.id => l = m
             /\ \A c, d \in db.cards : c.id = d.id => c = d

Below(db, ids) == /\ \A l \in db.langs : l.id < ids.langs
                  /\ \A c \in db.cards : c.id < ids.cards

(* A review is of a card that is there, a card of a language.              *)
Backed(db) == /\ \A r \in db.reviews : r.card \in IdsOf(db.cards)
              /\ \A c \in db.cards : c.lang \in IdsOf(db.langs)

(* A language is there once, and a review.                                 *)
Once(db) ==
  /\ \A l, m \in db.langs : l.name = m.name => l = m
  /\ \A r, q \in db.reviews : r.card = q.card /\ r.rating = q.rating /\ r.at = q.at => r = q

(* The legacy store: a name is there once, the cards of its reviews had an *)
(* id, and no review is of a time to come.                                 *)
SourceInOrder == /\ Keyed(Rows) /\ Below(Rows, src.ids)
                 /\ \A l, m \in Rows.langs : l.name = m.name => l = m
                 /\ \A r \in Rows.reviews : r.card < src.ids.cards /\ r.at <= clock
                 /\ ScheduleIsLogged

(* The new store, as it is and as the open transaction sees it.            *)
TargetInOrder == /\ Keyed(Seen) /\ Below(Seen, dst.ids) /\ Once(Seen)
                 /\ Backed(dst.tables) /\ Backed(Seen)

(* What was read has ids of its own, and reviews of a time of the legacy   *)
(* application; the rows that are left are some of it, table after table;  *)
(* nothing is mapped or inserted before the import begins.                 *)
ImportInOrder ==
  /\ Keyed(imp.got)
  /\ \A l, m \in imp.got.langs : l.name = m.name => l = m
  /\ \A r \in imp.got.reviews \cup imp.mine.reviews : r.at <= MaxClock
  /\ \A x \in Tables : imp.left[x] \subseteq imp.got[x]
  /\ imp.left.langs # {} => imp.left.cards = imp.got.cards /\ imp.left.reviews = imp.got.reviews
  /\ imp.left.cards # {} => imp.left.reviews = imp.got.reviews
  /\ ~At("import") => /\ imp.left = imp.got /\ imp.mine = NoRows
                      /\ imp.langMap = {} /\ imp.cardMap = {}

(* The rows that are done: each language has one target, which is of its   *)
(* name as long as it is there and is not renamed;                         *)
Called(x, name) == x.name = name \/ <<x.id, runs>> \in renamed

LanguagesMapped ==
  /\ \A m \in imp.langMap : \E l \in imp.got.langs \ imp.left.langs : l.id = m[1]
  /\ \A l \in imp.got.langs \ imp.left.langs :
       \E t \in Nat : /\ Target(imp.langMap, l.id) = {t} /\ t < dst.ids.langs
                      /\ \A x \in Seen.langs : x.id = t => Called(x, l.name)

(* each card of a mapped language has one, a card of the same text in that *)
(* language as long as the language is there;                              *)
CardsMapped ==
  /\ \A m \in imp.cardMap : /\ m[2] < dst.ids.cards
                            /\ \E c \in imp.got.cards \ imp.left.cards : c.id = m[1]
  /\ \A m, n \in imp.cardMap : m[1] = n[1] => m[2] = n[2]
  /\ \A c \in imp.got.cards \ imp.left.cards : Target(imp.langMap, c.lang) # {} =>
       \E k \in Nat : /\ Target(imp.cardMap, c.id) = {k}
                      /\ \A t \in Target(imp.langMap, c.lang) : t \in IdsOf(Seen.langs) =>
                           \E d \in Seen.cards : d.id = k /\ d.lang = t /\ d.text = c.text

(* and each review of a mapped card is there as long as the card is.       *)
ReviewsMapped ==
  \A r \in imp.got.reviews \ imp.left.reviews :
    \A k \in Target(imp.cardMap, r.card) : k \in IdsOf(Seen.cards) =>
      \E q \in Seen.reviews : q.card = k /\ q.rating = r.rating /\ q.at = r.at

CopyInOrder == /\ TargetInOrder /\ ImportInOrder
               /\ LanguagesMapped /\ CardsMapped /\ ReviewsMapped

(* What is inserted is not there yet.                                      *)
Apart == /\ \A l \in dst.tables.langs, m \in imp.mine.langs : l.id # m.id
         /\ \A c \in dst.tables.cards, d \in imp.mine.cards : c.id # d.id

(* What the script brought came with an id that was given, in a run that   *)
(* began;                                                                  *)
BroughtKnown == \A a \in brought : a.card < dst.ids.cards /\ a.run <= runs

(* the language of a card it brought has the name it had in the source     *)
(* unless it was renamed since;                                            *)
NamesTold ==
  \A a \in brought, c \in Seen.cards, x \in Seen.langs : a.card = c.id /\ c.lang = x.id =>
    x.name = a.name \/ RenamedSince(x.id, a.run, runs)

(* so a card of the name of a language that is done is in the target of    *)
(* that, unless its own was renamed;                                       *)
NamesApart ==
  \A l \in imp.got.langs \ imp.left.langs : \A t \in Target(imp.langMap, l.id) :
    \A a \in brought, c \in Seen.cards : a.card = c.id /\ a.name = l.name /\ c.lang # t =>
      RenamedSince(c.lang, a.run, runs)

(* and what was brought twice was brought under a new name.                *)
BroughtOnce ==
  \A a, b \in brought : \A c, d \in Seen.cards :
    c.id = a.card /\ d.id = b.card /\ c.text = d.text =>
      /\ c.lang = d.lang => c = d
      /\ a.name = b.name /\ c.id < d.id => RenamedSince(c.lang, a.run, b.run)

HistoryInOrder == BroughtKnown /\ NamesTold /\ NamesApart /\ BroughtOnce

ImportInv == SourceInOrder /\ CopyInOrder /\ Apart /\ HistoryInOrder

-----------------------------------------------------------------------------
(* The legacy store.                                                       *)
Times(reviews, id) == {r.at : r \in {x \in reviews : x.card = id}}

Last(times) == IF times = {} THEN 0 ELSE Max(times)

Timed(cards, reviews) == \A c \in cards : c.last = Last(Times(reviews, c.id))

LEMMA ScheduleByTimes ==
  /\ ScheduleIsLogged <=> Timed(src.tables.cards, src.tables.reviews)
  /\ ScheduleIsLogged' <=> Timed(src'.tables.cards, src'.tables.reviews)
BY Zenon DEF ScheduleIsLogged, Timed, Times, Last, Rows

(* The latest of some times and a time that none of them is after.         *)
LEMMA LatestIsMax ==
  ASSUME NEW S \in SUBSET Nat, NEW n \in Nat, \A m \in S : m <= n
  PROVE  Last(S \cup {n}) = n
<1>1. n \in S \cup {n} /\ \A y \in S \cup {n} : n >= y
  OBVIOUS
<1>2. \A x \in S \cup {n} : (\A y \in S \cup {n} : x >= y) => x = n
  OBVIOUS
<1>3. Max(S \cup {n}) = n
  BY <1>1, <1>2 DEF Max
<1>4. QED
  BY <1>3 DEF Last

LEMMA MinOfOne == ASSUME NEW n \in Nat PROVE Min({n}) = n
BY DEF Min

(* The fields of a legacy row, and of one that is changed.                 *)
LEMMA ScheduledRow ==
  ASSUME NEW c \in CardRow, NEW n \in Nat
  PROVE  /\ [c EXCEPT !.last = n] \in CardRow
         /\ [c EXCEPT !.last = n].id = c.id /\ [c EXCEPT !.last = n].lang = c.lang
         /\ [c EXCEPT !.last = n].text = c.text /\ [c EXCEPT !.last = n].last = n
BY DEF CardRow

(* A step that leaves cards and reviews alone.                             *)
LEMMA SourceKept ==
  ASSUME LegacyTyped, SourceInOrder, LegacyTyped', clock <= clock',
         src'.tables.cards = src.tables.cards, src'.tables.reviews = src.tables.reviews,
         src'.ids.cards = src.ids.cards,
         \A l \in src'.tables.langs : l.id < src'.ids.langs,
         \A l, m \in src'.tables.langs : (l.id = m.id => l = m) /\ (l.name = m.name => l = m)
  PROVE  SourceInOrder'
<1>1. Keyed(Rows)' /\ Below(Rows, src.ids)'
  BY DEF SourceInOrder, Keyed, Below, Rows
<1>2. \A r \in Rows'.reviews : r.card < src'.ids.cards /\ r.at <= clock'
  <2> SUFFICES ASSUME NEW r \in src.tables.reviews PROVE r.at <= clock'
    BY DEF SourceInOrder, Rows
  <2>1. r.at \in Nat /\ r.at <= clock
    BY DEF LegacyTyped, LegacyDb, ReviewRow, SourceInOrder, Rows
  <2>2. QED
    BY <2>1 DEF LegacyTyped
<1>3. ScheduleIsLogged'
  BY ScheduleByTimes DEF SourceInOrder
<1>4. QED
  BY <1>1, <1>2, <1>3 DEF SourceInOrder, Rows

LEMMA AddLanguageStep ==
  ASSUME LegacyAssumption, LegacyTyped, SourceInOrder, NEW name \in Names, AddLanguage(name)
  PROVE  LegacyTyped' /\ SourceInOrder'
<1> DEFINE known == {l.id : l \in {x \in Rows.langs : x.name = name}}
           id    == IF known = {} THEN src.ids.langs ELSE Min(known)
           new   == [id |-> src.ids.langs, name |-> name]
<1>t. /\ src \in [tables : LegacyDb, ids : Ids] /\ clock' = clock
      /\ Rows.langs \subseteq LangRow
  BY DEF LegacyTyped, AddLanguage, LegacyDb, Rows
<1>1. CASE known = {}
  <2>1. PICK a \in Nat :
             src' = [tables |-> [src.tables EXCEPT !.langs = src.tables.langs \cup {new},
                                                   !.active = a],
                     ids |-> [src.ids EXCEPT !.langs = src.ids.langs + 1]]
    BY <1>1, <1>t DEF AddLanguage, LegacyDb, Ids, Rows
  <2>2. new \in LangRow /\ new.id = src.ids.langs /\ new.name = name
    BY <1>t DEF LangRow, Ids
  <2>3. \A l \in src.tables.langs : l.name # name
    BY <1>1 DEF Rows
  <2> HIDE DEF known, id, new
  <2>r. src.tables.langs \cup {new} \in SUBSET LangRow /\ src.tables \in LegacyDb /\ src.ids \in Ids
    BY <1>t, <2>2 DEF LegacyDb
  <2>d. \A langs \in SUBSET LangRow : [src.tables EXCEPT !.langs = langs, !.active = a] \in LegacyDb
    BY <2>r DEF LegacyDb
  <2>i. [src.ids EXCEPT !.langs = src.ids.langs + 1] \in Ids
    BY <2>r DEF Ids
  <2>4. LegacyTyped'
    BY <1>t, <2>1, <2>r, <2>d, <2>i DEF LegacyTyped
  <2>a. src'.tables.langs = src.tables.langs \cup {new}
    BY <1>t, <2>1 DEF LegacyDb
  <2>5. \A l \in src.tables.langs : l.id \in Nat /\ l.id < src.ids.langs
    BY <1>t DEF SourceInOrder, Below, Rows, LangRow
  <2>6. src'.ids.langs = src.ids.langs + 1 /\ src.ids.langs \in Nat
    BY <1>t, <2>1 DEF Ids
  <2>7. \A l \in src'.tables.langs : l.id < src'.ids.langs
    BY <2>a, <2>2, <2>5, <2>6
  <2>8. \A l, m \in src'.tables.langs : (l.id = m.id => l = m) /\ (l.name = m.name => l = m)
    BY <2>a, <2>2, <2>3, <2>5, <2>6 DEF SourceInOrder, Keyed, Rows
  <2>9. /\ src'.tables.cards = src.tables.cards /\ src'.tables.reviews = src.tables.reviews
        /\ src'.ids.cards = src.ids.cards
    BY <1>t, <2>1 DEF LegacyDb, Ids
  <2>10. clock <= clock'
    BY <1>t DEF LegacyTyped
  <2>11. QED
    BY <2>4, <2>7, <2>8, <2>9, <2>10, SourceKept
<1>2. CASE known # {}
  <2>1. PICK l \in Rows.langs : l.name = name
    BY <1>2
  <2>2. known = {l.id} /\ l.id \in Nat
    BY <2>1, <1>t DEF SourceInOrder, LangRow
  <2>3. Min(known) \in Nat
    BY <2>2, MinOfOne
  <2>4. /\ src'.tables.active \in Nat
        /\ src' = [src EXCEPT !.tables = [src.tables EXCEPT !.active = src'.tables.active]]
    BY <1>2, <1>t, <2>3 DEF AddLanguage, LegacyDb, Rows
  <2> HIDE DEF known, id, new
  <2>5. LegacyTyped'
    BY <1>t, <2>4 DEF LegacyTyped, LegacyDb
  <2>6. /\ src'.tables.cards = src.tables.cards /\ src'.tables.reviews = src.tables.reviews
        /\ src'.tables.langs = src.tables.langs /\ src'.ids = src.ids
    BY <1>t, <2>4 DEF LegacyDb
  <2>7. clock <= clock'
    BY <1>t DEF LegacyTyped
  <2>8. QED
    BY <2>5, <2>6, <2>7, SourceKept DEF SourceInOrder, Keyed, Below, Rows
<1>3. QED
  BY <1>1, <1>2

(* What hangs on the language goes with it; the other cards keep their     *)
(* reviews.                                                                *)
LEMMA DeleteLanguageStep ==
  ASSUME LegacyTyped, SourceInOrder, NEW l \in IdsOf(Rows.langs), DeleteLanguage(l)
  PROVE  LegacyTyped' /\ SourceInOrder'
<1> DEFINE kept == {c \in src.tables.cards : c.lang # l}
<1>t. src \in [tables : LegacyDb, ids : Ids] /\ clock' = clock
  BY DEF LegacyTyped, DeleteLanguage
<1>1. /\ src'.tables.langs = {x \in src.tables.langs : x.id # l}
      /\ src'.tables.cards = kept
      /\ src'.tables.reviews = {r \in src.tables.reviews : r.card \in IdsOf(kept)}
      /\ src'.tables.levels \subseteq src.tables.levels
      /\ src'.tables.active \in {None, src.tables.active}
      /\ src'.tables \in LegacyDb /\ src'.ids = src.ids
      /\ src' = [tables |-> src'.tables, ids |-> src.ids]
  BY <1>t DEF DeleteLanguage, WithoutLanguage, LegacyDb, Rows, None
<1>2. LegacyTyped'
  BY <1>1, <1>t DEF LegacyTyped
<1>3. ASSUME NEW c \in kept PROVE Times(src'.tables.reviews, c.id) = Times(src.tables.reviews, c.id)
  <2>1. c.id \in IdsOf(kept)
    BY DEF IdsOf
  <2> HIDE DEF kept
  <2>2. {x \in src'.tables.reviews : x.card = c.id} = {x \in src.tables.reviews : x.card = c.id}
    BY <1>1, <2>1
  <2>3. QED
    BY <2>2 DEF Times
<1>4. ScheduleIsLogged'
  BY <1>1, <1>3, ScheduleByTimes DEF SourceInOrder, Timed
<1>5. QED
  BY <1>1, <1>2, <1>4, <1>t DEF SourceInOrder, Keyed, Below, Rows

LEMMA SaveCardsStep ==
  ASSUME LegacyTyped, SourceInOrder, NEW s \in Sentences, NEW l \in IdsOf(Rows.langs),
         SaveCards(s, l)
  PROVE  LegacyTyped' /\ SourceInOrder'
<1> DEFINE id == src.ids.cards
           new == NewCards(s, l, id)
<1>t. /\ src \in [tables : LegacyDb, ids : Ids] /\ clock' = clock
      /\ src.tables.cards \subseteq CardRow /\ src.tables.reviews \subseteq ReviewRow
      /\ id \in Nat
  BY DEF LegacyTyped, SaveCards, LegacyDb, Ids
<1>l. l \in Nat
  BY DEF IdsOf, Rows, LegacyTyped, LegacyDb, LangRow
<1>1. /\ new \subseteq CardRow /\ \A c \in new : c.id \in {id, id + 1} /\ c.last = 0
      /\ \A c, d \in new : c.id = d.id => c = d
  BY <1>t, <1>l DEF NewCards, CardRow, Directions
<1>2. src' = [tables |-> [src.tables EXCEPT !.cards = src.tables.cards \cup new],
              ids |-> [src.ids EXCEPT !.cards = id + 2]]
  BY <1>t DEF SaveCards, LegacyDb, Ids
<1> HIDE DEF new
<1>3. LegacyTyped'
  BY <1>t, <1>1, <1>2 DEF LegacyTyped, LegacyDb, Ids
<1>4. /\ src'.tables.cards = src.tables.cards \cup new
      /\ src'.tables.langs = src.tables.langs /\ src'.tables.reviews = src.tables.reviews
      /\ src'.ids.langs = src.ids.langs /\ src'.ids.cards = id + 2
  BY <1>t, <1>2 DEF LegacyDb, Ids
<1>5. /\ \A c \in src.tables.cards : c.id \in Nat /\ c.id < id
      /\ \A r \in src.tables.reviews : r.card \in Nat /\ r.card < id
  BY <1>t DEF SourceInOrder, Below, Rows, CardRow, ReviewRow
<1>6. \A c \in new : Times(src.tables.reviews, c.id) = {}
  <2> SUFFICES ASSUME NEW c \in new
               PROVE  {x \in src.tables.reviews : x.card = c.id} = {}
    BY DEF Times
  <2>1. c.id \in {id, id + 1}
    BY <1>1
  <2>2. QED
    BY <2>1, <1>5, <1>t
<1>7. ScheduleIsLogged'
  BY <1>1, <1>4, <1>6, ScheduleByTimes DEF SourceInOrder, Timed, Last
<1>8. /\ \A c, d \in src'.tables.cards : c.id = d.id => c = d
      /\ \A c \in src'.tables.cards : c.id < src'.ids.cards
      /\ \A r \in src'.tables.reviews : r.card < src'.ids.cards
  BY <1>1, <1>4, <1>5, <1>t DEF SourceInOrder, Keyed, Rows
<1>9. QED
  BY <1>3, <1>4, <1>7, <1>8, <1>t DEF SourceInOrder, Keyed, Below, Rows

(* grade: the card takes the time of the review that is logged with it.    *)
LEMMA RateStep ==
  ASSUME LegacyTyped, SourceInOrder, NEW c \in IdsOf(Rows.cards), NEW rating \in Ratings,
         Rate(c, rating)
  PROVE  LegacyTyped' /\ SourceInOrder'
<1> DEFINE now(x) == IF x.id = c THEN [x EXCEPT !.last = clock] ELSE x
           review == [id |-> src.ids.reviews, card |-> c, rating |-> rating, at |-> clock]
           cards  == {now(x) : x \in src.tables.cards}
<1>t. /\ src \in [tables : LegacyDb, ids : Ids] /\ clock' = clock /\ clock \in Nat
      /\ src.tables.cards \subseteq CardRow /\ src.tables.reviews \subseteq ReviewRow
      /\ src.ids.reviews \in Nat
  BY DEF LegacyTyped, Rate, LegacyDb, Ids
<1>c. c \in Nat /\ c < src.ids.cards
  BY <1>t DEF IdsOf, Rows, CardRow, SourceInOrder, Below
<1>1. src' = [tables |-> [src.tables EXCEPT !.cards = cards,
                                            !.reviews = src.tables.reviews \cup {review}],
              ids |-> [src.ids EXCEPT !.reviews = src.ids.reviews + 1]]
  BY <1>t DEF Rate, Grade, Logged, Scheduled, LegacyDb, Ids
<1>2. review \in ReviewRow /\ review.card = c /\ review.at = clock
  BY <1>t, <1>c DEF ReviewRow
<1>3. \A x \in src.tables.cards : now(x) \in CardRow /\ now(x).id = x.id
        /\ now(x).last = (IF x.id = c THEN clock ELSE x.last)
  BY <1>t, ScheduledRow
<1>4. /\ src'.tables.cards = cards /\ src'.tables.reviews = src.tables.reviews \cup {review}
      /\ src'.tables.langs = src.tables.langs
      /\ src'.ids.langs = src.ids.langs /\ src'.ids.cards = src.ids.cards
  BY <1>t, <1>1 DEF LegacyDb, Ids
<1> HIDE DEF review, now
<1>a. cards \subseteq CardRow /\ src.tables.reviews \cup {review} \subseteq ReviewRow
  BY <1>t, <1>2, <1>3
<1> HIDE DEF cards
<1>5. LegacyTyped'
  <2>1. [src.tables EXCEPT !.cards = cards, !.reviews = src.tables.reviews \cup {review}] \in LegacyDb
    BY <1>t, <1>a DEF LegacyDb
  <2>2. [src.ids EXCEPT !.reviews = src.ids.reviews + 1] \in Ids
    BY <1>t DEF Ids
  <2>3. QED
    BY <1>t, <1>1, <2>1, <2>2 DEF LegacyTyped
<1>6. ASSUME NEW x \in src.tables.cards
      PROVE  now(x).last = Last(Times(src'.tables.reviews, x.id))
  <2> DEFINE times == Times(src.tables.reviews, x.id)
  <2>1. CASE x.id = c
    <3>1. Times(src'.tables.reviews, x.id) = times \cup {clock}
      BY <1>2, <1>4, <2>1 DEF Times
    <3>2. \A r \in src.tables.reviews : r.at \in Nat /\ r.at <= clock
      BY <1>t DEF SourceInOrder, Rows, ReviewRow
    <3>3. times \in SUBSET Nat /\ \A m \in times : m <= clock
      BY <3>2 DEF Times
    <3> HIDE DEF times
    <3>4. QED
      BY <1>3, <1>t, <2>1, <3>1, <3>3, LatestIsMax
  <2>2. CASE x.id # c
    <3>1. {r \in src'.tables.reviews : r.card = x.id} = {r \in src.tables.reviews : r.card = x.id}
      BY <1>2, <1>4, <2>2
    <3>2. Times(src'.tables.reviews, x.id) = times
      BY <3>1 DEF Times
    <3>3. x.last = Last(times)
      BY ScheduleByTimes DEF SourceInOrder, Timed
    <3>4. QED
      BY <1>3, <2>2, <3>2, <3>3
  <2>3. QED
    BY <2>1, <2>2
<1>7. ScheduleIsLogged'
  <2>1. ASSUME NEW x \in src.tables.cards
        PROVE  now(x).last = Last(Times(src'.tables.reviews, now(x).id))
    BY <1>3, <1>6
  <2>2. Timed(cards, src'.tables.reviews)
    BY <2>1 DEF Timed, cards
  <2>3. QED
    BY <1>4, <2>2, ScheduleByTimes
<1>8. /\ \A x, y \in src'.tables.cards : x.id = y.id => x = y
      /\ \A x \in src'.tables.cards : x.id < src'.ids.cards
  BY <1>3, <1>4 DEF cards, SourceInOrder, Keyed, Below, Rows
<1>9. \A r \in src'.tables.reviews : r.card < src'.ids.cards /\ r.at <= clock'
  BY <1>2, <1>4, <1>c, <1>t DEF SourceInOrder, Rows
<1>10. QED
  BY <1>4, <1>5, <1>7, <1>8, <1>9 DEF SourceInOrder, Keyed, Below, Rows

LEMMA SourceStep ==
  ASSUME LegacyAssumption, LegacyTyped, SourceInOrder, LegacyNext \/ UNCHANGED <<src, clock>>
  PROVE  LegacyTyped' /\ SourceInOrder'
<1>t. /\ src \in [tables : LegacyDb, ids : Ids] /\ src.tables \in LegacyDb
      /\ clock \in 1 .. MaxClock /\ src.tables.langs \subseteq LangRow
  BY DEF LegacyTyped, LegacyDb
<1>o. /\ \A l \in src.tables.langs : l.id < src.ids.langs
      /\ \A l, m \in src.tables.langs : (l.id = m.id => l = m) /\ (l.name = m.name => l = m)
  BY DEF SourceInOrder, Keyed, Below, Rows
<1>1. ASSUME NEW name \in Names, AddLanguage(name) PROVE LegacyTyped' /\ SourceInOrder'
  BY <1>1, AddLanguageStep
<1>2. ASSUME NEW l \in IdsOf(Rows.langs), DeleteLanguage(l) PROVE LegacyTyped' /\ SourceInOrder'
  BY <1>2, DeleteLanguageStep
<1>3. ASSUME NEW l \in IdsOf(Rows.langs), ChooseLanguage(l) PROVE LegacyTyped' /\ SourceInOrder'
  <2>1. l \in Nat
    BY <1>t DEF IdsOf, Rows, LangRow
  <2>2. src' = [src EXCEPT !.tables = [src.tables EXCEPT !.active = l]] /\ clock' = clock
    BY <1>3, <1>t DEF ChooseLanguage
  <2>3. LegacyTyped' /\ clock <= clock'
    BY <2>1, <2>2, <1>t DEF LegacyTyped, LegacyDb
  <2>4. /\ src'.tables.cards = src.tables.cards /\ src'.tables.reviews = src.tables.reviews
        /\ src'.tables.langs = src.tables.langs /\ src'.ids = src.ids
    BY <2>2, <1>t DEF LegacyDb
  <2>5. QED
    BY <2>3, <2>4, <1>o, SourceKept
<1>4. ASSUME NEW l \in IdsOf(Rows.langs), NEW score \in Scores, SetLevel(l, score)
      PROVE  LegacyTyped' /\ SourceInOrder'
  <2>1. l \in Nat
    BY <1>t DEF IdsOf, Rows, LangRow
  <2> DEFINE levels == {v \in src.tables.levels : v.lang # l} \cup {[lang |-> l, score |-> score]}
  <2>2. src' = [src EXCEPT !.tables = [src.tables EXCEPT !.levels = levels]] /\ clock' = clock
    BY <1>4, <1>t DEF SetLevel, WithLevel
  <2>3. levels \subseteq LevelRow
    BY <2>1, <1>t DEF LevelRow, LegacyDb
  <2> HIDE DEF levels
  <2>4. LegacyTyped' /\ clock <= clock'
    BY <2>2, <2>3, <1>t DEF LegacyTyped, LegacyDb
  <2>5. /\ src'.tables.cards = src.tables.cards /\ src'.tables.reviews = src.tables.reviews
        /\ src'.tables.langs = src.tables.langs /\ src'.ids = src.ids
    BY <2>2, <1>t DEF LegacyDb
  <2>6. QED
    BY <2>4, <2>5, <1>o, SourceKept
<1>5. ASSUME NEW l \in IdsOf(Rows.langs), NEW s \in Sentences, SaveCards(s, l)
      PROVE  LegacyTyped' /\ SourceInOrder'
  BY <1>5, SaveCardsStep
<1>6. ASSUME NEW c \in IdsOf(Rows.cards), NEW rating \in Ratings, Rate(c, rating)
      PROVE  LegacyTyped' /\ SourceInOrder'
  BY <1>6, RateStep
<1>7. CASE Tick
  <2>1. src' = src /\ LegacyTyped' /\ clock <= clock'
    BY <1>7, <1>t, LegacyAssumption DEF Tick, LegacyTyped, LegacyAssumption
  <2>2. QED
    BY <2>1, <1>o, SourceKept
<1>8. CASE UNCHANGED <<src, clock>>
  <2>1. src' = src /\ LegacyTyped' /\ clock <= clock'
    BY <1>8, <1>t DEF LegacyTyped
  <2>2. QED
    BY <2>1, <1>o, SourceKept
<1>9. QED
  BY <1>1, <1>2, <1>3, <1>4, <1>5, <1>6, <1>7, <1>8 DEF LegacyNext

-----------------------------------------------------------------------------
(* The import.                                                             *)
LEMMA NoRowsType == /\ NoRows \in Db /\ \A x \in Tables : NoRows[x] = {}
                    /\ NotRunning \in Import
BY DEF NoRows, Db, Tables, NotRunning, Import

LEMMA SeenFields ==
  /\ Seen.langs   = dst.tables.langs   \cup imp.mine.langs
  /\ Seen.cards   = dst.tables.cards   \cup imp.mine.cards
  /\ Seen.reviews = dst.tables.reviews \cup imp.mine.reviews
  /\ Seen'.langs   = dst'.tables.langs   \cup imp'.mine.langs
  /\ Seen'.cards   = dst'.tables.cards   \cup imp'.mine.cards
  /\ Seen'.reviews = dst'.tables.reviews \cup imp'.mine.reviews
BY DEF Seen, Tables

LEMMA SeenType ==
  ASSUME Typed
  PROVE  /\ Seen \in Db /\ dst.tables \in Db /\ imp.mine \in Db /\ imp.got \in Db /\ imp.left \in Db
         /\ Seen.langs \subseteq LangRow /\ Seen.cards \subseteq CardRow
         /\ Seen.reviews \subseteq ReviewRow
<1>1. dst.tables \in Db /\ imp.mine \in Db /\ imp.got \in Db /\ imp.left \in Db
  BY DEF Typed, Import
<1> DEFINE rows == {Seen[x] : x \in Tables}
<1>s. /\ Seen["langs"] = dst.tables.langs \cup imp.mine.langs
      /\ Seen["cards"] = dst.tables.cards \cup imp.mine.cards
      /\ Seen["reviews"] = dst.tables.reviews \cup imp.mine.reviews
      /\ Seen["levels"] = dst.tables.levels \cup imp.mine.levels
      /\ Seen["active"] = dst.tables.active \cup imp.mine.active
  BY DEF Seen, Tables
<1>f. Seen \in [Tables -> rows]
  BY DEF Seen
<1> HIDE DEF rows
<1>2. Seen = [langs |-> Seen["langs"], cards |-> Seen["cards"], reviews |-> Seen["reviews"],
              levels |-> Seen["levels"], active |-> Seen["active"]]
  BY <1>f DEF Tables
<1>3. Seen \in Db
  BY <1>1, <1>s, <1>2 DEF Db
<1>4. QED
  BY <1>1, <1>3 DEF Db

RowType == [langs |-> LangRow, cards |-> CardRow, reviews |-> ReviewRow, levels |-> LevelRow,
            active |-> Nat]

LEMMA DoneFields ==
  ASSUME NEW r \in Import, NEW x \in Tables, NEW row, NEW d, d = Done(r, x, row)
  PROVE  /\ d \in Import /\ d.pc = r.pc /\ d.got = r.got /\ d.mine = r.mine
         /\ d.langMap = r.langMap /\ d.cardMap = r.cardMap
         /\ d.left[x] = r.left[x] \ {row} /\ \A y \in Tables \ {x} : d.left[y] = r.left[y]
<1>1. r.left \in Db
  BY DEF Import
<1>2. [r.left EXCEPT ![x] = @ \ {row}] \in Db
  BY <1>1 DEF Db, Tables
<1>3. d = [r EXCEPT !.left = [r.left EXCEPT ![x] = @ \ {row}]]
  BY DEF Done
<1>4. d.left = [r.left EXCEPT ![x] = @ \ {row}]
  BY <1>3 DEF Import
<1>5. QED
  BY <1>1, <1>2, <1>3, <1>4 DEF Import, Db, Tables

LEMMA InsertFields ==
  ASSUME NEW r \in Import, NEW x \in Tables, NEW row \in RowType[x], NEW d, d = Insert(r, x, row)
  PROVE  /\ d \in Import /\ d.pc = r.pc /\ d.got = r.got /\ d.left = r.left
         /\ d.langMap = r.langMap /\ d.cardMap = r.cardMap
         /\ d.mine[x] = r.mine[x] \cup {row} /\ \A y \in Tables \ {x} : d.mine[y] = r.mine[y]
<1>1. r.mine \in Db
  BY DEF Import
<1>2. [r.mine EXCEPT ![x] = @ \cup {row}] \in Db
  BY <1>1 DEF Db, Tables, RowType
<1>3. d = [r EXCEPT !.mine = [r.mine EXCEPT ![x] = @ \cup {row}]]
  BY DEF Insert
<1>4. d.mine = [r.mine EXCEPT ![x] = @ \cup {row}]
  BY <1>3 DEF Import
<1>5. QED
  BY <1>1, <1>2, <1>3, <1>4 DEF Import, Db, Tables

CardTo(rec, id, to) == [rec EXCEPT !.cardMap = @ \cup {<<id, to>>}]

LEMMA MapFields ==
  ASSUME NEW r \in Import, NEW id, NEW to, <<id, to>> \in Nat \X Nat
  PROVE  /\ MapTo(r, id, to) \in Import /\ MapTo(r, id, to).pc = r.pc
         /\ MapTo(r, id, to).got = r.got /\ MapTo(r, id, to).left = r.left
         /\ MapTo(r, id, to).mine = r.mine /\ MapTo(r, id, to).cardMap = r.cardMap
         /\ MapTo(r, id, to).langMap = r.langMap \cup {<<id, to>>}
         /\ CardTo(r, id, to) \in Import /\ CardTo(r, id, to).pc = r.pc
         /\ CardTo(r, id, to).got = r.got /\ CardTo(r, id, to).left = r.left
         /\ CardTo(r, id, to).mine = r.mine /\ CardTo(r, id, to).langMap = r.langMap
         /\ CardTo(r, id, to).cardMap = r.cardMap \cup {<<id, to>>}
BY DEF MapTo, CardTo, Import

(* A row is done: it has left the rows that are left, something may have   *)
(* been inserted, and mapped.                                              *)
Moved(x, row, new, langs, cards) ==
  /\ imp' \in Import /\ imp'.pc = imp.pc /\ imp'.got = imp.got
  /\ imp'.left[x] = imp.left[x] \ {row} /\ imp'.mine[x] = imp.mine[x] \cup new
  /\ \A y \in Tables \ {x} : imp'.left[y] = imp.left[y] /\ imp'.mine[y] = imp.mine[y]
  /\ imp'.langMap = imp.langMap \cup langs /\ imp'.cardMap = imp.cardMap \cup cards

LEMMA TakeIdFields ==
  ASSUME Typed, NEW x \in {"langs", "cards", "reviews"}, TakeId(x)
  PROVE  /\ dst' \in [profile : BOOLEAN, tables : Db, ids : Ids]
         /\ dst'.tables = dst.tables /\ dst'.profile = dst.profile
         /\ dst'.ids[x] = dst.ids[x] + 1
         /\ \A y \in {"langs", "cards", "reviews"} \ {x} : dst'.ids[y] = dst.ids[y]
<1>1. dst.ids \in Ids /\ dst \in [profile : BOOLEAN, tables : Db, ids : Ids]
  BY DEF Typed
<1>2. dst' = [dst EXCEPT !.ids = [dst.ids EXCEPT ![x] = @ + 1]]
  BY DEF TakeId
<1>3. [dst.ids EXCEPT ![x] = @ + 1] \in Ids
  BY <1>1 DEF Ids
<1>4. QED
  BY <1>1, <1>2, <1>3 DEF Ids

(* A language is new, or there.                                            *)
NewLanguage(row) ==
  LET new == [id |-> dst.ids.langs, name |-> row.name]
  IN  /\ \A l \in Seen.langs : l.name # row.name
      /\ Moved("langs", row, {new}, {<<row.id, dst.ids.langs>>}, {})
      /\ TakeId("langs")

OldLanguage(row, l) ==
  /\ l \in Seen.langs /\ l.name = row.name
  /\ Moved("langs", row, {}, {<<row.id, l.id>>}, {})
  /\ UNCHANGED dst

LEMMA LeftType ==
  ASSUME Typed, NEW x \in Tables, NEW row \in imp.left[x]
  PROVE  row \in RowType[x]
<1>1. imp.left \in Db
  BY DEF Typed, Import
<1>2. QED
  BY <1>1 DEF Db, Tables, RowType

LEMMA UpsertLanguageMoves ==
  ASSUME Typed, NEW row \in imp.left.langs, UpsertLanguage(row)
  PROVE  /\ NewLanguage(row) \/ \E l \in Seen.langs : OldLanguage(row, l)
         /\ row \in LangRow
<1> DEFINE new == [id |-> dst.ids.langs, name |-> row.name]
           done == Done(imp, "langs", row)
<1>t. /\ row \in LangRow /\ row.id \in Nat /\ dst.ids.langs \in Nat /\ new \in LangRow
      /\ "langs" \in Tables /\ new \in RowType["langs"] /\ imp \in Import
  BY LeftType DEF Tables, RowType, LangRow, Typed, Ids
<1>d. /\ done \in Import /\ done.pc = imp.pc /\ done.got = imp.got /\ done.mine = imp.mine
      /\ done.langMap = imp.langMap /\ done.cardMap = imp.cardMap
      /\ done.left["langs"] = imp.left["langs"] \ {row}
      /\ \A y \in Tables \ {"langs"} : done.left[y] = imp.left[y]
  BY <1>t, DoneFields
<1> HIDE DEF done, new
<1>1. CASE \A l \in Seen.langs : l.name # row.name
  <2> DEFINE ins == Insert(done, "langs", new)
  <2>1. imp' = MapTo(ins, row.id, dst.ids.langs) /\ TakeId("langs")
    BY <1>1 DEF UpsertLanguage, Run, new, done
  <2>2. /\ ins \in Import /\ ins.pc = done.pc /\ ins.got = done.got /\ ins.left = done.left
        /\ ins.langMap = done.langMap /\ ins.cardMap = done.cardMap
        /\ ins.mine["langs"] = done.mine["langs"] \cup {new}
        /\ \A y \in Tables \ {"langs"} : ins.mine[y] = done.mine[y]
    BY <1>t, <1>d, InsertFields
  <2> HIDE DEF ins
  <2>3. /\ imp' \in Import /\ imp'.pc = ins.pc /\ imp'.got = ins.got /\ imp'.left = ins.left
        /\ imp'.mine = ins.mine /\ imp'.langMap = ins.langMap \cup {<<row.id, dst.ids.langs>>}
        /\ imp'.cardMap = ins.cardMap
    <3>1. <<row.id, dst.ids.langs>> \in Nat \X Nat
      BY <1>t
    <3>2. QED
      BY <2>1, <2>2, <3>1, MapFields
  <2>4. Moved("langs", row, {new}, {<<row.id, dst.ids.langs>>}, {})
    BY <1>d, <2>2, <2>3 DEF Moved
  <2>5. QED
    BY <1>1, <1>t, <2>1, <2>4 DEF NewLanguage, new
<1>2. CASE ~(\A l \in Seen.langs : l.name # row.name)
  <2> DEFINE there == {l \in Seen.langs : l.name = row.name}
             l == CHOOSE l \in there : TRUE
  <2>1. l \in there
    BY <1>2
  <2>2. imp' = MapTo(done, row.id, l.id) /\ dst' = dst
    BY <1>2 DEF UpsertLanguage, Run, done
  <2>3. l \in Seen.langs /\ l.name = row.name
    BY <2>1
  <2> HIDE DEF l, there
  <2>4. l.id \in Nat
    BY <2>3, SeenType DEF LangRow
  <2>m. /\ imp' \in Import /\ imp'.pc = done.pc /\ imp'.got = done.got /\ imp'.left = done.left
        /\ imp'.mine = done.mine /\ imp'.langMap = done.langMap \cup {<<row.id, l.id>>}
        /\ imp'.cardMap = done.cardMap
    <3>1. <<row.id, l.id>> \in Nat \X Nat
      BY <1>t, <2>4
    <3>2. QED
      BY <1>d, <2>2, <3>1, MapFields
  <2>5. Moved("langs", row, {}, {<<row.id, l.id>>}, {})
    BY <1>d, <2>m DEF Moved
  <2>6. OldLanguage(row, l)
    BY <2>2, <2>3, <2>5 DEF OldLanguage
  <2>7. QED
    BY <1>t, <2>3, <2>6
<1>3. QED
  BY <1>1, <1>2

(* A card's language was not read; or the card is there, or new.           *)
SkippedCard(row) == /\ Target(imp.langMap, row.lang) = {}
                    /\ Moved("cards", row, {}, {}, {})
                    /\ UNCHANGED <<dst, brought>>

OldCard(row, c) == /\ c.lang \in Target(imp.langMap, row.lang) /\ c.text = row.text
                   /\ Moved("cards", row, {}, {}, {<<row.id, c.id>>})
                   /\ UNCHANGED <<dst, brought>>

NewCard(row, l) ==
  LET new == [id |-> dst.ids.cards, lang |-> l, text |-> row.text, last |-> row.last]
  IN  /\ l \in Target(imp.langMap, row.lang) /\ l \in IdsOf(Seen.langs)
      /\ \A c \in Seen.cards : ~(c.lang \in Target(imp.langMap, row.lang) /\ c.text = row.text)
      /\ Moved("cards", row, {new}, {}, {<<row.id, dst.ids.cards>>})
      /\ TakeId("cards") /\ Brings(dst.ids.cards, row.lang)

LEMMA TargetType ==
  ASSUME Typed
  PROVE  /\ \A id : Target(imp.langMap, id) \subseteq Nat
         /\ \A id : Target(imp.cardMap, id) \subseteq Nat
BY DEF Typed, Import, Target

LEMMA UpsertCardMoves ==
  ASSUME Typed, NEW row \in imp.left.cards, UpsertCard(row)
  PROVE  /\ \/ SkippedCard(row)
            \/ \E c \in Seen.cards : OldCard(row, c)
            \/ \E l \in Nat : NewCard(row, l)
         /\ row \in CardRow
<1> DEFINE done == Done(imp, "cards", row)
           lang == Target(imp.langMap, row.lang)
           to(c) == CardTo(done, row.id, c)
           there == {c \in Seen.cards : c.lang \in lang /\ c.text = row.text}
<1>t. /\ row \in CardRow /\ row.id \in Nat /\ dst.ids.cards \in Nat
      /\ row.text \in Sentences \X Directions
      /\ row.last \in Nat /\ "cards" \in Tables /\ imp \in Import
  BY LeftType DEF Tables, RowType, CardRow, Typed, Ids
<1>d. /\ done \in Import /\ done.pc = imp.pc /\ done.got = imp.got /\ done.mine = imp.mine
      /\ done.langMap = imp.langMap /\ done.cardMap = imp.cardMap
      /\ done.left["cards"] = imp.left["cards"] \ {row}
      /\ \A y \in Tables \ {"cards"} : done.left[y] = imp.left[y]
  BY <1>t, DoneFields
<1>u. \/ lang = {} /\ imp' = done /\ dst' = dst /\ brought' = brought
      \/ there # {} /\ \E c \in there : imp' = to(c.id) /\ dst' = dst /\ brought' = brought
      \/ /\ there = {} /\ lang \subseteq IdsOf(Seen.langs)
         /\ \E l \in lang : imp' = Insert(to(dst.ids.cards), "cards",
                [id |-> dst.ids.cards, lang |-> l, text |-> row.text, last |-> row.last])
         /\ TakeId("cards") /\ Brings(dst.ids.cards, row.lang)
  BY DEF UpsertCard, Run, Reuse, CardTo, SameCards
<1> HIDE DEF done
<1>1. CASE lang = {} /\ imp' = done /\ dst' = dst /\ brought' = brought
  <2>1. Moved("cards", row, {}, {}, {})
    BY <1>1, <1>d DEF Moved
  <2>2. QED
    BY <1>1, <1>t, <2>1 DEF SkippedCard
<1>2. ASSUME NEW c \in there, imp' = to(c.id), dst' = dst, brought' = brought
      PROVE  OldCard(row, c) /\ c \in Seen.cards
  <2>1. c.id \in Nat
    BY SeenType DEF CardRow
  <2>m. /\ imp' \in Import /\ imp'.pc = done.pc /\ imp'.got = done.got /\ imp'.left = done.left
        /\ imp'.mine = done.mine /\ imp'.cardMap = done.cardMap \cup {<<row.id, c.id>>}
        /\ imp'.langMap = done.langMap
    <3>1. <<row.id, c.id>> \in Nat \X Nat
      BY <1>t, <2>1
    <3>2. QED
      BY <1>d, <1>2, <3>1, MapFields
  <2>2. Moved("cards", row, {}, {}, {<<row.id, c.id>>})
    BY <1>d, <2>m DEF Moved
  <2>3. QED
    BY <1>2, <2>2 DEF OldCard
<1>3. ASSUME there = {}, lang \subseteq IdsOf(Seen.langs), TakeId("cards"), Brings(dst.ids.cards, row.lang),
             NEW l \in lang,
             imp' = Insert(to(dst.ids.cards), "cards",
                [id |-> dst.ids.cards, lang |-> l, text |-> row.text, last |-> row.last])
      PROVE  l \in Nat /\ NewCard(row, l)
  <2> DEFINE new == [id |-> dst.ids.cards, lang |-> l, text |-> row.text, last |-> row.last]
             map == to(dst.ids.cards)
  <2>1. l \in Nat
    BY TargetType
  <2>2. new \in CardRow /\ new \in RowType["cards"]
    BY <2>1, <1>t DEF CardRow, RowType
  <2>3. /\ map \in Import /\ map.pc = done.pc /\ map.got = done.got /\ map.left = done.left
        /\ map.mine = done.mine /\ map.cardMap = done.cardMap \cup {<<row.id, dst.ids.cards>>}
        /\ map.langMap = done.langMap
    <3>1. <<row.id, dst.ids.cards>> \in Nat \X Nat
      BY <1>t
    <3>2. QED
      BY <1>d, <3>1, MapFields
  <2>4. imp' = Insert(map, "cards", new)
    BY <1>3
  <2> HIDE DEF new, map
  <2>5. /\ imp' \in Import /\ imp'.pc = map.pc /\ imp'.got = map.got /\ imp'.left = map.left
        /\ imp'.langMap = map.langMap /\ imp'.cardMap = map.cardMap
        /\ imp'.mine["cards"] = map.mine["cards"] \cup {new}
        /\ \A y \in Tables \ {"cards"} : imp'.mine[y] = map.mine[y]
    BY <1>t, <2>2, <2>3, <2>4, InsertFields
  <2>6. Moved("cards", row, {new}, {}, {<<row.id, dst.ids.cards>>})
    BY <1>d, <2>3, <2>5 DEF Moved
  <2>7. QED
    BY <1>3, <2>1, <2>6 DEF NewCard, new
<1>4. QED
  BY <1>t, <1>u, <1>1, <1>2, <1>3

(* A review's card was not read, or the review is there; or it is new.     *)
SkippedReview(row) ==
  /\ \/ Target(imp.cardMap, row.card) = {}
     \/ \E r \in Seen.reviews : /\ r.card \in Target(imp.cardMap, row.card)
                                 /\ r.rating = row.rating /\ r.at = row.at
  /\ Moved("reviews", row, {}, {}, {})
  /\ UNCHANGED dst

NewReview(row, c) ==
  LET new == [id |-> dst.ids.reviews, card |-> c, rating |-> row.rating, at |-> row.at]
  IN  /\ c \in Target(imp.cardMap, row.card) /\ c \in IdsOf(Seen.cards)
      /\ \A r \in Seen.reviews : ~ /\ r.card \in Target(imp.cardMap, row.card)
                                    /\ r.rating = row.rating /\ r.at = row.at
      /\ Moved("reviews", row, {new}, {}, {})
      /\ TakeId("reviews")

LEMMA UpsertReviewMoves ==
  ASSUME Typed, NEW row \in imp.left.reviews, UpsertReview(row)
  PROVE  (SkippedReview(row) \/ \E c \in Nat : NewReview(row, c)) /\ row \in ReviewRow
<1> DEFINE done == Done(imp, "reviews", row)
           card == Target(imp.cardMap, row.card)
           same == {r \in Seen.reviews : r.card \in card /\ r.rating = row.rating /\ r.at = row.at}
<1>t. /\ row \in ReviewRow /\ row.rating \in Ratings /\ row.at \in Nat /\ dst.ids.reviews \in Nat
      /\ "reviews" \in Tables /\ imp \in Import
  BY LeftType DEF Tables, RowType, ReviewRow, Typed, Ids
<1>d. /\ done \in Import /\ done.pc = imp.pc /\ done.got = imp.got /\ done.mine = imp.mine
      /\ done.langMap = imp.langMap /\ done.cardMap = imp.cardMap
      /\ done.left["reviews"] = imp.left["reviews"] \ {row}
      /\ \A y \in Tables \ {"reviews"} : done.left[y] = imp.left[y]
  BY <1>t, DoneFields
<1>u. \/ (card = {} \/ same # {}) /\ imp' = done /\ dst' = dst
      \/ /\ same = {} /\ card \subseteq IdsOf(Seen.cards)
         /\ \E c \in card : imp' = Insert(done, "reviews",
                [id |-> dst.ids.reviews, card |-> c, rating |-> row.rating, at |-> row.at])
         /\ TakeId("reviews")
  BY DEF UpsertReview, UpsertReviewOf, Run
<1> HIDE DEF done
<1>1. CASE (card = {} \/ same # {}) /\ imp' = done /\ dst' = dst
  <2>1. Moved("reviews", row, {}, {}, {})
    BY <1>1, <1>d DEF Moved
  <2>2. QED
    BY <1>1, <1>t, <2>1 DEF SkippedReview
<1>2. ASSUME same = {}, card \subseteq IdsOf(Seen.cards), TakeId("reviews"), NEW c \in card,
             imp' = Insert(done, "reviews",
                [id |-> dst.ids.reviews, card |-> c, rating |-> row.rating, at |-> row.at])
      PROVE  c \in Nat /\ NewReview(row, c)
  <2> DEFINE new == [id |-> dst.ids.reviews, card |-> c, rating |-> row.rating, at |-> row.at]
  <2>1. c \in Nat
    BY TargetType
  <2>2. new \in RowType["reviews"] /\ imp' = Insert(done, "reviews", new)
    BY <1>2, <2>1, <1>t DEF ReviewRow, RowType
  <2> HIDE DEF new
  <2>3. /\ imp' \in Import /\ imp'.pc = done.pc /\ imp'.got = done.got /\ imp'.left = done.left
        /\ imp'.langMap = done.langMap /\ imp'.cardMap = done.cardMap
        /\ imp'.mine["reviews"] = done.mine["reviews"] \cup {new}
        /\ \A y \in Tables \ {"reviews"} : imp'.mine[y] = done.mine[y]
    BY <1>t, <1>d, <2>2, InsertFields
  <2>4. Moved("reviews", row, {new}, {}, {})
    BY <1>d, <2>3 DEF Moved
  <2>5. QED
    BY <1>2, <2>1, <2>4 DEF NewReview, new
<1>3. QED
  BY <1>t, <1>u, <1>1, <1>2

(* Levels and settings touch no other row.                                 *)
LEMMA UpsertLevelMoves ==
  ASSUME Typed, NEW row \in imp.left.levels, UpsertLevel(row)
  PROVE  dst' = dst /\ \E new \in SUBSET LevelRow : Moved("levels", row, new, {}, {})
<1> DEFINE done == Done(imp, "levels", row)
           lang == Target(imp.langMap, row.lang)
<1>t. row \in LevelRow /\ row.score \in Scores /\ "levels" \in Tables /\ imp \in Import
  BY LeftType DEF Tables, RowType, LevelRow, Typed
<1>d. /\ done \in Import /\ done.pc = imp.pc /\ done.got = imp.got /\ done.mine = imp.mine
      /\ done.langMap = imp.langMap /\ done.cardMap = imp.cardMap
      /\ done.left["levels"] = imp.left["levels"] \ {row}
      /\ \A y \in Tables \ {"levels"} : done.left[y] = imp.left[y]
  BY <1>t, DoneFields
<1>u. /\ dst' = dst
      /\ \/ imp' = done
         \/ \E l \in lang : imp' = Insert(done, "levels", [lang |-> l, score |-> row.score])
  BY DEF UpsertLevel, Run
<1> HIDE DEF done
<1>1. ASSUME imp' = done PROVE \E new \in SUBSET LevelRow : Moved("levels", row, new, {}, {})
  <2>1. Moved("levels", row, {}, {}, {})
    BY <1>1, <1>d DEF Moved
  <2>2. QED
    BY <2>1
<1>2. ASSUME NEW l \in lang, imp' = Insert(done, "levels", [lang |-> l, score |-> row.score])
      PROVE  \E new \in SUBSET LevelRow : Moved("levels", row, new, {}, {})
  <2> DEFINE new == [lang |-> l, score |-> row.score]
  <2>1. new \in LevelRow /\ new \in RowType["levels"] /\ imp' = Insert(done, "levels", new)
    BY <1>2, <1>t, TargetType DEF LevelRow, RowType
  <2> HIDE DEF new
  <2>2. /\ imp' \in Import /\ imp'.pc = done.pc /\ imp'.got = done.got /\ imp'.left = done.left
        /\ imp'.langMap = done.langMap /\ imp'.cardMap = done.cardMap
        /\ imp'.mine["levels"] = done.mine["levels"] \cup {new}
        /\ \A y \in Tables \ {"levels"} : imp'.mine[y] = done.mine[y]
    BY <1>t, <1>d, <2>1, InsertFields
  <2>3. Moved("levels", row, {new}, {}, {})
    BY <1>d, <2>2 DEF Moved
  <2>4. QED
    BY <2>1, <2>3
<1>3. QED
  BY <1>u, <1>1, <1>2

LEMMA UpsertSettingMoves ==
  ASSUME Typed, NEW row \in imp.left.active, UpsertSetting(row)
  PROVE  dst' = dst /\ \E new \in SUBSET Nat : Moved("active", row, new, {}, {})
<1> DEFINE done == Done(imp, "active", row)
<1>t. row \in Nat /\ row \in RowType["active"] /\ "active" \in Tables /\ imp \in Import
  BY LeftType DEF Tables, RowType, Typed
<1>d. /\ done \in Import /\ done.pc = imp.pc /\ done.got = imp.got /\ done.mine = imp.mine
      /\ done.langMap = imp.langMap /\ done.cardMap = imp.cardMap
      /\ done.left["active"] = imp.left["active"] \ {row}
      /\ \A y \in Tables \ {"active"} : done.left[y] = imp.left[y]
  BY <1>t, DoneFields
<1>u. dst' = dst /\ (imp' = done \/ imp' = Insert(done, "active", row))
  BY DEF UpsertSetting, Run
<1> HIDE DEF done
<1>1. ASSUME imp' = done PROVE \E new \in SUBSET Nat : Moved("active", row, new, {}, {})
  <2>1. Moved("active", row, {}, {}, {})
    BY <1>1, <1>d DEF Moved
  <2>2. QED
    BY <2>1
<1>2. CASE imp' = Insert(done, "active", row)
  <2>1. /\ imp' \in Import /\ imp'.pc = done.pc /\ imp'.got = done.got /\ imp'.left = done.left
        /\ imp'.langMap = done.langMap /\ imp'.cardMap = done.cardMap
        /\ imp'.mine["active"] = done.mine["active"] \cup {row}
        /\ \A y \in Tables \ {"active"} : imp'.mine[y] = done.mine[y]
    BY <1>t, <1>d, <1>2, InsertFields
  <2>2. Moved("active", row, {row}, {}, {})
    BY <1>d, <2>1 DEF Moved
  <2>3. QED
    BY <1>t, <1>u, <2>2
<1>3. QED
  BY <1>u, <1>1, <1>2

-----------------------------------------------------------------------------
(* No row is done yet.                                                     *)
Blank(r) == r.left = r.got /\ r.mine = NoRows /\ r.langMap = {} /\ r.cardMap = {}

(* What a run has read is in order, when the source is.                    *)
GotInOrder(r) == /\ Keyed(r.got) /\ \A v \in r.got.reviews : v.at <= MaxClock
                 /\ \A l, m \in r.got.langs : l.name = m.name => l = m

LEMMA NotRunningFields ==
  /\ NotRunning.pc = "idle" /\ NotRunning.got = NoRows
  /\ Blank(NotRunning) /\ GotInOrder(NotRunning)
  /\ \A p \in Tables : LET r == [NotRunning EXCEPT !.pc = p]
                       IN  r \in Import /\ r.pc = p /\ Blank(r) /\ GotInOrder(r)
BY DEF NotRunning, Blank, GotInOrder, NoRows, Keyed, Import, Db, Tables

LEMMA ReadMoves ==
  ASSUME LegacyAssumption, Typed, SourceInOrder, ImportInOrder, NEW x \in Tables, Read(x)
  PROVE  imp' \in Import /\ Blank(imp') /\ GotInOrder(imp')
<1> DEFINE rows == SourceRows(x)
<1>t. /\ imp \in Import /\ imp.got \in Db /\ imp.left \in Db
      /\ src.tables \in LegacyDb /\ clock \in 1 .. MaxClock
  BY DEF Typed, Import, LegacyTyped
<1>b. Blank(imp) /\ GotInOrder(imp)
  BY DEF Read, At, ImportInOrder, Tables, Blank, GotInOrder
<1>1. /\ rows \in SUBSET RowType[x]
      /\ x = "langs" => rows = src.tables.langs
      /\ x = "cards" => rows = src.tables.cards
      /\ x = "reviews" => rows = src.tables.reviews
  BY <1>t DEF SourceRows, Rows, RowType, Tables, LegacyDb, None
<1>2. NextStage[x] \in Tables \cup {"profile"}
  BY DEF NextStage, Tables
<1> DEFINE got == [imp.got EXCEPT ![x] = rows]
<1>3. imp' = [imp EXCEPT !.pc = NextStage[x], !.got = got, !.left = got]
  BY <1>b, <1>t DEF Read, Run, Blank, Import
<1>4. got \in Db
  BY <1>1, <1>t DEF Db, Tables, RowType
<1>5. /\ got["langs"] \in {imp.got.langs, src.tables.langs}
      /\ got["cards"] \in {imp.got.cards, src.tables.cards}
      /\ got["reviews"] \in {imp.got.reviews, src.tables.reviews}
  BY <1>1, <1>t DEF Db, Tables
<1> HIDE DEF got, rows
<1>6. imp' \in Import /\ imp'.got = got /\ Blank(imp')
  BY <1>2, <1>3, <1>4, <1>b, <1>t DEF Import, Blank, Tables
<1>7. \A r \in src.tables.reviews : r.at <= MaxClock
  <2> SUFFICES ASSUME NEW r \in src.tables.reviews PROVE r.at <= MaxClock
    OBVIOUS
  <2>1. r.at \in Nat /\ r.at <= clock
    BY <1>t DEF SourceInOrder, Rows, LegacyDb, ReviewRow
  <2>2. QED
    BY <2>1, <1>t DEF LegacyAssumption
<1>8. GotInOrder(imp')
  BY <1>5, <1>6, <1>7, <1>b DEF GotInOrder, Keyed, SourceInOrder, Rows
<1>9. QED
  BY <1>6, <1>8

LEMMA EnsureProfileMoves ==
  ASSUME Typed, ImportInOrder, EnsureProfile
  PROVE  imp' \in Import /\ Blank(imp') /\ GotInOrder(imp')
<1>t. imp \in Import /\ dst.profile \in BOOLEAN
  BY DEF Typed, Import
<1>b. Blank(imp) /\ GotInOrder(imp)
  BY DEF EnsureProfile, At, ImportInOrder, Tables, Blank, GotInOrder
<1>1. CASE imp' = [imp EXCEPT !.pc = "import", !.made = ~dst.profile]
  BY <1>1, <1>b, <1>t DEF Import, Blank, GotInOrder
<1>2. CASE imp' = NotRunning
  BY <1>2, NotRunningFields, NoRowsType
<1>3. QED
  BY <1>1, <1>2 DEF EnsureProfile, Run, Abort

(* A run that has no row done is in order, and has nothing to answer for.  *)
LEMMA BlankInOrder ==
  ASSUME imp' \in Import, Blank(imp'), GotInOrder(imp')
  PROVE  ImportInOrder' /\ LanguagesMapped' /\ CardsMapped' /\ ReviewsMapped'
<1>1. /\ imp'.mine.reviews = {}
      /\ \A x \in Tables : imp'.left[x] = imp'.got[x]
      /\ imp'.left.langs = imp'.got.langs /\ imp'.left.cards = imp'.got.cards
      /\ imp'.left.reviews = imp'.got.reviews
  BY DEF Blank, NoRows
<1>2. ImportInOrder'
  BY <1>1 DEF ImportInOrder, Blank, GotInOrder
<1>3. imp'.langMap = {} /\ imp'.cardMap = {}
  BY DEF Blank
<1>4. LanguagesMapped'
  BY <1>1, <1>3 DEF LanguagesMapped
<1>5. CardsMapped'
  BY <1>1, <1>3 DEF CardsMapped
<1>6. ReviewsMapped'
  BY <1>1 DEF ReviewsMapped
<1>7. QED
  BY <1>2, <1>4, <1>5, <1>6

-----------------------------------------------------------------------------
(* The rows of the target only become fewer.                               *)
LEMMA TargetShrinks ==
  ASSUME TargetInOrder, dst'.ids = dst.ids,
         Seen'.langs \subseteq Seen.langs, Seen'.cards \subseteq Seen.cards,
         Seen'.reviews \subseteq Seen.reviews, Backed(dst'.tables), Backed(Seen')
  PROVE  TargetInOrder'
<1>1. Keyed(Seen')
  BY DEF TargetInOrder, Keyed
<1>2. Below(Seen', dst'.ids)
  BY DEF TargetInOrder, Below
<1>3. Once(Seen')
  BY DEF TargetInOrder, Once
<1>4. QED
  BY <1>1, <1>2, <1>3 DEF TargetInOrder

(* The transaction is given up, or is empty.                               *)
LEMMA TargetLeft ==
  ASSUME Typed, TargetInOrder, Blank(imp'), dst' = dst
  PROVE  TargetInOrder'
<1>1. imp'.mine.langs = {} /\ imp'.mine.cards = {} /\ imp'.mine.reviews = {}
  BY DEF Blank, NoRows
<1>2. /\ Seen'.langs = dst.tables.langs /\ Seen'.cards = dst.tables.cards
      /\ Seen'.reviews = dst.tables.reviews
  BY <1>1, SeenFields
<1>3. Backed(dst'.tables) /\ Backed(Seen')
  BY <1>2 DEF TargetInOrder, Backed, IdsOf
<1>4. QED
  BY <1>2, <1>3, SeenFields, TargetShrinks

(* ON DELETE CASCADE.                                                      *)
LEMMA WithoutFields ==
  ASSUME NEW db \in Db, NEW l, NEW less, less = WithoutLanguage(db, l)
  PROVE  /\ less \in Db
         /\ less.langs = {x \in db.langs : x.id # l}
         /\ less.cards = {c \in db.cards : c.lang # l}
         /\ less.reviews = {r \in db.reviews : r.card \in IdsOf(less.cards)}
BY DEF WithoutLanguage, Db

LEMMA WithoutBacked ==
  ASSUME NEW db \in Db, NEW l, Backed(db) PROVE Backed(WithoutLanguage(db, l))
BY WithoutFields DEF Backed, IdsOf

LEMMA TargetCommitted ==
  ASSUME Typed, TargetInOrder, Commit
  PROVE  TargetInOrder' /\ dst' \in [profile : BOOLEAN, tables : Db, ids : Ids]
         /\ dst'.tables = Seen
<1>t. dst \in [profile : BOOLEAN, tables : Db, ids : Ids] /\ HasProfile \in BOOLEAN
  BY DEF Typed, HasProfile, Import
<1>1. /\ dst' \in [profile : BOOLEAN, tables : Db, ids : Ids]
      /\ dst'.tables = Seen /\ dst'.ids = dst.ids
  BY <1>t, SeenType DEF Commit
<1>2. imp'.mine.langs = {} /\ imp'.mine.cards = {} /\ imp'.mine.reviews = {}
  BY DEF Commit, Run, NotRunning, NoRows
<1>3. /\ Seen'.langs = Seen.langs /\ Seen'.cards = Seen.cards /\ Seen'.reviews = Seen.reviews
  BY <1>1, <1>2, SeenFields
<1>4. Backed(dst'.tables) /\ Backed(Seen')
  BY <1>1, <1>3 DEF TargetInOrder, Backed, IdsOf
<1>5. QED
  BY <1>1, <1>3, <1>4, TargetShrinks

-----------------------------------------------------------------------------
(* The rows of the import are in order after one of them is done.          *)
LEMMA MovedInOrder ==
  ASSUME Typed, ImportInOrder, NEW x \in Tables, NEW row, NEW new, NEW langs, NEW cards,
         Turn(x, row), Moved(x, row, new, langs, cards),
         x = "reviews" => \A r \in new : r.at <= MaxClock
  PROVE  ImportInOrder'
<1>1. At("import") /\ imp'.pc = imp.pc /\ imp'.got = imp.got
  BY DEF Turn, Moved
<1>2. \A y \in Tables : imp'.left[y] \subseteq imp.left[y]
  BY DEF Moved
<1>3. \A y \in Tables : imp'.left[y] \subseteq imp'.got[y]
  BY <1>1, <1>2 DEF ImportInOrder
<1>4. \A r \in imp'.mine.reviews : r.at <= MaxClock
  BY DEF Moved, ImportInOrder, Tables
<1>5. /\ x = "cards" => imp.left.langs = {}
      /\ x = "reviews" => imp.left.langs = {} /\ imp.left.cards = {}
  BY DEF Turn, Before
<1>6. imp'.left.langs # {} => /\ imp'.left.cards = imp'.got.cards
                              /\ imp'.left.reviews = imp'.got.reviews
  <2> SUFFICES ASSUME imp'.left.langs # {}
               PROVE  imp'.left.cards = imp'.got.cards /\ imp'.left.reviews = imp'.got.reviews
    OBVIOUS
  <2>1. imp.left.langs # {}
    BY <1>2 DEF Tables
  <2>2. x # "cards" /\ x # "reviews"
    BY <1>5, <2>1
  <2>3. imp'.left.cards = imp.left.cards /\ imp'.left.reviews = imp.left.reviews
    BY <2>2 DEF Moved, Tables
  <2>4. QED
    BY <1>1, <2>1, <2>3 DEF ImportInOrder
<1>7. imp'.left.cards # {} => imp'.left.reviews = imp'.got.reviews
  <2> SUFFICES ASSUME imp'.left.cards # {} PROVE imp'.left.reviews = imp'.got.reviews
    OBVIOUS
  <2>1. imp.left.cards # {} /\ x # "reviews"
    BY <1>2, <1>5 DEF Tables
  <2>2. imp'.left.reviews = imp.left.reviews
    BY <2>1 DEF Moved, Tables
  <2>3. QED
    BY <1>1, <2>1, <2>2 DEF ImportInOrder
<1>8. /\ Keyed(imp'.got) /\ \A r \in imp'.got.reviews : r.at <= MaxClock
      /\ \A l, m \in imp'.got.langs : l.name = m.name => l = m
  BY <1>1 DEF ImportInOrder
<1>9. QED
  BY <1>1, <1>3, <1>4, <1>6, <1>7, <1>8 DEF ImportInOrder, At

(* What is there was there, or is new: no id comes back.                   *)
Drawn ==
  /\ dst.ids.cards <= dst'.ids.cards
  /\ \A c \in Seen'.cards : \/ c.id >= dst.ids.cards
                            \/ \E d \in Seen.cards : /\ d.id = c.id /\ d.lang = c.lang
                                                     /\ d.text = c.text
  /\ \A x \in Seen'.langs : \/ x \in Seen.langs \/ x.id >= dst.ids.langs
                            \/ x.id \in IdsOf(Seen.langs) /\ <<x.id, runs>> \in renamed'

(* A renaming is remembered, and the run is the same.                      *)
HistoryStands == renamed \subseteq renamed' /\ runs' = runs

(* Whatever is done elsewhere: a language keeps its target;                *)
LanguagesStand == dst.ids.langs <= dst'.ids.langs /\ HistoryStands /\ Drawn

LEMMA StillCalled ==
  ASSUME LanguagesStand, dst.ids.langs \in Nat, NEW t \in Nat, t < dst.ids.langs, NEW name,
         \A x \in Seen.langs : x.id = t => Called(x, name)
  PROVE  \A x \in Seen'.langs : x.id = t => Called(x, name)'
BY DEF LanguagesStand, HistoryStands, Drawn, Called

LEMMA LanguagesKept ==
  ASSUME Typed, LanguagesMapped, LanguagesStand, dst'.ids \in Ids, imp'.langMap = imp.langMap,
         imp'.got.langs = imp.got.langs, imp'.left.langs = imp.left.langs
  PROVE  LanguagesMapped'
<1>1. ASSUME NEW l \in imp.got.langs \ imp.left.langs
      PROVE  \E t \in Nat : /\ Target(imp'.langMap, l.id) = {t} /\ t < dst'.ids.langs
                            /\ \A x \in Seen'.langs : x.id = t => Called(x, l.name)'
  <2>1. PICK t \in Nat : /\ Target(imp.langMap, l.id) = {t} /\ t < dst.ids.langs
                         /\ \A x \in Seen.langs : x.id = t => Called(x, l.name)
    BY <1>1 DEF LanguagesMapped
  <2>2. dst.ids.langs \in Nat /\ dst'.ids.langs \in Nat
    BY DEF Typed, Ids
  <2>3. t < dst'.ids.langs
    BY <2>1, <2>2 DEF LanguagesStand
  <2>4. \A x \in Seen'.langs : x.id = t => Called(x, l.name)'
    BY <2>1, <2>2, StillCalled
  <2>5. QED
    BY <2>1, <2>3, <2>4
<1>2. \A m \in imp'.langMap : \E l \in imp'.got.langs \ imp'.left.langs : l.id = m[1]
  BY DEF LanguagesMapped
<1>3. QED
  BY <1>1, <1>2 DEF LanguagesMapped

(* the target of a language is older than the ids that are still free;     *)
LEMMA TargetsAreOld ==
  ASSUME Typed, LanguagesMapped, NEW id, NEW t \in Target(imp.langMap, id)
  PROVE  t \in Nat /\ t < dst.ids.langs /\ Target(imp.langMap, id) = {t}
<1>1. PICK m \in imp.langMap : m[1] = id /\ m[2] = t
  BY DEF Target
<1>2. PICK l \in imp.got.langs \ imp.left.langs : l.id = id
  BY <1>1 DEF LanguagesMapped
<1>3. PICK u \in Nat : Target(imp.langMap, id) = {u} /\ u < dst.ids.langs
  BY <1>2 DEF LanguagesMapped
<1>4. t = u
  BY <1>3
<1>5. QED
  BY <1>3, <1>4

LEMMA CardTargetsAreOld ==
  ASSUME Typed, CardsMapped, dst'.ids \in Ids, dst.ids.cards <= dst'.ids.cards
  PROVE  \A m \in imp.cardMap : m[2] < dst'.ids.cards
<1> SUFFICES ASSUME NEW m \in imp.cardMap PROVE m[2] < dst'.ids.cards
  OBVIOUS
<1>1. m[2] \in Nat /\ dst.ids.cards \in Nat /\ dst'.ids.cards \in Nat
  BY DEF Typed, Import, Ids
<1>2. m[2] < dst.ids.cards
  BY DEF CardsMapped
<1>3. QED
  BY <1>1, <1>2

LEMMA TargetStands ==
  ASSUME Typed, LanguagesMapped, LanguagesStand, NEW id, NEW t \in Target(imp.langMap, id),
         t \in IdsOf(Seen'.langs)
  PROVE  t \in IdsOf(Seen.langs)
<1>1. t \in Nat /\ t < dst.ids.langs /\ dst.ids.langs \in Nat
  BY TargetsAreOld DEF Typed, Ids
<1>2. PICK x \in Seen'.langs : x.id = t
  BY DEF IdsOf
<1>3. x \in Seen.langs \/ x.id >= dst.ids.langs \/ x.id \in IdsOf(Seen.langs)
  BY Zenon DEF LanguagesStand, Drawn
<1>4. ~(x.id >= dst.ids.langs)
  BY <1>1, <1>2
<1>5. QED
  BY <1>2, <1>3, <1>4 DEF IdsOf

(* a card keeps its own as long as its language is there;                  *)
CardsStand ==
  \A d \in Seen.cards : d.lang \in IdsOf(Seen'.langs) =>
    \E e \in Seen'.cards : e.id = d.id /\ e.lang = d.lang /\ e.text = d.text

LEMMA CardsKept ==
  ASSUME Typed, LanguagesMapped, CardsMapped, LanguagesStand, CardsStand, dst'.ids \in Ids,
         imp'.langMap = imp.langMap, imp'.cardMap = imp.cardMap,
         imp'.got.cards = imp.got.cards, imp'.left.cards = imp.left.cards
  PROVE  CardsMapped'
<1>1. ASSUME NEW c \in imp.got.cards \ imp.left.cards, Target(imp.langMap, c.lang) # {}
      PROVE  \E k \in Nat :
               /\ Target(imp'.cardMap, c.id) = {k}
               /\ \A t \in Target(imp'.langMap, c.lang) : t \in IdsOf(Seen'.langs) =>
                    \E d \in Seen'.cards : d.id = k /\ d.lang = t /\ d.text = c.text
  <2>1. PICK k \in Nat :
               /\ Target(imp.cardMap, c.id) = {k}
               /\ \A t \in Target(imp.langMap, c.lang) : t \in IdsOf(Seen.langs) =>
                    \E d \in Seen.cards : d.id = k /\ d.lang = t /\ d.text = c.text
    BY <1>1 DEF CardsMapped
  <2>2. ASSUME NEW t \in Target(imp.langMap, c.lang), t \in IdsOf(Seen'.langs)
        PROVE  \E d \in Seen'.cards : d.id = k /\ d.lang = t /\ d.text = c.text
    <3>1. t \in IdsOf(Seen.langs)
      BY <2>2, TargetStands
    <3>2. PICK d \in Seen.cards : d.id = k /\ d.lang = t /\ d.text = c.text
      BY <2>1, <2>2, <3>1
    <3>3. QED
      BY <2>2, <3>2 DEF CardsStand
  <2>3. QED
    BY <2>1, <2>2
<1>2. /\ \A m \in imp'.cardMap : \E c \in imp'.got.cards \ imp'.left.cards : c.id = m[1]
      /\ \A m, n \in imp'.cardMap : m[1] = n[1] => m[2] = n[2]
  BY DEF CardsMapped
<1>b. \A m \in imp'.cardMap : m[2] < dst'.ids.cards
  BY CardTargetsAreOld DEF LanguagesStand, Drawn
<1>3. QED
  BY <1>1, <1>2, <1>b DEF CardsMapped

(* and a review as long as its card is.                                    *)
ReviewsStand ==
  /\ \A k \in IdsOf(Seen'.cards) : k \in IdsOf(Seen.cards) \/ k >= dst.ids.cards
  /\ \A q \in Seen.reviews : q.card \in IdsOf(Seen'.cards) => q \in Seen'.reviews

LEMMA ReviewsKept ==
  ASSUME Typed, CardsMapped, ReviewsMapped, ReviewsStand, imp'.cardMap = imp.cardMap,
         imp'.got.reviews = imp.got.reviews, imp'.left.reviews = imp.left.reviews
  PROVE  ReviewsMapped'
<1> SUFFICES ASSUME NEW r \in imp.got.reviews \ imp.left.reviews,
                    NEW k \in Target(imp.cardMap, r.card), k \in IdsOf(Seen'.cards)
             PROVE  \E q \in Seen'.reviews : q.card = k /\ q.rating = r.rating /\ q.at = r.at
  BY DEF ReviewsMapped
<1>m. PICK m \in imp.cardMap : m[1] = r.card /\ m[2] = k
  BY DEF Target
<1>k. k \in Nat /\ dst.ids.cards \in Nat /\ k < dst.ids.cards
  BY <1>m DEF Typed, Import, Ids, CardsMapped
<1>1. k \in IdsOf(Seen.cards)
  BY <1>k DEF ReviewsStand
<1>2. PICK q \in Seen.reviews : q.card = k /\ q.rating = r.rating /\ q.at = r.at
  BY <1>1 DEF ReviewsMapped
<1>3. QED
  BY <1>2 DEF ReviewsStand

-----------------------------------------------------------------------------
(* The rows of the target after a row of the import.                       *)
LEMMA MovedSeen ==
  ASSUME NEW row, NEW new, NEW langs, NEW cards, dst'.tables = dst.tables
  PROVE  /\ Moved("langs", row, new, langs, cards) =>
              /\ Seen'.langs = Seen.langs \cup new /\ Seen'.cards = Seen.cards
              /\ Seen'.reviews = Seen.reviews
         /\ Moved("cards", row, new, langs, cards) =>
              /\ Seen'.langs = Seen.langs /\ Seen'.cards = Seen.cards \cup new
              /\ Seen'.reviews = Seen.reviews
         /\ Moved("reviews", row, new, langs, cards) =>
              /\ Seen'.langs = Seen.langs /\ Seen'.cards = Seen.cards
              /\ Seen'.reviews = Seen.reviews \cup new
<1>1. Moved("langs", row, new, langs, cards) =>
        /\ imp'.mine.langs = imp.mine.langs \cup new /\ imp'.mine.cards = imp.mine.cards
        /\ imp'.mine.reviews = imp.mine.reviews
  BY DEF Moved, Tables
<1>2. Moved("cards", row, new, langs, cards) =>
        /\ imp'.mine.langs = imp.mine.langs /\ imp'.mine.cards = imp.mine.cards \cup new
        /\ imp'.mine.reviews = imp.mine.reviews
  BY DEF Moved, Tables
<1>3. Moved("reviews", row, new, langs, cards) =>
        /\ imp'.mine.langs = imp.mine.langs /\ imp'.mine.cards = imp.mine.cards
        /\ imp'.mine.reviews = imp.mine.reviews \cup new
  BY DEF Moved, Tables
<1>4. QED
  BY <1>1, <1>2, <1>3, SeenFields

LEMMA MovedSame ==
  ASSUME NEW x \in {"langs", "cards", "reviews"}, NEW row, NEW langs, NEW cards,
         dst'.tables = dst.tables, Moved(x, row, {}, langs, cards)
  PROVE  /\ Seen'.langs = Seen.langs /\ Seen'.cards = Seen.cards
         /\ Seen'.reviews = Seen.reviews
<1>1. /\ imp'.mine.langs = imp.mine.langs /\ imp'.mine.cards = imp.mine.cards
      /\ imp'.mine.reviews = imp.mine.reviews
  BY DEF Moved, Tables
<1>2. QED
  BY <1>1, SeenFields

Grown(map, id, to) == map \cup {<<id, to>>}

LEMMA TargetGrows ==
  ASSUME NEW map, NEW id, NEW to
  PROVE  /\ Target(Grown(map, id, to), id) = Target(map, id) \cup {to}
         /\ \A i : i # id => Target(Grown(map, id, to), i) = Target(map, i)
<1>1. <<id, to>>[1] = id /\ <<id, to>>[2] = to
  OBVIOUS
<1>2. {x \in Grown(map, id, to) : x[1] = id} = {x \in map : x[1] = id} \cup {<<id, to>>}
  BY <1>1 DEF Grown
<1>3. ASSUME NEW i, i # id
      PROVE  {x \in Grown(map, id, to) : x[1] = i} = {x \in map : x[1] = i}
  BY <1>1, <1>3 DEF Grown
<1>4. Target(Grown(map, id, to), id) = Target(map, id) \cup {to}
  BY <1>1, <1>2 DEF Target
<1>5. QED
  BY <1>3, <1>4 DEF Target

(* The language of a row has its target from now on, the others keep       *)
(* theirs.                                                                 *)
LEMMA LanguageMaps ==
  ASSUME Typed, ImportInOrder, LanguagesMapped, LanguagesStand, dst'.ids \in Ids,
         NEW row \in imp.left.langs, NEW to \in Nat, NEW new, to < dst'.ids.langs,
         Moved("langs", row, new, {<<row.id, to>>}, {}),
         \A x \in Seen'.langs : x.id = to => x.name = row.name
  PROVE  LanguagesMapped'
<1>t. dst.ids.langs \in Nat /\ dst'.ids.langs \in Nat /\ row \in imp.got.langs
  BY DEF Typed, Ids, ImportInOrder, Tables
<1>m. /\ imp'.langMap = imp.langMap \cup {<<row.id, to>>} /\ imp'.got.langs = imp.got.langs
      /\ imp'.left.langs = imp.left.langs \ {row}
  BY DEF Moved, Tables
<1>u. \A l \in imp.got.langs : l.id = row.id => l = row
  BY <1>t DEF ImportInOrder, Keyed
<1>n. \A m \in imp.langMap : m[1] # row.id
  BY <1>u DEF LanguagesMapped
<1>w. imp'.langMap = Grown(imp.langMap, row.id, to)
  BY <1>m DEF Grown
<1>1. Target(imp'.langMap, row.id) = {to}
  <2>1. Target(imp.langMap, row.id) = {}
    BY <1>n DEF Target
  <2>2. QED
    BY <1>w, <2>1, TargetGrows
<1>2. ASSUME NEW l \in imp.got.langs \ imp.left.langs
      PROVE  \E t \in Nat : /\ Target(imp'.langMap, l.id) = {t} /\ t < dst'.ids.langs
                            /\ \A x \in Seen'.langs : x.id = t => Called(x, l.name)'
  <2>1. PICK t \in Nat : /\ Target(imp.langMap, l.id) = {t} /\ t < dst.ids.langs
                         /\ \A x \in Seen.langs : x.id = t => Called(x, l.name)
    BY DEF LanguagesMapped
  <2>2. Target(imp'.langMap, l.id) = {t}
    <3>1. l.id # row.id
      BY <1>u
    <3>2. QED
      BY <1>w, <2>1, <3>1, TargetGrows
  <2>3. t < dst'.ids.langs
    BY <1>t, <2>1 DEF LanguagesStand
  <2>4. \A x \in Seen'.langs : x.id = t => Called(x, l.name)'
    BY <1>t, <2>1, StillCalled
  <2>5. QED
    BY <2>2, <2>3, <2>4
<1>3. \A l \in imp'.got.langs \ imp'.left.langs : l = row \/ l \in imp.got.langs \ imp.left.langs
  BY <1>m
<1>4. ASSUME NEW l \in imp'.got.langs \ imp'.left.langs
      PROVE  \E t \in Nat : /\ Target(imp'.langMap, l.id) = {t} /\ t < dst'.ids.langs
                            /\ \A x \in Seen'.langs : x.id = t => Called(x, l.name)'
  BY <1>1, <1>2, <1>3 DEF Called
<1>5. \A m \in imp'.langMap : \E l \in imp'.got.langs \ imp'.left.langs : l.id = m[1]
  <2> SUFFICES ASSUME NEW m \in imp'.langMap
               PROVE  \E l \in imp'.got.langs \ imp'.left.langs : l.id = m[1]
    OBVIOUS
  <2>1. CASE m \in imp.langMap
    BY <1>m, <2>1 DEF LanguagesMapped
  <2>2. CASE m = <<row.id, to>>
    BY <1>m, <1>t, <2>2
  <2>3. QED
    BY <1>m, <2>1, <2>2
<1>6. QED
  BY <1>4, <1>5 DEF LanguagesMapped

LEMMA UpsertLanguageStep ==
  ASSUME Typed, CopyInOrder, HistoryStands, NEW row \in imp.left.langs, UpsertLanguage(row)
  PROVE  CopyInOrder' /\ imp' \in Import /\ dst' \in [profile : BOOLEAN, tables : Db, ids : Ids]
         /\ dst'.tables = dst.tables /\ Drawn
<1>t. /\ row \in LangRow /\ row.id \in Nat /\ row.name \in Names /\ dst.ids.langs \in Nat
      /\ "langs" \in Tables /\ Seen.langs \subseteq LangRow
      /\ dst \in [profile : BOOLEAN, tables : Db, ids : Ids] /\ dst.ids \in Ids
  BY UpsertLanguageMoves, SeenType DEF Tables, LangRow, Typed, Ids
<1>i. TargetInOrder /\ ImportInOrder /\ LanguagesMapped /\ CardsMapped /\ ReviewsMapped
      /\ Turn("langs", row)
  BY DEF CopyInOrder, UpsertLanguage
<1>b. \A l \in Seen.langs : l.id \in Nat /\ l.id < dst.ids.langs
  BY <1>t, <1>i DEF TargetInOrder, Below, LangRow
<1>g. ASSUME NEW new, NEW langs, Moved("langs", row, new, langs, {})
      PROVE  ImportInOrder' /\ CardsMapped' /\ ReviewsMapped' /\ imp' \in Import
  <2>1. imp.left.cards = imp.got.cards /\ imp.left.reviews = imp.got.reviews
    BY <1>i DEF ImportInOrder
  <2>2. /\ imp'.left.cards = imp'.got.cards /\ imp'.left.reviews = imp'.got.reviews
        /\ imp'.cardMap = imp.cardMap /\ imp' \in Import
    BY <1>g, <2>1 DEF Moved, Tables
  <2>3. imp'.cardMap = {}
    BY <1>i, <2>1, <2>2 DEF CardsMapped
  <2>4. ImportInOrder'
    BY <1>t, <1>i, <1>g, MovedInOrder
  <2>5. QED
    BY <2>2, <2>3, <2>4 DEF CardsMapped, ReviewsMapped
<1>1. CASE NewLanguage(row)
  <2> DEFINE new == [id |-> dst.ids.langs, name |-> row.name]
  <2>1. /\ Moved("langs", row, {new}, {<<row.id, dst.ids.langs>>}, {}) /\ TakeId("langs")
        /\ \A l \in Seen.langs : l.name # row.name
        /\ new.id = dst.ids.langs /\ new.name = row.name
    BY <1>1 DEF NewLanguage
  <2> HIDE DEF new
  <2>2. /\ dst' \in [profile : BOOLEAN, tables : Db, ids : Ids] /\ dst'.tables = dst.tables
        /\ dst'.ids.langs = dst.ids.langs + 1 /\ dst'.ids.cards = dst.ids.cards
    BY <2>1, TakeIdFields
  <2>3. /\ Seen'.langs = Seen.langs \cup {new} /\ Seen'.cards = Seen.cards
        /\ Seen'.reviews = Seen.reviews
    BY <2>1, <2>2, <1>t, MovedSeen
  <2>4. TargetInOrder'
    <3>1. Keyed(Seen') /\ Below(Seen', dst'.ids)
      BY <1>b, <1>i, <1>t, <2>1, <2>2, <2>3 DEF TargetInOrder, Keyed, Below
    <3>2. Once(Seen')
      BY <1>i, <2>1, <2>3 DEF TargetInOrder, Once
    <3>3. Backed(dst'.tables) /\ Backed(Seen')
      BY <1>i, <2>2, <2>3 DEF TargetInOrder, Backed, IdsOf
    <3>4. QED
      BY <3>1, <3>2, <3>3 DEF TargetInOrder
  <2>5. LanguagesStand
    BY <1>t, <2>1, <2>2, <2>3 DEF LanguagesStand, Drawn, Ids
  <2>6. \A x \in Seen'.langs : x.id = dst.ids.langs => x.name = row.name
    BY <1>b, <1>t, <2>1, <2>3
  <2>7. dst'.ids \in Ids /\ dst.ids.langs < dst'.ids.langs
    BY <1>t, <2>2
  <2>8. LanguagesMapped'
    BY <1>i, <1>t, <2>1, <2>5, <2>6, <2>7, LanguageMaps
  <2>9. QED
    BY <1>g, <2>1, <2>2, <2>4, <2>5, <2>8 DEF CopyInOrder, LanguagesStand
<1>2. ASSUME NEW l \in Seen.langs, OldLanguage(row, l)
      PROVE  CopyInOrder' /\ imp' \in Import /\ dst' = dst /\ Drawn
  <2>1. /\ Moved("langs", row, {}, {<<row.id, l.id>>}, {}) /\ dst' = dst /\ l.name = row.name
    BY <1>2 DEF OldLanguage
  <2>3. Seen'.langs = Seen.langs /\ Seen'.cards = Seen.cards /\ Seen'.reviews = Seen.reviews
    BY <2>1, <1>t, MovedSame
  <2>4. TargetInOrder'
    <3>1. Backed(dst'.tables) /\ Backed(Seen')
      BY <1>i, <2>1, <2>3 DEF TargetInOrder, Backed
    <3>2. QED
      BY <1>i, <2>1, <2>3, <3>1, TargetShrinks
  <2>5. LanguagesStand
    BY <1>t, <2>1, <2>3 DEF LanguagesStand, Drawn, Ids
  <2>6. \A x \in Seen'.langs : x.id = l.id => x.name = row.name
    BY <1>i, <2>1, <2>3 DEF TargetInOrder, Keyed
  <2>7. dst'.ids \in Ids /\ l.id \in Nat /\ l.id < dst'.ids.langs
    BY <1>t, <1>b, <2>1
  <2>8. LanguagesMapped'
    BY <1>i, <2>1, <2>5, <2>6, <2>7, LanguageMaps
  <2>9. QED
    BY <1>g, <2>1, <2>4, <2>5, <2>8 DEF CopyInOrder, LanguagesStand
<1>3. QED
  BY <1>1, <1>2, <1>t, UpsertLanguageMoves

(* The card of a row has its target from now on, the others keep theirs.   *)
LEMMA CardMaps ==
  ASSUME Typed, ImportInOrder, LanguagesMapped, CardsMapped, LanguagesStand, CardsStand,
         dst'.ids \in Ids, NEW row \in imp.left.cards, NEW k \in Nat, NEW new, k < dst'.ids.cards,
         Moved("cards", row, new, {}, {<<row.id, k>>}),
         \A t \in Target(imp.langMap, row.lang) :
           \E d \in Seen'.cards : d.id = k /\ d.lang = t /\ d.text = row.text
  PROVE  CardsMapped'
<1> DEFINE Carried(c, j) ==
             /\ Target(imp'.cardMap, c.id) = {j}
             /\ \A t \in Target(imp'.langMap, c.lang) : t \in IdsOf(Seen'.langs) =>
                  \E d \in Seen'.cards : d.id = j /\ d.lang = t /\ d.text = c.text
<1>t. dst.ids.langs \in Nat /\ row \in imp.got.cards
  BY DEF Typed, Ids, ImportInOrder, Tables
<1>m. /\ imp'.cardMap = imp.cardMap \cup {<<row.id, k>>} /\ imp'.got.cards = imp.got.cards
      /\ imp'.left.cards = imp.left.cards \ {row} /\ imp'.langMap = imp.langMap
  BY DEF Moved, Tables
<1>u. \A c \in imp.got.cards : c.id = row.id => c = row
  BY <1>t DEF ImportInOrder, Keyed
<1>n. \A m \in imp.cardMap : m[1] # row.id
  BY <1>u DEF CardsMapped
<1>w. imp'.cardMap = Grown(imp.cardMap, row.id, k)
  BY <1>m DEF Grown
<1>1. Target(imp'.cardMap, row.id) = {k}
  <2>1. Target(imp.cardMap, row.id) = {}
    BY <1>n DEF Target
  <2>2. QED
    BY <1>w, <2>1, TargetGrows
<1>2. ASSUME NEW c \in imp.got.cards \ imp.left.cards, Target(imp.langMap, c.lang) # {}
      PROVE  \E j \in Nat : Carried(c, j)
  <2>1. PICK j \in Nat :
               /\ Target(imp.cardMap, c.id) = {j}
               /\ \A t \in Target(imp.langMap, c.lang) : t \in IdsOf(Seen.langs) =>
                    \E d \in Seen.cards : d.id = j /\ d.lang = t /\ d.text = c.text
    BY <1>2 DEF CardsMapped
  <2>2. Target(imp'.cardMap, c.id) = {j}
    <3>1. c.id # row.id
      BY <1>u
    <3>2. QED
      BY <1>w, <2>1, <3>1, TargetGrows
  <2>3. ASSUME NEW t \in Target(imp.langMap, c.lang), t \in IdsOf(Seen'.langs)
        PROVE  \E d \in Seen'.cards : d.id = j /\ d.lang = t /\ d.text = c.text
    <3>1. t \in IdsOf(Seen.langs)
      BY <2>3, TargetStands
    <3>2. PICK d \in Seen.cards : d.id = j /\ d.lang = t /\ d.text = c.text
      BY <2>1, <2>3, <3>1
    <3>3. QED
      BY <2>3, <3>2 DEF CardsStand
  <2>4. Carried(c, j)
    BY <1>m, <2>2, <2>3
  <2>5. QED
    BY <2>1, <2>4
<1>r. Carried(row, k)
  BY <1>1, <1>m
<1> HIDE DEF Carried
<1>3. ASSUME NEW c \in imp'.got.cards \ imp'.left.cards, Target(imp'.langMap, c.lang) # {}
      PROVE  \E j \in Nat : Carried(c, j)
  <2>1. CASE c = row
    BY <1>r, <2>1
  <2>2. CASE c \in imp.got.cards \ imp.left.cards
    BY <1>2, <1>3, <1>m, <2>2
  <2>3. QED
    BY <1>3, <1>m, <2>1, <2>2
<1>4. \A m \in imp'.cardMap : \E c \in imp'.got.cards \ imp'.left.cards : c.id = m[1]
  <2> SUFFICES ASSUME NEW m \in imp'.cardMap
               PROVE  \E c \in imp'.got.cards \ imp'.left.cards : c.id = m[1]
    OBVIOUS
  <2>1. CASE m \in imp.cardMap
    BY <1>m, <2>1 DEF CardsMapped
  <2>2. CASE m = <<row.id, k>>
    BY <1>m, <1>t, <2>2
  <2>3. QED
    BY <1>m, <2>1, <2>2
<1>5. \A m, n \in imp'.cardMap : m[1] = n[1] => m[2] = n[2]
  BY <1>m, <1>n DEF CardsMapped
<1>6. \A m \in imp'.cardMap : m[2] < dst'.ids.cards
  BY <1>m, CardTargetsAreOld DEF LanguagesStand, Drawn
<1>7. QED
  BY <1>3, <1>4, <1>5, <1>6 DEF CardsMapped, Carried

LEMMA UpsertCardStep ==
  ASSUME Typed, CopyInOrder, HistoryStands, NEW row \in imp.left.cards, UpsertCard(row)
  PROVE  CopyInOrder' /\ imp' \in Import /\ dst' \in [profile : BOOLEAN, tables : Db, ids : Ids]
         /\ dst'.tables = dst.tables /\ Drawn
<1>t. /\ row \in CardRow /\ row.id \in Nat /\ dst.ids.cards \in Nat /\ dst.ids.langs \in Nat
      /\ "cards" \in Tables /\ Seen.cards \subseteq CardRow
      /\ dst \in [profile : BOOLEAN, tables : Db, ids : Ids] /\ dst.ids \in Ids
  BY UpsertCardMoves, SeenType DEF Tables, CardRow, Typed, Ids
<1>i. TargetInOrder /\ ImportInOrder /\ LanguagesMapped /\ CardsMapped /\ ReviewsMapped
      /\ Turn("cards", row)
  BY DEF CopyInOrder, UpsertCard
<1>b. \A c \in Seen.cards : c.id \in Nat /\ c.id < dst.ids.cards
  BY <1>t, <1>i DEF TargetInOrder, Below, CardRow
<1>g. ASSUME NEW new, NEW cards, Moved("cards", row, new, {}, cards), LanguagesStand,
             dst'.ids \in Ids
      PROVE  ImportInOrder' /\ LanguagesMapped' /\ ReviewsMapped' /\ imp' \in Import
  <2>1. imp.left.reviews = imp.got.reviews
    BY <1>i DEF ImportInOrder
  <2>2. /\ imp'.left.reviews = imp'.got.reviews /\ imp' \in Import
        /\ imp'.left.langs = imp.left.langs /\ imp'.got.langs = imp.got.langs
        /\ imp'.langMap = imp.langMap
    BY <1>g, <2>1 DEF Moved, Tables
  <2>3. ImportInOrder'
    BY <1>t, <1>i, <1>g, MovedInOrder
  <2>4. LanguagesMapped'
    BY <1>t, <1>i, <1>g, <2>2, LanguagesKept
  <2>5. QED
    BY <2>2, <2>3, <2>4 DEF ReviewsMapped
<1>s. ASSUME NEW cards, Moved("cards", row, {}, {}, cards), dst' = dst
      PROVE  /\ TargetInOrder' /\ LanguagesStand /\ CardsStand /\ Seen'.cards = Seen.cards
             /\ dst' = dst /\ dst'.ids \in Ids
  <2>1. Seen'.langs = Seen.langs /\ Seen'.cards = Seen.cards /\ Seen'.reviews = Seen.reviews
    BY <1>s, <1>t, MovedSame
  <2>2. Backed(dst'.tables) /\ Backed(Seen')
    BY <1>i, <1>s, <2>1 DEF TargetInOrder, Backed
  <2>3. TargetInOrder'
    BY <1>i, <1>s, <2>1, <2>2, TargetShrinks
  <2>4. LanguagesStand /\ CardsStand
    BY <1>s, <1>t, <2>1 DEF LanguagesStand, Drawn, CardsStand, Ids
  <2>5. QED
    BY <1>s, <1>t, <2>1, <2>3, <2>4
<1>1. CASE SkippedCard(row)
  <2>1. Moved("cards", row, {}, {}, {}) /\ dst' = dst /\ Target(imp.langMap, row.lang) = {}
    BY <1>1 DEF SkippedCard
  <2>2. CardsMapped'
    <3>1. /\ imp'.left.cards = imp.left.cards \ {row} /\ imp'.got.cards = imp.got.cards
          /\ imp'.langMap = imp.langMap /\ imp'.cardMap = imp.cardMap
      BY <2>1 DEF Moved, Tables
    <3>2. /\ \A m \in imp'.cardMap : /\ m[2] < dst'.ids.cards
                                     /\ \E c \in imp'.got.cards \ imp'.left.cards : c.id = m[1]
          /\ \A m, n \in imp'.cardMap : m[1] = n[1] => m[2] = n[2]
      BY <1>i, <2>1, <3>1 DEF CardsMapped
    <3>3. Seen'.langs = Seen.langs /\ Seen'.cards = Seen.cards
      BY <1>t, <2>1, MovedSame
    <3>4. ASSUME NEW c \in imp'.got.cards \ imp'.left.cards, Target(imp'.langMap, c.lang) # {}
          PROVE  \E j \in Nat :
                   /\ Target(imp'.cardMap, c.id) = {j}
                   /\ \A t \in Target(imp'.langMap, c.lang) : t \in IdsOf(Seen'.langs) =>
                        \E d \in Seen'.cards : d.id = j /\ d.lang = t /\ d.text = c.text
      <4>1. c \in imp.got.cards \ imp.left.cards
        BY <2>1, <3>1, <3>4
      <4>2. QED
        BY <1>i, <3>1, <3>3, <3>4, <4>1 DEF CardsMapped
    <3>5. QED
      BY <3>2, <3>4 DEF CardsMapped
  <2>3. QED
    BY <1>g, <1>s, <1>t, <2>1, <2>2 DEF CopyInOrder, LanguagesStand
<1>2. ASSUME NEW c \in Seen.cards, OldCard(row, c)
      PROVE  CopyInOrder' /\ imp' \in Import /\ dst' = dst /\ Drawn
  <2>1. /\ Moved("cards", row, {}, {}, {<<row.id, c.id>>}) /\ dst' = dst
        /\ c.lang \in Target(imp.langMap, row.lang) /\ c.text = row.text
    BY <1>2 DEF OldCard
  <2>2. Target(imp.langMap, row.lang) = {c.lang}
    BY <1>i, <2>1, TargetsAreOld
  <2>3. c.id \in Nat /\ c.id < dst'.ids.cards
    BY <1>b, <2>1
  <2>4. /\ TargetInOrder' /\ LanguagesStand /\ CardsStand /\ Seen'.cards = Seen.cards
        /\ dst'.ids \in Ids
    BY <1>s, <2>1
  <2>5. CardsMapped'
    BY <1>i, <2>1, <2>2, <2>3, <2>4, CardMaps
  <2>6. QED
    BY <1>g, <2>1, <2>4, <2>5 DEF CopyInOrder, LanguagesStand
<1>3. ASSUME NEW l \in Nat, NewCard(row, l)
      PROVE  CopyInOrder' /\ imp' \in Import /\ Drawn
             /\ dst' \in [profile : BOOLEAN, tables : Db, ids : Ids] /\ dst'.tables = dst.tables
  <2> DEFINE new == [id |-> dst.ids.cards, lang |-> l, text |-> row.text, last |-> row.last]
  <2>1. /\ Moved("cards", row, {new}, {}, {<<row.id, dst.ids.cards>>}) /\ TakeId("cards")
        /\ l \in Target(imp.langMap, row.lang) /\ l \in IdsOf(Seen.langs)
        /\ \A c \in Seen.cards : ~(c.lang \in Target(imp.langMap, row.lang) /\ c.text = row.text)
        /\ new.id = dst.ids.cards /\ new.lang = l /\ new.text = row.text
    BY <1>3 DEF NewCard
  <2> HIDE DEF new
  <2>2. /\ dst' \in [profile : BOOLEAN, tables : Db, ids : Ids] /\ dst'.tables = dst.tables
        /\ dst'.ids.langs = dst.ids.langs /\ dst'.ids.cards = dst.ids.cards + 1
    BY <2>1, TakeIdFields
  <2>3. /\ Seen'.langs = Seen.langs /\ Seen'.cards = Seen.cards \cup {new}
        /\ Seen'.reviews = Seen.reviews
    BY <2>1, <2>2, <1>t, MovedSeen
  <2>4. Target(imp.langMap, row.lang) = {l}
    BY <1>i, <2>1, TargetsAreOld
  <2>5. TargetInOrder'
    <3>1. Keyed(Seen') /\ Below(Seen', dst'.ids)
      BY <1>b, <1>i, <1>t, <2>1, <2>2, <2>3 DEF TargetInOrder, Keyed, Below
    <3>2. Once(Seen')
      BY <1>i, <2>3 DEF TargetInOrder, Once
    <3>3. Backed(dst'.tables) /\ Backed(Seen')
      BY <1>i, <2>1, <2>2, <2>3 DEF TargetInOrder, Backed, IdsOf
    <3>4. QED
      BY <3>1, <3>2, <3>3 DEF TargetInOrder
  <2>6. LanguagesStand /\ CardsStand
    BY <1>t, <2>1, <2>2, <2>3 DEF LanguagesStand, Drawn, CardsStand, Ids
  <2>b. dst'.ids \in Ids /\ dst.ids.cards < dst'.ids.cards
    BY <1>t, <2>2
  <2>7. CardsMapped'
    BY <1>i, <1>t, <2>1, <2>3, <2>4, <2>6, <2>b, CardMaps
  <2>8. QED
    BY <1>g, <2>1, <2>2, <2>b, <2>5, <2>6, <2>7 DEF CopyInOrder, LanguagesStand
<1>4. QED
  BY <1>1, <1>2, <1>3, <1>t, <1>s, <1>g, UpsertCardMoves DEF SkippedCard

LEMMA OneCardTarget ==
  ASSUME CardsMapped, NEW id, NEW j \in Target(imp.cardMap, id), NEW k \in Target(imp.cardMap, id)
  PROVE  j = k
BY DEF CardsMapped, Target

LEMMA UpsertReviewStep ==
  ASSUME Typed, CopyInOrder, HistoryStands, NEW row \in imp.left.reviews, UpsertReview(row)
  PROVE  CopyInOrder' /\ imp' \in Import /\ dst' \in [profile : BOOLEAN, tables : Db, ids : Ids]
         /\ dst'.tables = dst.tables /\ Drawn
<1>t. /\ row \in ReviewRow /\ row \in imp.got.reviews /\ "reviews" \in Tables
      /\ dst \in [profile : BOOLEAN, tables : Db, ids : Ids] /\ dst.ids \in Ids
      /\ dst.ids.langs \in Nat
  BY UpsertReviewMoves DEF Tables, Typed, Ids, CopyInOrder, ImportInOrder
<1>i. TargetInOrder /\ ImportInOrder /\ LanguagesMapped /\ CardsMapped /\ ReviewsMapped
      /\ Turn("reviews", row) /\ row.at <= MaxClock
  BY <1>t DEF CopyInOrder, UpsertReview, UpsertReviewOf, ImportInOrder
<1>g. ASSUME NEW new, Moved("reviews", row, new, {}, {}), \A r \in new : r.at <= MaxClock,
             dst'.tables = dst.tables, dst'.ids \in Ids,
             dst'.ids.langs = dst.ids.langs, dst'.ids.cards = dst.ids.cards
      PROVE  /\ ImportInOrder' /\ LanguagesMapped' /\ CardsMapped' /\ imp' \in Import /\ Drawn
             /\ Seen'.langs = Seen.langs /\ Seen'.cards = Seen.cards
             /\ Seen'.reviews = Seen.reviews \cup new
             /\ imp'.got.reviews = imp.got.reviews /\ imp'.cardMap = imp.cardMap
             /\ imp'.left.reviews = imp.left.reviews \ {row}
  <2>1. /\ imp' \in Import /\ imp'.got = imp.got
        /\ imp'.left.langs = imp.left.langs /\ imp'.left.cards = imp.left.cards
        /\ imp'.left.reviews = imp.left.reviews \ {row}
        /\ imp'.langMap = imp.langMap /\ imp'.cardMap = imp.cardMap
    BY <1>g DEF Moved, Tables
  <2>2. /\ Seen'.langs = Seen.langs /\ Seen'.cards = Seen.cards
        /\ Seen'.reviews = Seen.reviews \cup new
    BY <1>g, <1>t, MovedSeen
  <2>3. LanguagesStand /\ CardsStand
    BY <1>g, <1>t, <2>2 DEF LanguagesStand, Drawn, CardsStand, Ids
  <2>4. ImportInOrder'
    BY <1>t, <1>i, <1>g, MovedInOrder
  <2>5. LanguagesMapped'
    BY <1>t, <1>i, <1>g, <2>1, <2>3, LanguagesKept
  <2>6. CardsMapped'
    BY <1>g, <1>i, <2>1, <2>3, CardsKept
  <2>7. QED
    BY <2>1, <2>2, <2>3, <2>4, <2>5, <2>6 DEF LanguagesStand
<1>r. ASSUME imp'.got.reviews = imp.got.reviews, imp'.cardMap = imp.cardMap,
             imp'.left.reviews = imp.left.reviews \ {row}, Seen'.cards = Seen.cards,
             Seen.reviews \subseteq Seen'.reviews,
             \A k \in Target(imp.cardMap, row.card) :
               \E q \in Seen'.reviews : q.card = k /\ q.rating = row.rating /\ q.at = row.at
      PROVE  ReviewsMapped'
  <2> SUFFICES ASSUME NEW r \in imp'.got.reviews \ imp'.left.reviews,
                      NEW k \in Target(imp'.cardMap, r.card), k \in IdsOf(Seen'.cards)
               PROVE  \E q \in Seen'.reviews : q.card = k /\ q.rating = r.rating /\ q.at = r.at
    BY DEF ReviewsMapped
  <2>1. CASE r = row
    BY <1>r, <2>1
  <2>2. CASE r \in imp.got.reviews \ imp.left.reviews
    <3>1. PICK q \in Seen.reviews : q.card = k /\ q.rating = r.rating /\ q.at = r.at
      BY <1>i, <1>r, <2>2 DEF ReviewsMapped
    <3>2. QED
      BY <1>r, <3>1
  <2>3. QED
    BY <1>r, <2>1, <2>2
<1>1. CASE SkippedReview(row)
  <2>1. /\ Moved("reviews", row, {}, {}, {}) /\ dst' = dst
        /\ \/ Target(imp.cardMap, row.card) = {}
           \/ \E r \in Seen.reviews : /\ r.card \in Target(imp.cardMap, row.card)
                                       /\ r.rating = row.rating /\ r.at = row.at
    BY <1>1 DEF SkippedReview
  <2>2. /\ ImportInOrder' /\ LanguagesMapped' /\ CardsMapped' /\ imp' \in Import /\ Drawn
        /\ Seen'.langs = Seen.langs /\ Seen'.cards = Seen.cards
        /\ Seen'.reviews = Seen.reviews
        /\ imp'.got.reviews = imp.got.reviews /\ imp'.cardMap = imp.cardMap
        /\ imp'.left.reviews = imp.left.reviews \ {row}
    <3> DEFINE none == {}
    <3>1. /\ Moved("reviews", row, none, {}, {}) /\ \A r \in none : r.at <= MaxClock
          /\ dst'.tables = dst.tables /\ dst'.ids \in Ids
          /\ dst'.ids.langs = dst.ids.langs /\ dst'.ids.cards = dst.ids.cards
      BY <1>t, <2>1
    <3>2. Seen.reviews \cup none = Seen.reviews
      OBVIOUS
    <3> HIDE DEF none
    <3>3. QED
      BY <1>g, <3>1, <3>2
  <2>3. \A k \in Target(imp.cardMap, row.card) :
          \E q \in Seen'.reviews : q.card = k /\ q.rating = row.rating /\ q.at = row.at
    BY <1>i, <2>1, <2>2, OneCardTarget
  <2>4. ReviewsMapped'
    BY <1>r, <2>2, <2>3
  <2>5. TargetInOrder'
    <3>1. Backed(dst'.tables) /\ Backed(Seen')
      BY <1>i, <2>1, <2>2 DEF TargetInOrder, Backed
    <3>2. QED
      BY <1>i, <2>1, <2>2, <3>1, TargetShrinks
  <2>6. QED
    BY <1>t, <2>1, <2>2, <2>4, <2>5 DEF CopyInOrder
<1>2. ASSUME NEW c \in Nat, NewReview(row, c)
      PROVE  CopyInOrder' /\ imp' \in Import /\ Drawn
             /\ dst' \in [profile : BOOLEAN, tables : Db, ids : Ids] /\ dst'.tables = dst.tables
  <2> DEFINE new == [id |-> dst.ids.reviews, card |-> c, rating |-> row.rating, at |-> row.at]
  <2>1. /\ Moved("reviews", row, {new}, {}, {}) /\ TakeId("reviews")
        /\ c \in Target(imp.cardMap, row.card) /\ c \in IdsOf(Seen.cards)
        /\ \A r \in Seen.reviews : ~ /\ r.card \in Target(imp.cardMap, row.card)
                                      /\ r.rating = row.rating /\ r.at = row.at
        /\ new.card = c /\ new.rating = row.rating /\ new.at = row.at
    BY <1>2 DEF NewReview
  <2> HIDE DEF new
  <2>2. /\ dst' \in [profile : BOOLEAN, tables : Db, ids : Ids] /\ dst'.tables = dst.tables
        /\ dst'.ids.langs = dst.ids.langs /\ dst'.ids.cards = dst.ids.cards
    BY <2>1, TakeIdFields
  <2>3. /\ ImportInOrder' /\ LanguagesMapped' /\ CardsMapped' /\ imp' \in Import /\ Drawn
        /\ Seen'.langs = Seen.langs /\ Seen'.cards = Seen.cards
        /\ Seen'.reviews = Seen.reviews \cup {new}
        /\ imp'.got.reviews = imp.got.reviews /\ imp'.cardMap = imp.cardMap
        /\ imp'.left.reviews = imp.left.reviews \ {row}
    <3>1. \A r \in {new} : r.at <= MaxClock
      BY <1>i, <2>1
    <3>2. QED
      BY <1>g, <2>1, <2>2, <3>1
  <2>4. \A k \in Target(imp.cardMap, row.card) :
          \E q \in Seen'.reviews : q.card = k /\ q.rating = row.rating /\ q.at = row.at
    BY <1>i, <2>1, <2>3, OneCardTarget
  <2>5. ReviewsMapped'
    BY <1>r, <2>3, <2>4
  <2>6. TargetInOrder'
    <3>1. Keyed(Seen') /\ Below(Seen', dst'.ids)
      BY <1>i, <2>2, <2>3 DEF TargetInOrder, Keyed, Below
    <3>2. Once(Seen')
      BY <1>i, <2>1, <2>3 DEF TargetInOrder, Once
    <3>3. Backed(dst'.tables) /\ Backed(Seen')
      BY <1>i, <2>1, <2>2, <2>3 DEF TargetInOrder, Backed
    <3>4. QED
      BY <3>1, <3>2, <3>3 DEF TargetInOrder
  <2>7. QED
    BY <2>2, <2>3, <2>5, <2>6 DEF CopyInOrder
<1>3. QED
  BY <1>1, <1>2, <1>t, UpsertReviewMoves DEF SkippedReview

(* A level or a setting.                                                   *)
LEMMA OtherRowStep ==
  ASSUME Typed, CopyInOrder, HistoryStands, NEW x \in {"levels", "active"}, NEW row, NEW new,
         Turn(x, row), Moved(x, row, new, {}, {}), dst' = dst
  PROVE  CopyInOrder' /\ imp' \in Import /\ Drawn
<1>i. TargetInOrder /\ ImportInOrder /\ LanguagesMapped /\ CardsMapped /\ ReviewsMapped
      /\ x \in Tables /\ dst'.ids \in Ids
      /\ dst.ids.langs \in Nat /\ dst.ids.cards \in Nat
  BY DEF CopyInOrder, Tables, Typed, Ids
<1>1. Seen'.langs = Seen.langs /\ Seen'.cards = Seen.cards /\ Seen'.reviews = Seen.reviews
  <2>1. /\ imp'.mine.langs = imp.mine.langs /\ imp'.mine.cards = imp.mine.cards
        /\ imp'.mine.reviews = imp.mine.reviews
    BY DEF Moved, Tables
  <2>2. QED
    BY <2>1, SeenFields
<1>2. /\ imp' \in Import /\ imp'.got = imp.got
      /\ imp'.left.langs = imp.left.langs /\ imp'.left.cards = imp.left.cards
      /\ imp'.left.reviews = imp.left.reviews
      /\ imp'.langMap = imp.langMap /\ imp'.cardMap = imp.cardMap
  BY DEF Moved, Tables
<1>3. LanguagesStand /\ CardsStand /\ ReviewsStand
  BY <1>1, <1>i DEF LanguagesStand, Drawn, CardsStand, ReviewsStand
<1>4. ImportInOrder'
  BY <1>i, MovedInOrder
<1>5. LanguagesMapped' /\ CardsMapped' /\ ReviewsMapped'
  BY <1>i, <1>2, <1>3, LanguagesKept, CardsKept, ReviewsKept
<1>6. TargetInOrder'
  <2>1. Backed(dst'.tables) /\ Backed(Seen')
    BY <1>i, <1>1 DEF TargetInOrder, Backed
  <2>2. QED
    BY <1>i, <1>1, <2>1, TargetShrinks
<1>7. QED
  BY <1>2, <1>3, <1>4, <1>5, <1>6 DEF CopyInOrder, LanguagesStand

-----------------------------------------------------------------------------
(* The user of the new application, next to the import.                    *)
LEMMA AppKeeps ==
  ASSUME Typed, CopyInOrder, imp' = imp, TargetInOrder', LanguagesStand, CardsStand, ReviewsStand,
         dst' \in [profile : BOOLEAN, tables : Db, ids : Ids]
  PROVE  CopyInOrder'
<1>1. LanguagesMapped' /\ CardsMapped' /\ ReviewsMapped'
  BY LanguagesKept, CardsKept, ReviewsKept DEF CopyInOrder
<1>2. ImportInOrder'
  BY DEF CopyInOrder, ImportInOrder, At
<1>3. QED
  BY <1>1, <1>2 DEF CopyInOrder

LEMMA AppAddLanguageStep ==
  ASSUME Typed, CopyInOrder, HistoryStands, NEW name \in Names, AppAddLanguage(name)
  PROVE  CopyInOrder' /\ dst' \in [profile : BOOLEAN, tables : Db, ids : Ids] /\ Drawn
<1> DEFINE new == [id |-> dst.ids.langs, name |-> name]
<1>t. /\ dst \in [profile : BOOLEAN, tables : Db, ids : Ids] /\ dst.tables \in Db /\ dst.ids \in Ids
      /\ dst.ids.langs \in Nat /\ Seen.langs \subseteq LangRow
  BY SeenType DEF Typed, Ids
<1>b. \A l \in Seen.langs : l.id \in Nat /\ l.id < dst.ids.langs
  BY <1>t DEF CopyInOrder, TargetInOrder, Below, LangRow
<1>n. new \in LangRow /\ new.id = dst.ids.langs /\ new.name = name
  BY <1>t DEF LangRow
<1>1. dst' = [dst EXCEPT !.tables = [dst.tables EXCEPT !.langs = dst.tables.langs \cup {new}],
                         !.ids = [dst.ids EXCEPT !.langs = dst.ids.langs + 1]]
  BY <1>t DEF AppAddLanguage
<1> HIDE DEF new
<1>2. [dst.tables EXCEPT !.langs = dst.tables.langs \cup {new}] \in Db
  BY <1>t, <1>n DEF Db
<1>3. [dst.ids EXCEPT !.langs = dst.ids.langs + 1] \in Ids
  BY <1>t DEF Ids
<1>4. /\ dst' \in [profile : BOOLEAN, tables : Db, ids : Ids]
      /\ dst'.tables.langs = dst.tables.langs \cup {new} /\ dst'.tables.cards = dst.tables.cards
      /\ dst'.tables.reviews = dst.tables.reviews
      /\ dst'.ids.langs = dst.ids.langs + 1 /\ dst'.ids.cards = dst.ids.cards
  BY <1>t, <1>1, <1>2, <1>3 DEF Db, Ids
<1>5. imp' = imp /\ \A l \in Seen.langs : l.name # name
  BY DEF AppAddLanguage
<1>6. /\ Seen'.langs = Seen.langs \cup {new} /\ Seen'.cards = Seen.cards
      /\ Seen'.reviews = Seen.reviews
  BY <1>4, <1>5, SeenFields
<1>7. TargetInOrder'
  <2>i. TargetInOrder
    BY DEF CopyInOrder
  <2>1. Keyed(Seen') /\ Below(Seen', dst'.ids)
    BY <1>b, <1>n, <1>t, <1>4, <1>6, <2>i DEF TargetInOrder, Keyed, Below
  <2>2. Once(Seen')
    BY <1>n, <1>5, <1>6, <2>i DEF TargetInOrder, Once
  <2>3. Backed(dst'.tables) /\ Backed(Seen')
    BY <1>4, <1>6, <2>i DEF TargetInOrder, Backed, IdsOf
  <2>4. QED
    BY <2>1, <2>2, <2>3 DEF TargetInOrder
<1>8. LanguagesStand /\ CardsStand /\ ReviewsStand
  BY <1>n, <1>t, <1>4, <1>6 DEF LanguagesStand, Drawn, CardsStand, ReviewsStand, Ids
<1>9. QED
  BY <1>4, <1>5, <1>7, <1>8, AppKeeps DEF LanguagesStand

LEMMA AppDeleteLanguageStep ==
  ASSUME Typed, CopyInOrder, Apart, HistoryStands, NEW l, AppDeleteLanguage(l)
  PROVE  CopyInOrder' /\ dst' \in [profile : BOOLEAN, tables : Db, ids : Ids] /\ Drawn
         /\ dst'.tables = WithoutLanguage(dst.tables, l)
<1> DEFINE less == WithoutLanguage(dst.tables, l)
<1>t. /\ dst \in [profile : BOOLEAN, tables : Db, ids : Ids] /\ dst.tables \in Db
      /\ dst.ids.langs \in Nat /\ dst.ids.cards \in Nat
  BY DEF Typed, Ids
<1>1. /\ less \in Db
      /\ less.langs = {x \in dst.tables.langs : x.id # l}
      /\ less.cards = {c \in dst.tables.cards : c.lang # l}
      /\ less.reviews = {r \in dst.tables.reviews : r.card \in IdsOf(less.cards)}
  BY <1>t, WithoutFields
<1>2. Backed(less)
  BY <1>t, WithoutBacked DEF CopyInOrder, TargetInOrder
<1> HIDE DEF less
<1>3. /\ dst' \in [profile : BOOLEAN, tables : Db, ids : Ids] /\ dst'.tables = less
      /\ dst'.ids = dst.ids /\ imp' = imp
  BY <1>t, <1>1 DEF AppDeleteLanguage, less
<1>4. /\ l \in IdsOf(dst.tables.langs)
      /\ \A c \in imp.mine.cards : c.lang # l
      /\ \A r \in imp.mine.reviews, c \in dst.tables.cards : ~(c.id = r.card /\ c.lang = l)
  BY DEF AppDeleteLanguage, Locked, KeyShared
<1>5. /\ Seen'.langs = less.langs \cup imp.mine.langs
      /\ Seen'.cards = less.cards \cup imp.mine.cards
      /\ Seen'.reviews = less.reviews \cup imp.mine.reviews
  BY <1>3, SeenFields
<1>6. /\ Seen'.langs \subseteq Seen.langs /\ Seen'.cards \subseteq Seen.cards
      /\ Seen'.reviews \subseteq Seen.reviews
  BY <1>1, <1>5, SeenFields
<1>i. TargetInOrder
  BY DEF CopyInOrder
<1>7. ASSUME NEW c \in Seen.cards, c.lang # l PROVE c \in Seen'.cards
  BY <1>1, <1>5, <1>7, SeenFields
<1>k. ASSUME NEW c \in Seen'.cards PROVE c.lang \in IdsOf(Seen'.langs)
  <2>1. c.lang # l
    BY <1>1, <1>4, <1>5
  <2>2. PICK x \in Seen.langs : x.id = c.lang
    BY <1>i, <1>6 DEF TargetInOrder, Backed, IdsOf
  <2>3. QED
    BY <1>1, <1>5, <2>1, <2>2, SeenFields DEF IdsOf
<1>8. Backed(Seen')
  <2> SUFFICES ASSUME NEW r \in Seen'.reviews PROVE r.card \in IdsOf(Seen'.cards)
    BY <1>k DEF Backed
  <2>1. CASE r \in less.reviews
    BY <1>1, <1>5, <2>1 DEF IdsOf
  <2>2. CASE r \in imp.mine.reviews
    <3>1. PICK c \in Seen.cards : c.id = r.card
      BY <1>i, <1>6 DEF TargetInOrder, Backed, IdsOf
    <3>2. c.lang # l
      BY <1>4, <2>2, <3>1, SeenFields
    <3>3. QED
      BY <1>7, <3>1, <3>2 DEF IdsOf
  <2>3. QED
    BY <1>5, <2>1, <2>2
<1>9. TargetInOrder'
  BY <1>i, <1>2, <1>3, <1>6, <1>8, TargetShrinks
<1>10. l \notin IdsOf(Seen'.langs)
  BY <1>1, <1>4, <1>5 DEF Apart, IdsOf
<1>11. LanguagesStand
  BY <1>3, <1>6, <1>t DEF LanguagesStand, Drawn, Ids
<1>12. CardsStand
  BY <1>7, <1>10 DEF CardsStand
<1>13. ReviewsStand
  <2>1. IdsOf(Seen'.cards) \subseteq IdsOf(Seen.cards)
    BY <1>6 DEF IdsOf
  <2>2. ASSUME NEW q \in dst.tables.reviews, q.card \in IdsOf(Seen'.cards)
        PROVE  q \in less.reviews
    <3>1. PICK d \in Seen'.cards : d.id = q.card
      BY <2>2 DEF IdsOf
    <3>2. PICK e \in dst.tables.cards : e.id = q.card
      BY <1>i DEF TargetInOrder, Backed, IdsOf
    <3>3. e \in Seen.cards /\ d \in Seen.cards
      BY <1>6, <3>1, <3>2, SeenFields
    <3>4. e = d
      BY <1>i, <3>1, <3>2, <3>3 DEF TargetInOrder, Keyed
    <3>5. e \in less.cards
      BY <1>1, <1>4, <1>5, <3>2, <3>4
    <3>6. QED
      BY <1>1, <3>2, <3>5 DEF IdsOf
  <2>3. QED
    BY <1>5, <2>1, <2>2, SeenFields DEF ReviewsStand
<1>14. QED
  BY <1>3, <1>9, <1>11, <1>12, <1>13, AppKeeps DEF less, LanguagesStand

LEMMA AppDeleteAccountStep ==
  ASSUME Typed, CopyInOrder, HistoryStands, AppDeleteAccount
  PROVE  CopyInOrder' /\ dst' \in [profile : BOOLEAN, tables : Db, ids : Ids] /\ Drawn
         /\ dst'.tables = NoRows
<1>t. /\ dst \in [profile : BOOLEAN, tables : Db, ids : Ids]
      /\ dst.ids.langs \in Nat /\ dst.ids.cards \in Nat
  BY DEF Typed, Ids
<1>1. /\ dst' \in [profile : BOOLEAN, tables : Db, ids : Ids] /\ dst'.tables = NoRows
      /\ dst'.ids = dst.ids /\ imp' = imp
  BY <1>t, NoRowsType DEF AppDeleteAccount
<1>2. imp'.mine = NoRows
  BY <1>1 DEF AppDeleteAccount
<1>3. Seen'.langs = {} /\ Seen'.cards = {} /\ Seen'.reviews = {}
  BY <1>1, <1>2, SeenFields DEF NoRows
<1>4. Backed(dst'.tables) /\ Backed(Seen')
  BY <1>1, <1>3 DEF Backed, NoRows
<1>5. TargetInOrder'
  BY <1>1, <1>3, <1>4, TargetShrinks DEF CopyInOrder
<1>6. LanguagesStand /\ CardsStand /\ ReviewsStand
  BY <1>1, <1>3, <1>t DEF LanguagesStand, Drawn, CardsStand, ReviewsStand, IdsOf
<1>7. QED
  BY <1>1, <1>5, <1>6, AppKeeps DEF LanguagesStand

(* A language takes a name that no other has.                              *)
LEMMA RenamedFields ==
  ASSUME Typed, NEW l \in IdsOf(dst.tables.langs), NEW name \in Names, Renamed(l, name),
         NEW new, new = [id |-> l, name |-> name]
  PROVE  /\ dst' \in [profile : BOOLEAN, tables : Db, ids : Ids] /\ dst'.ids = dst.ids
         /\ dst'.tables.cards = dst.tables.cards /\ dst'.tables.reviews = dst.tables.reviews
         /\ IdsOf(dst'.tables.langs) = IdsOf(dst.tables.langs)
         /\ \A x \in dst'.tables.langs : x = new \/ (x \in dst.tables.langs /\ x.id # l)
         /\ l \in Nat
<1> DEFINE now(x) == IF x.id = l THEN [x EXCEPT !.name = name] ELSE x
           langs == {now(x) : x \in dst.tables.langs}
<1>t. /\ dst \in [profile : BOOLEAN, tables : Db, ids : Ids] /\ dst.tables \in Db
      /\ dst.tables.langs \subseteq LangRow
  BY DEF Typed, Db
<1>l. l \in Nat /\ new \in LangRow /\ new.id = l
  BY <1>t DEF IdsOf, LangRow
<1>1. ASSUME NEW x \in dst.tables.langs
      PROVE  now(x) = (IF x.id = l THEN new ELSE x) /\ now(x).id = x.id /\ now(x) \in LangRow
  BY <1>t, <1>l DEF LangRow
<1>2. dst' = [dst EXCEPT !.tables = [dst.tables EXCEPT !.langs = langs]]
  BY <1>t DEF Renamed
<1> HIDE DEF now
<1>3. langs \subseteq LangRow /\ IdsOf(langs) = IdsOf(dst.tables.langs)
  BY <1>1 DEF IdsOf
<1>4. ASSUME NEW x \in langs PROVE x = new \/ (x \in dst.tables.langs /\ x.id # l)
  <2>1. PICK y \in dst.tables.langs : x = now(y)
    OBVIOUS
  <2>2. x = IF y.id = l THEN new ELSE y
    BY <1>1, <2>1
  <2>3. QED
    BY <2>2
<1> HIDE DEF langs
<1>5. [dst.tables EXCEPT !.langs = langs] \in Db
  BY <1>t, <1>3 DEF Db
<1>6. /\ dst' \in [profile : BOOLEAN, tables : Db, ids : Ids] /\ dst'.ids = dst.ids
      /\ dst'.tables = [dst.tables EXCEPT !.langs = langs]
  BY <1>t, <1>2, <1>5
<1>7. /\ dst'.tables.langs = langs /\ dst'.tables.cards = dst.tables.cards
      /\ dst'.tables.reviews = dst.tables.reviews
  BY <1>t, <1>6 DEF Db
<1>8. QED
  BY <1>3, <1>4, <1>6, <1>7, <1>l

(* The transaction of the import goes on, or is given up.                  *)
LEMMA TargetRenamed ==
  ASSUME Typed, TargetInOrder, Apart, NEW l \in IdsOf(dst.tables.langs), NEW name \in Names,
         Renamed(l, name), imp'.mine = imp.mine \/ imp'.mine = NoRows
  PROVE  TargetInOrder' /\ Drawn
<1>w. PICK new : new = [id |-> l, name |-> name]
  OBVIOUS
<1>f. /\ dst'.ids = dst.ids /\ l \in Nat
      /\ dst'.tables.cards = dst.tables.cards /\ dst'.tables.reviews = dst.tables.reviews
      /\ IdsOf(dst'.tables.langs) = IdsOf(dst.tables.langs)
      /\ \A x \in dst'.tables.langs : x = new \/ (x \in dst.tables.langs /\ x.id # l)
  BY <1>w, RenamedFields
<1>n. /\ new.id = l /\ new.name = name /\ \A x \in Seen.langs : x.name # name
      /\ <<l, runs>> \in renamed'
  BY <1>w DEF Renamed
<1>i. l \in IdsOf(Seen.langs) /\ \A x \in imp.mine.langs : x.id # l
  BY SeenFields DEF IdsOf, Apart
<1>m. /\ imp'.mine.langs \subseteq imp.mine.langs /\ imp'.mine.cards \subseteq imp.mine.cards
      /\ imp'.mine.reviews \subseteq imp.mine.reviews
  BY DEF NoRows
<1>1. /\ \A x \in Seen'.langs : x = new \/ (x \in Seen.langs /\ x.id # l)
      /\ Seen'.cards \subseteq Seen.cards /\ Seen'.reviews \subseteq Seen.reviews
  BY <1>f, <1>i, <1>m, SeenFields
<1>2. Keyed(Seen')
  BY <1>1, <1>n DEF TargetInOrder, Keyed
<1>3. Below(Seen', dst'.ids)
  <2>1. l < dst.ids.langs
    BY <1>i DEF TargetInOrder, Below, IdsOf
  <2>2. QED
    BY <1>1, <1>f, <1>n, <2>1 DEF TargetInOrder, Below
<1>4. Once(Seen')
  BY <1>1, <1>n DEF TargetInOrder, Once
<1>5. Backed(dst'.tables)
  BY <1>f DEF TargetInOrder, Backed
<1>6. Backed(Seen')
  <2>1. CASE imp'.mine = imp.mine
    <3>1. /\ IdsOf(Seen'.langs) = IdsOf(dst'.tables.langs) \cup IdsOf(imp.mine.langs)
          /\ IdsOf(Seen.langs) = IdsOf(dst.tables.langs) \cup IdsOf(imp.mine.langs)
      BY <2>1, SeenFields DEF IdsOf
    <3>2. Seen'.cards = Seen.cards /\ Seen'.reviews = Seen.reviews
      BY <1>f, <2>1, SeenFields
    <3>3. QED
      BY <1>f, <3>1, <3>2 DEF TargetInOrder, Backed
  <2>2. CASE imp'.mine = NoRows
    <3>1. imp'.mine.langs = {} /\ imp'.mine.cards = {} /\ imp'.mine.reviews = {}
      BY <2>2 DEF NoRows
    <3>2. /\ Seen'.langs = dst'.tables.langs /\ Seen'.cards = dst'.tables.cards
          /\ Seen'.reviews = dst'.tables.reviews
      BY <3>1, SeenFields
    <3>3. QED
      BY <1>5, <3>2 DEF Backed
  <2>3. QED
    BY <2>1, <2>2
<1>7. Drawn
  <2>1. dst.ids.cards \in Nat
    BY DEF Typed, Ids
  <2>2. QED
    BY <1>1, <1>f, <1>i, <1>n, <2>1 DEF Drawn
<1>8. QED
  BY <1>2, <1>3, <1>4, <1>5, <1>6, <1>7 DEF TargetInOrder

LEMMA AppRenameLanguageStep ==
  ASSUME Typed, CopyInOrder, Apart, NEW l \in IdsOf(dst.tables.langs), NEW name \in Names,
         AppRenameLanguage(l, name)
  PROVE  CopyInOrder' /\ Apart' /\ dst' \in [profile : BOOLEAN, tables : Db, ids : Ids] /\ Drawn
<1>1. /\ Renamed(l, name) /\ imp' = imp /\ imp'.mine = imp.mine
      /\ HistoryStands /\ TargetInOrder
  BY DEF AppRenameLanguage, Renamed, HistoryStands, CopyInOrder
<1>2. /\ dst' \in [profile : BOOLEAN, tables : Db, ids : Ids] /\ dst'.ids = dst.ids
      /\ dst'.tables.cards = dst.tables.cards /\ dst'.tables.reviews = dst.tables.reviews
      /\ IdsOf(dst'.tables.langs) = IdsOf(dst.tables.langs)
  BY <1>1, RenamedFields
<1>3. TargetInOrder' /\ Drawn
  BY <1>1, TargetRenamed
<1>4. LanguagesStand
  <2>1. dst.ids.langs \in Nat
    BY DEF Typed, Ids
  <2>2. QED
    BY <1>1, <1>2, <1>3, <2>1 DEF LanguagesStand
<1>5. CardsStand /\ ReviewsStand
  <2>1. Seen'.cards = Seen.cards /\ Seen'.reviews = Seen.reviews
    BY <1>1, <1>2, SeenFields
  <2>2. QED
    BY <2>1 DEF CardsStand, ReviewsStand
<1>6. Apart'
  BY <1>1, <1>2 DEF Apart, IdsOf
<1>7. QED
  BY <1>1, <1>2, <1>3, <1>4, <1>5, <1>6, AppKeeps

(* Two cards with ids that are free, of a language that is there.          *)
LEMMA AppSaveCardsStep ==
  ASSUME Typed, CopyInOrder, Apart, HistoryStands, NEW s \in Sentences, NEW l,
         AppSaveCards(s, l)
  PROVE  CopyInOrder' /\ Apart' /\ dst' \in [profile : BOOLEAN, tables : Db, ids : Ids] /\ Drawn
<1> DEFINE id == dst.ids.cards
           new == NewCards(s, l, id)
<1>t. /\ dst \in [profile : BOOLEAN, tables : Db, ids : Ids] /\ dst.tables \in Db /\ dst.ids \in Ids
      /\ dst.ids.langs \in Nat /\ id \in Nat /\ dst.tables.langs \subseteq LangRow
  BY DEF Typed, Ids, Db
<1>i. TargetInOrder /\ imp' = imp
  BY DEF CopyInOrder, AppSaveCards
<1>l. l \in IdsOf(dst.tables.langs) /\ l \in Nat
  BY <1>t DEF AppSaveCards, IdsOf, LangRow
<1>n. /\ new \subseteq CardRow /\ \A c \in new : c.id \in {id, id + 1} /\ c.lang = l
      /\ \A c, d \in new : c.id = d.id => c = d
  BY <1>t, <1>l DEF NewCards, CardRow, Directions
<1>1. dst' = [dst EXCEPT !.tables = [dst.tables EXCEPT !.cards = dst.tables.cards \cup new],
                         !.ids = [dst.ids EXCEPT !.cards = id + 2]]
  BY <1>t DEF AppSaveCards
<1> HIDE DEF new
<1>2. [dst.tables EXCEPT !.cards = dst.tables.cards \cup new] \in Db
  BY <1>t, <1>n DEF Db
<1>3. [dst.ids EXCEPT !.cards = id + 2] \in Ids
  BY <1>t DEF Ids
<1>4. /\ dst' \in [profile : BOOLEAN, tables : Db, ids : Ids]
      /\ dst'.tables.cards = dst.tables.cards \cup new /\ dst'.tables.langs = dst.tables.langs
      /\ dst'.tables.reviews = dst.tables.reviews
      /\ dst'.ids.langs = dst.ids.langs /\ dst'.ids.cards = id + 2
  BY <1>t, <1>1, <1>2, <1>3 DEF Db, Ids
<1>5. /\ Seen'.cards = Seen.cards \cup new /\ Seen'.langs = Seen.langs
      /\ Seen'.reviews = Seen.reviews
  BY <1>4, <1>i, SeenFields
<1>b. \A c \in Seen.cards : c.id \in Nat /\ c.id < id
  BY <1>i, SeenType DEF TargetInOrder, Below, CardRow
<1>6. TargetInOrder'
  <2>1. Keyed(Seen') /\ Below(Seen', dst'.ids)
    BY <1>b, <1>i, <1>n, <1>t, <1>4, <1>5 DEF TargetInOrder, Keyed, Below
  <2>2. Once(Seen')
    BY <1>i, <1>5 DEF TargetInOrder, Once
  <2>3. Backed(dst'.tables)
    BY <1>i, <1>l, <1>n, <1>4 DEF TargetInOrder, Backed, IdsOf
  <2>4. Backed(Seen')
    <3>1. l \in IdsOf(Seen.langs)
      BY <1>l, SeenFields DEF IdsOf
    <3>2. QED
      BY <1>i, <1>n, <1>5, <3>1 DEF TargetInOrder, Backed, IdsOf
  <2>5. QED
    BY <2>1, <2>2, <2>3, <2>4 DEF TargetInOrder
<1>d. \A c \in new : c.id >= id
  BY <1>n, <1>t
<1>7. LanguagesStand
  BY <1>d, <1>t, <1>4, <1>5 DEF LanguagesStand, Drawn
<1>8. CardsStand /\ ReviewsStand
  BY <1>d, <1>5 DEF CardsStand, ReviewsStand, IdsOf
<1>9. Apart'
  <2>1. \A c \in new, d \in imp.mine.cards : c.id # d.id
    BY <1>b, <1>d, <1>t, SeenFields
  <2>2. QED
    BY <1>i, <1>4, <2>1 DEF Apart
<1>10. QED
  BY <1>i, <1>4, <1>6, <1>7, <1>8, <1>9, AppKeeps DEF LanguagesStand

(* A level or a setting.                                                   *)
LEMMA AppOtherStep ==
  ASSUME Typed, CopyInOrder, Apart, HistoryStands, imp' = imp,
         dst' \in [profile : BOOLEAN, tables : Db, ids : Ids], dst'.ids = dst.ids,
         dst'.tables.langs = dst.tables.langs, dst'.tables.cards = dst.tables.cards,
         dst'.tables.reviews = dst.tables.reviews
  PROVE  CopyInOrder' /\ Apart' /\ Drawn
<1>t. dst.ids.langs \in Nat /\ dst.ids.cards \in Nat /\ TargetInOrder
  BY DEF Typed, Ids, CopyInOrder
<1>1. Seen'.langs = Seen.langs /\ Seen'.cards = Seen.cards /\ Seen'.reviews = Seen.reviews
  BY SeenFields
<1>2. TargetInOrder'
  <2>1. Backed(dst'.tables) /\ Backed(Seen')
    BY <1>t, <1>1 DEF TargetInOrder, Backed
  <2>2. QED
    BY <1>t, <1>1, <2>1, TargetShrinks
<1>3. LanguagesStand /\ CardsStand /\ ReviewsStand
  BY <1>t, <1>1 DEF LanguagesStand, Drawn, CardsStand, ReviewsStand
<1>4. Apart'
  BY DEF Apart
<1>5. QED
  BY <1>2, <1>3, <1>4, AppKeeps DEF LanguagesStand

LEMMA LevelFields ==
  ASSUME NEW db \in Db, NEW l \in Nat, NEW score \in Scores
  PROVE  \E levels \in SUBSET LevelRow : WithLevel(db, l, score) = [db EXCEPT !.levels = levels]
<1> DEFINE levels == {v \in db.levels : v.lang # l} \cup {[lang |-> l, score |-> score]}
<1>1. WithLevel(db, l, score) = [db EXCEPT !.levels = levels]
  BY DEF WithLevel
<1>2. levels \subseteq LevelRow
  BY DEF LevelRow, Db
<1> HIDE DEF levels
<1>3. QED
  BY <1>1, <1>2

(* The grade of the new application is of a time no other review has.      *)
LEMMA AppGradeStep ==
  ASSUME LegacyAssumption, Typed, CopyInOrder, Apart, HistoryStands,
         NEW card \in dst.tables.cards, NEW rating \in Ratings, AppGrade(card, rating)
  PROVE  CopyInOrder' /\ dst' \in [profile : BOOLEAN, tables : Db, ids : Ids] /\ Drawn
         /\ dst'.tables.langs = dst.tables.langs
         /\ \A c \in dst'.tables.cards : \E d \in dst.tables.cards : c.id = d.id
<1> DEFINE graded == [card EXCEPT !.last = MaxClock + 1]
           review == [id |-> dst.ids.reviews, card |-> card.id, rating |-> rating,
                      at |-> MaxClock + 1]
           cards == (dst.tables.cards \ {card}) \cup {graded}
           tables == [dst.tables EXCEPT !.cards = cards,
                                        !.reviews = dst.tables.reviews \cup {review}]
<1>t. /\ dst \in [profile : BOOLEAN, tables : Db, ids : Ids] /\ dst.tables \in Db /\ dst.ids \in Ids
      /\ dst.ids.langs \in Nat /\ dst.ids.reviews \in Nat /\ dst.ids.cards \in Nat
      /\ card \in CardRow /\ card.id \in Nat /\ card.lang \in Nat
      /\ MaxClock \in Nat /\ MaxClock + 1 \in Nat
      /\ dst.tables.cards \subseteq CardRow /\ Seen.reviews \subseteq ReviewRow
  BY SeenType DEF Typed, Ids, Db, CardRow, LegacyAssumption
<1>i. TargetInOrder /\ ImportInOrder
  BY DEF CopyInOrder
<1>g. /\ graded \in CardRow /\ graded.id = card.id /\ graded.lang = card.lang
      /\ graded.text = card.text
  BY <1>t, ScheduledRow
<1>r. /\ review \in ReviewRow /\ review.card = card.id /\ review.at = MaxClock + 1
  BY <1>t DEF ReviewRow
<1>1. /\ \E db \in {tables} \cup {WithLevel(tables, card.lang, score) : score \in Scores} :
           dst' = [dst EXCEPT !.tables = db,
                              !.ids = [dst.ids EXCEPT !.reviews = dst.ids.reviews + 1]]
      /\ imp' = imp /\ \A r \in dst.tables.reviews : r.at < MaxClock + 1
  BY <1>t DEF AppGrade
<1> HIDE DEF graded, review
<1>2. cards \subseteq CardRow
  BY <1>t, <1>g
<1>c. /\ cards = (dst.tables.cards \ {card}) \cup {graded}
  OBVIOUS
<1> HIDE DEF cards
<1>3. /\ tables \in Db /\ tables.langs = dst.tables.langs /\ tables.cards = cards
      /\ tables.reviews = dst.tables.reviews \cup {review}
  BY <1>t, <1>r, <1>2 DEF Db
<1> HIDE DEF tables
<1>w. PICK db :
        /\ db = tables \/ \E score \in Scores : db = WithLevel(tables, card.lang, score)
        /\ dst' = [dst EXCEPT !.tables = db,
                              !.ids = [dst.ids EXCEPT !.reviews = dst.ids.reviews + 1]]
  BY <1>1
<1>v. /\ db \in Db /\ db.langs = dst.tables.langs /\ db.cards = cards
      /\ db.reviews = dst.tables.reviews \cup {review}
  <2>1. CASE db = tables
    BY <1>3, <2>1
  <2>2. ASSUME NEW score \in Scores, db = WithLevel(tables, card.lang, score)
        PROVE  /\ db \in Db /\ db.langs = tables.langs /\ db.cards = tables.cards
               /\ db.reviews = tables.reviews
    <3>1. PICK levels \in SUBSET LevelRow : db = [tables EXCEPT !.levels = levels]
      BY <1>t, <1>3, <2>2, LevelFields
    <3>2. tables \in Db
      BY <1>3
    <3>3. QED
      BY <3>1, <3>2 DEF Db
  <2>3. QED
    BY <1>3, <1>w, <2>1, <2>2
<1>4. [dst.ids EXCEPT !.reviews = dst.ids.reviews + 1] \in Ids
  BY <1>t DEF Ids
<1>5. /\ dst' \in [profile : BOOLEAN, tables : Db, ids : Ids]
      /\ dst'.tables.langs = dst.tables.langs /\ dst'.tables.cards = cards
      /\ dst'.tables.reviews = dst.tables.reviews \cup {review}
      /\ dst'.ids.langs = dst.ids.langs /\ dst'.ids.cards = dst.ids.cards
  BY <1>t, <1>w, <1>v, <1>4 DEF Ids
<1>6. /\ card \notin imp.mine.cards
      /\ Seen'.langs = Seen.langs
      /\ Seen'.cards = (Seen.cards \ {card}) \cup {graded}
      /\ Seen'.reviews = Seen.reviews \cup {review}
  <2>1. card \notin imp.mine.cards
    BY DEF Apart
  <2>2. QED
    BY <1>1, <1>5, <1>c, <2>1, SeenFields
<1>s. card \in Seen.cards
  BY SeenFields
<1>7. IdsOf(Seen'.cards) = IdsOf(Seen.cards) /\ IdsOf(cards) = IdsOf(dst.tables.cards)
  BY <1>6, <1>g, <1>c, <1>s DEF IdsOf
<1>8. TargetInOrder'
  <2>1. Keyed(Seen') /\ Below(Seen', dst'.ids)
    BY <1>i, <1>g, <1>s, <1>5, <1>6 DEF TargetInOrder, Keyed, Below
  <2>2. \A r \in Seen.reviews : r.at # MaxClock + 1
    <3> SUFFICES ASSUME NEW r \in Seen.reviews PROVE r.at # MaxClock + 1
      OBVIOUS
    <3>1. r.at \in Nat
      BY <1>t DEF ReviewRow
    <3>2. r.at < MaxClock + 1 \/ r.at <= MaxClock
      BY <1>1, <1>i, SeenFields DEF ImportInOrder
    <3>3. QED
      BY <1>t, <3>1, <3>2
  <2>3. Once(Seen')
    <3>1. \A r, q \in Seen'.reviews : r.card = q.card /\ r.rating = q.rating /\ r.at = q.at => r = q
      BY <1>i, <1>r, <1>6, <2>2 DEF TargetInOrder, Once
    <3>2. QED
      BY <1>i, <1>6, <3>1 DEF TargetInOrder, Once
  <2>4. Backed(dst'.tables)
    <3>1. card.id \in IdsOf(dst.tables.cards)
      BY DEF IdsOf
    <3>2. QED
      BY <1>i, <1>c, <1>g, <1>r, <1>5, <1>7, <3>1 DEF TargetInOrder, Backed
  <2>5. Backed(Seen')
    <3>1. card.id \in IdsOf(Seen.cards)
      BY <1>s DEF IdsOf
    <3>2. QED
      BY <1>i, <1>g, <1>r, <1>s, <1>6, <1>7, <3>1 DEF TargetInOrder, Backed
  <2>6. QED
    BY <2>1, <2>3, <2>4, <2>5 DEF TargetInOrder
<1>9. LanguagesStand
  BY <1>5, <1>6, <1>g, <1>s, <1>t DEF LanguagesStand, Drawn
<1>10. CardsStand /\ ReviewsStand
  BY <1>6, <1>7, <1>g DEF CardsStand, ReviewsStand
<1>11. CopyInOrder'
  BY <1>1, <1>5, <1>8, <1>9, <1>10, AppKeeps
<1>12. \A c \in dst'.tables.cards : \E d \in dst.tables.cards : c.id = d.id
  BY <1>5, <1>c, <1>g
<1>13. QED
  BY <1>5, <1>9, <1>11, <1>12 DEF LanguagesStand

-----------------------------------------------------------------------------
(* A step of any of the three.                                             *)
CopyTyped == imp \in Import /\ dst \in [profile : BOOLEAN, tables : Db, ids : Ids]

LEMMA ApartKept ==
  ASSUME Apart,
         \A l \in dst'.tables.langs : \E k \in dst.tables.langs : l.id = k.id,
         \A c \in dst'.tables.cards : \E d \in dst.tables.cards : c.id = d.id,
         \A m \in imp'.mine.langs : m \in imp.mine.langs \/ m.id \notin IdsOf(dst.tables.langs),
         \A m \in imp'.mine.cards : m \in imp.mine.cards \/ m.id \notin IdsOf(dst.tables.cards)
  PROVE  Apart'
BY DEF Apart, IdsOf

LEMMA FreeIds ==
  ASSUME Typed, TargetInOrder
  PROVE  /\ dst.ids.langs \notin IdsOf(dst.tables.langs)
         /\ dst.ids.cards \notin IdsOf(dst.tables.cards)
<1>1. dst.ids.langs \in Nat /\ dst.ids.cards \in Nat
  BY DEF Typed, Ids
<1>2. /\ \A l \in dst.tables.langs : l.id < dst.ids.langs
      /\ \A c \in dst.tables.cards : c.id < dst.ids.cards
  BY SeenFields DEF TargetInOrder, Below
<1>3. QED
  BY <1>1, <1>2 DEF IdsOf

(* What is read, given up or committed leaves the import with nothing done.*)
LEMMA BlankStep ==
  ASSUME imp' \in Import, Blank(imp'), GotInOrder(imp'), TargetInOrder'
  PROVE  CopyInOrder' /\ Apart'
<1>1. imp'.mine.langs = {} /\ imp'.mine.cards = {}
  BY DEF Blank, NoRows
<1>2. Apart'
  BY <1>1 DEF Apart
<1>3. QED
  BY <1>2, BlankInOrder DEF CopyInOrder

Upserts == \/ \E row \in imp.left.langs : UpsertLanguage(row)
           \/ \E row \in imp.left.cards : UpsertCard(row)
           \/ \E row \in imp.left.reviews : UpsertReview(row)
           \/ \E row \in imp.left.levels : UpsertLevel(row)
           \/ \E row \in imp.left.active : UpsertSetting(row)

LEMMA UpsertsKeep ==
  ASSUME Typed, CopyInOrder, Apart, HistoryStands, Upserts
  PROVE  CopyInOrder' /\ Apart' /\ CopyTyped' /\ dst'.tables = dst.tables /\ Drawn
<1>d. dst \in [profile : BOOLEAN, tables : Db, ids : Ids] /\ TargetInOrder
  BY DEF Typed, CopyInOrder
<1>a. ASSUME NEW x \in Tables, NEW row, NEW new, NEW langs, NEW cards,
             Moved(x, row, new, langs, cards), dst'.tables = dst.tables,
             x = "langs" => \A m \in new : m.id = dst.ids.langs,
             x = "cards" => \A m \in new : m.id = dst.ids.cards
      PROVE  Apart'
  <2>1. /\ imp'.mine.langs = IF x = "langs" THEN imp.mine.langs \cup new ELSE imp.mine.langs
        /\ imp'.mine.cards = IF x = "cards" THEN imp.mine.cards \cup new ELSE imp.mine.cards
    BY <1>a DEF Moved, Tables
  <2>2. QED
    BY <1>a, <1>d, <2>1, FreeIds, ApartKept
<1>1. ASSUME NEW row \in imp.left.langs, UpsertLanguage(row)
      PROVE  CopyInOrder' /\ Apart' /\ CopyTyped' /\ dst'.tables = dst.tables /\ Drawn
  <2>1. CopyInOrder' /\ CopyTyped' /\ dst'.tables = dst.tables /\ Drawn
    BY <1>1, UpsertLanguageStep DEF CopyTyped
  <2>2. CASE NewLanguage(row)
    <3>1. PICK new, langs : /\ Moved("langs", row, new, langs, {})
                            /\ \A m \in new : m.id = dst.ids.langs
      BY <2>2 DEF NewLanguage
    <3>2. QED
      BY <1>a, <2>1, <3>1 DEF Tables
  <2>3. CASE \E l \in Seen.langs : OldLanguage(row, l)
    <3>1. PICK langs : Moved("langs", row, {}, langs, {})
      BY <2>3 DEF OldLanguage
    <3>2. QED
      BY <1>a, <2>1, <3>1 DEF Tables
  <2>4. QED
    BY <1>1, <2>2, <2>3, UpsertLanguageMoves, <2>1
<1>2. ASSUME NEW row \in imp.left.cards, UpsertCard(row)
      PROVE  CopyInOrder' /\ Apart' /\ CopyTyped' /\ dst'.tables = dst.tables /\ Drawn
  <2>1. CopyInOrder' /\ CopyTyped' /\ dst'.tables = dst.tables /\ Drawn
    BY <1>2, UpsertCardStep DEF CopyTyped
  <2>2. \E new, cards : Moved("cards", row, new, {}, cards) /\ \A m \in new : m.id = dst.ids.cards
    <3>1. CASE SkippedCard(row)
      BY <3>1 DEF SkippedCard
    <3>2. CASE \E c \in Seen.cards : OldCard(row, c)
      BY <3>2 DEF OldCard
    <3>3. ASSUME NEW l \in Nat, NewCard(row, l)
          PROVE  \E new, cards : /\ Moved("cards", row, new, {}, cards)
                                 /\ \A m \in new : m.id = dst.ids.cards
      <4> DEFINE new == [id |-> dst.ids.cards, lang |-> l, text |-> row.text, last |-> row.last]
      <4>1. Moved("cards", row, {new}, {}, {<<row.id, dst.ids.cards>>}) /\ new.id = dst.ids.cards
        BY <3>3 DEF NewCard
      <4> HIDE DEF new
      <4>2. QED
        BY <4>1
    <3>4. QED
      BY <1>2, <3>1, <3>2, <3>3, UpsertCardMoves
  <2>3. QED
    BY <1>a, <2>1, <2>2 DEF Tables
<1>3. ASSUME NEW row \in imp.left.reviews, UpsertReview(row)
      PROVE  CopyInOrder' /\ Apart' /\ CopyTyped' /\ dst'.tables = dst.tables /\ Drawn
  <2>1. CopyInOrder' /\ CopyTyped' /\ dst'.tables = dst.tables /\ Drawn
    BY <1>3, UpsertReviewStep DEF CopyTyped
  <2>2. \E new : Moved("reviews", row, new, {}, {})
    BY <1>3, UpsertReviewMoves DEF SkippedReview, NewReview
  <2>3. QED
    BY <1>a, <2>1, <2>2 DEF Tables
<1>4. ASSUME NEW row \in imp.left.levels, UpsertLevel(row)
      PROVE  CopyInOrder' /\ Apart' /\ CopyTyped' /\ dst'.tables = dst.tables /\ Drawn
  <2>1. PICK new : Moved("levels", row, new, {}, {})
    BY <1>4, UpsertLevelMoves
  <2>2. dst' = dst /\ Turn("levels", row)
    BY <1>4 DEF UpsertLevel
  <2>3. CopyInOrder' /\ imp' \in Import /\ Drawn
    BY <2>1, <2>2, OtherRowStep
  <2>4. QED
    BY <1>a, <1>d, <2>1, <2>2, <2>3 DEF Tables, CopyTyped
<1>5. ASSUME NEW row \in imp.left.active, UpsertSetting(row)
      PROVE  CopyInOrder' /\ Apart' /\ CopyTyped' /\ dst'.tables = dst.tables /\ Drawn
  <2>1. PICK new : Moved("active", row, new, {}, {})
    BY <1>5, UpsertSettingMoves
  <2>2. dst' = dst /\ Turn("active", row)
    BY <1>5 DEF UpsertSetting
  <2>3. CopyInOrder' /\ imp' \in Import /\ Drawn
    BY <2>1, <2>2, OtherRowStep
  <2>4. QED
    BY <1>a, <1>d, <2>1, <2>2, <2>3 DEF Tables, CopyTyped
<1>6. QED
  BY <1>1, <1>2, <1>3, <1>4, <1>5 DEF Upserts

LEMMA BlankDrawn ==
  ASSUME Typed, Blank(imp'), dst'.ids = dst.ids,
         dst'.tables.langs \subseteq Seen.langs, dst'.tables.cards \subseteq Seen.cards
  PROVE  Drawn
<1>1. imp'.mine.langs = {} /\ imp'.mine.cards = {}
  BY DEF Blank, NoRows
<1>2. Seen'.langs \subseteq Seen.langs /\ Seen'.cards \subseteq Seen.cards
  BY <1>1, SeenFields
<1>3. dst.ids.cards \in Nat
  BY DEF Typed, Ids
<1>4. QED
  BY <1>2, <1>3 DEF Drawn

(* A run that reads, ends, or is ended, with nothing of the target touched.*)
Reads == \/ StartImport \/ (\E x \in Tables : Read(x)) \/ EnsureProfile
         \/ ParentGone \/ Stopped \/ Rollback

LEMMA ReadsKeep ==
  ASSUME LegacyAssumption, Typed, SourceInOrder, CopyInOrder, Reads
  PROVE  CopyInOrder' /\ Apart' /\ CopyTyped' /\ dst' = dst /\ Blank(imp') /\ Drawn
<1>t. /\ dst \in [profile : BOOLEAN, tables : Db, ids : Ids]
      /\ ImportInOrder /\ TargetInOrder
  BY DEF Typed, CopyInOrder
<1>1. dst' = dst /\ imp' \in Import /\ Blank(imp') /\ GotInOrder(imp')
  <2>1. CASE StartImport
    <3>1. imp' = [NotRunning EXCEPT !.pc = "langs"] /\ dst' = dst
      BY <2>1 DEF StartImport, Run
    <3>2. QED
      BY <3>1, NotRunningFields DEF Tables
  <2>2. ASSUME NEW x \in Tables, Read(x)
        PROVE  dst' = dst /\ imp' \in Import /\ Blank(imp') /\ GotInOrder(imp')
    BY <1>t, <2>2, ReadMoves DEF Read
  <2>3. CASE EnsureProfile
    BY <1>t, <2>3, EnsureProfileMoves DEF EnsureProfile, Abort
  <2>4. CASE ParentGone \/ Stopped \/ Rollback
    BY <2>4, NotRunningFields, NoRowsType DEF ParentGone, Stopped, Rollback, Abort, Run
  <2>5. QED
    BY <2>1, <2>2, <2>3, <2>4 DEF Reads
<1>2. TargetInOrder'
  BY <1>t, <1>1, TargetLeft
<1>3. Drawn
  BY <1>1, SeenFields, BlankDrawn
<1>4. QED
  BY <1>t, <1>1, <1>2, <1>3, BlankStep DEF CopyTyped

LEMMA CommitKeeps ==
  ASSUME Typed, CopyInOrder, Commit
  PROVE  CopyInOrder' /\ Apart' /\ CopyTyped' /\ dst'.tables = Seen /\ Blank(imp') /\ Drawn
<1>1. imp' = NotRunning
  BY DEF Commit, Run
<1>2. imp' \in Import /\ Blank(imp') /\ GotInOrder(imp')
  BY <1>1, NotRunningFields, NoRowsType
<1>3. dst'.tables = Seen /\ dst'.ids = dst.ids
  <2>1. dst \in [profile : BOOLEAN, tables : Db, ids : Ids]
    BY DEF Typed
  <2>2. QED
    BY <2>1 DEF Commit
<1>4. Drawn
  BY <1>2, <1>3, BlankDrawn
<1>5. QED
  BY <1>2, <1>4, TargetCommitted, BlankStep DEF CopyInOrder, CopyTyped

LEMMA VanishKeeps ==
  ASSUME Typed, CopyInOrder, Apart, NEW row \in imp.left.langs, LanguageVanishes(row)
  PROVE  CopyInOrder' /\ Apart' /\ CopyTyped' /\ Blank(imp') /\ Drawn
<1>t. /\ dst \in [profile : BOOLEAN, tables : Db, ids : Ids] /\ dst.tables \in Db /\ TargetInOrder
  BY DEF Typed, CopyInOrder
<1>1. imp' \in Import /\ Blank(imp') /\ GotInOrder(imp') /\ imp'.mine = NoRows
  BY NotRunningFields, NoRowsType DEF LanguageVanishes, Run, Blank
<1>2. PICK l \in IdsOf(dst.tables.langs) : Deleted(l) \/ \E name \in Names : Renamed(l, name)
  BY DEF LanguageVanishes, IdsOf
<1>3. CASE Deleted(l)
  <2>1. PICK less : /\ less = WithoutLanguage(dst.tables, l)
                    /\ dst' = [dst EXCEPT !.tables = less]
    BY <1>3 DEF Deleted
  <2>2. /\ less \in Db
        /\ less.langs = {x \in dst.tables.langs : x.id # l}
        /\ less.cards = {c \in dst.tables.cards : c.lang # l}
        /\ less.reviews = {r \in dst.tables.reviews : r.card \in IdsOf(less.cards)}
        /\ Backed(less)
    BY <1>t, <2>1, WithoutFields, WithoutBacked DEF TargetInOrder
  <2>3. /\ dst' \in [profile : BOOLEAN, tables : Db, ids : Ids]
        /\ dst'.tables = less /\ dst'.ids = dst.ids
    BY <1>t, <2>1, <2>2
  <2>4. imp'.mine.langs = {} /\ imp'.mine.cards = {} /\ imp'.mine.reviews = {}
    BY <1>1 DEF NoRows
  <2>5. Seen'.langs = less.langs /\ Seen'.cards = less.cards /\ Seen'.reviews = less.reviews
    BY <2>3, <2>4, SeenFields
  <2>6. Backed(dst'.tables) /\ Backed(Seen')
    BY <2>2, <2>3, <2>5 DEF Backed
  <2>7. /\ Seen'.langs \subseteq Seen.langs /\ Seen'.cards \subseteq Seen.cards
        /\ Seen'.reviews \subseteq Seen.reviews
    BY <2>2, <2>5, SeenFields
  <2>8. TargetInOrder'
    BY <1>t, <2>3, <2>6, <2>7, TargetShrinks
  <2>9. Drawn
    BY <1>1, <2>3, <2>5, <2>7, BlankDrawn
  <2>10. QED
    BY <1>1, <2>3, <2>8, <2>9, BlankStep DEF CopyTyped
<1>4. ASSUME NEW name \in Names, Renamed(l, name)
      PROVE  CopyInOrder' /\ Apart' /\ CopyTyped' /\ Drawn
  <2>1. TargetInOrder' /\ Drawn
    BY <1>1, <1>4, <1>t, TargetRenamed
  <2>2. dst' \in [profile : BOOLEAN, tables : Db, ids : Ids]
    BY <1>4, RenamedFields
  <2>3. QED
    BY <1>1, <2>1, <2>2, BlankStep DEF CopyTyped
<1>5. QED
  BY <1>1, <1>2, <1>3, <1>4

LEMMA AppKeepsAll ==
  ASSUME LegacyAssumption, Typed, CopyInOrder, Apart, HistoryStands, AppNext
  PROVE  CopyInOrder' /\ Apart' /\ CopyTyped' /\ imp' = imp /\ Drawn
<1>t. /\ imp \in Import /\ dst.tables \in Db /\ TargetInOrder /\ dst.ids.langs \in Nat
      /\ Seen.langs \subseteq LangRow
  BY SeenType DEF Typed, CopyInOrder, Ids
<1>1. ASSUME NEW name \in Names, AppAddLanguage(name)
      PROVE  CopyInOrder' /\ Apart' /\ CopyTyped' /\ imp' = imp /\ Drawn
  <2>1. /\ CopyInOrder' /\ dst' \in [profile : BOOLEAN, tables : Db, ids : Ids] /\ imp' = imp
        /\ Drawn
    BY <1>1, AppAddLanguageStep DEF AppAddLanguage
  <2>2. /\ dst'.tables.langs = dst.tables.langs \cup {[id |-> dst.ids.langs, name |-> name]}
        /\ dst'.tables.cards = dst.tables.cards
    BY <1>1, <1>t DEF AppAddLanguage, Typed, Db
  <2>3. \A m \in imp.mine.langs : m.id # dst.ids.langs
    <3>1. \A m \in imp.mine.langs : m.id < dst.ids.langs
      BY <1>t, SeenFields DEF TargetInOrder, Below
    <3>2. QED
      BY <1>t, <3>1
  <2>4. Apart'
    BY <2>1, <2>2, <2>3 DEF Apart
  <2>5. QED
    BY <1>t, <2>1, <2>4 DEF CopyTyped
<1>2. ASSUME NEW l, AppDeleteLanguage(l)
      PROVE  CopyInOrder' /\ Apart' /\ CopyTyped' /\ imp' = imp /\ Drawn
  <2>1. /\ CopyInOrder' /\ dst' \in [profile : BOOLEAN, tables : Db, ids : Ids] /\ imp' = imp
        /\ Drawn
        /\ dst'.tables = WithoutLanguage(dst.tables, l)
    BY <1>2, AppDeleteLanguageStep DEF AppDeleteLanguage
  <2>2. dst'.tables.langs \subseteq dst.tables.langs /\ dst'.tables.cards \subseteq dst.tables.cards
    BY <1>t, <2>1, WithoutFields
  <2>3. QED
    BY <1>t, <2>1, <2>2, ApartKept DEF CopyTyped
<1>3. CASE AppDeleteAccount
  <2>1. /\ CopyInOrder' /\ dst' \in [profile : BOOLEAN, tables : Db, ids : Ids] /\ imp' = imp
        /\ Drawn
        /\ dst'.tables = NoRows
    BY <1>3, AppDeleteAccountStep DEF AppDeleteAccount
  <2>2. dst'.tables.langs = {} /\ dst'.tables.cards = {}
    BY <2>1 DEF NoRows
  <2>3. QED
    BY <1>t, <2>1, <2>2, ApartKept DEF CopyTyped
<1>4. ASSUME NEW card \in dst.tables.cards, NEW rating \in Ratings, AppGrade(card, rating)
      PROVE  CopyInOrder' /\ Apart' /\ CopyTyped' /\ imp' = imp /\ Drawn
  <2>1. /\ CopyInOrder' /\ dst' \in [profile : BOOLEAN, tables : Db, ids : Ids] /\ imp' = imp
        /\ Drawn
        /\ dst'.tables.langs = dst.tables.langs
        /\ \A c \in dst'.tables.cards : \E d \in dst.tables.cards : c.id = d.id
    BY <1>4, AppGradeStep DEF AppGrade
  <2>2. QED
    BY <1>t, <2>1, ApartKept DEF CopyTyped
<1>5. ASSUME NEW s \in Sentences, NEW l, AppSaveCards(s, l)
      PROVE  CopyInOrder' /\ Apart' /\ CopyTyped' /\ imp' = imp /\ Drawn
  BY <1>t, <1>5, AppSaveCardsStep DEF AppSaveCards, CopyTyped
<1>6. ASSUME NEW db \in Db, dst' = [dst EXCEPT !.tables = db], imp' = imp,
             db.langs = dst.tables.langs, db.cards = dst.tables.cards,
             db.reviews = dst.tables.reviews
      PROVE  CopyInOrder' /\ Apart' /\ CopyTyped' /\ imp' = imp /\ Drawn
  <2>1. /\ dst' \in [profile : BOOLEAN, tables : Db, ids : Ids]
        /\ dst'.ids = dst.ids /\ dst'.tables = db
    BY <1>6 DEF Typed
  <2>2. QED
    BY <1>t, <1>6, <2>1, AppOtherStep DEF CopyTyped
<1>7. ASSUME NEW l \in IdsOf(dst.tables.langs), NEW score \in Scores, AppSetLevel(l, score)
      PROVE  CopyInOrder' /\ Apart' /\ CopyTyped' /\ imp' = imp /\ Drawn
  <2>1. l \in Nat
    BY <1>t DEF IdsOf, Db, LangRow
  <2>2. PICK levels \in SUBSET LevelRow :
               WithLevel(dst.tables, l, score) = [dst.tables EXCEPT !.levels = levels]
    BY <1>t, <2>1, LevelFields
  <2> DEFINE db == [dst.tables EXCEPT !.levels = levels]
  <2>3. /\ db \in Db /\ db.langs = dst.tables.langs /\ db.cards = dst.tables.cards
        /\ db.reviews = dst.tables.reviews
    BY <1>t DEF Db
  <2>4. dst' = [dst EXCEPT !.tables = db] /\ imp' = imp
    BY <1>7, <2>2 DEF AppSetLevel
  <2> HIDE DEF db
  <2>5. QED
    BY <1>6, <2>3, <2>4
<1>8. ASSUME NEW active \in SUBSET Nat, AppSaveSetting(active)
      PROVE  CopyInOrder' /\ Apart' /\ CopyTyped' /\ imp' = imp /\ Drawn
  <2> DEFINE db == [dst.tables EXCEPT !.active = active]
  <2>3. /\ db \in Db /\ db.langs = dst.tables.langs /\ db.cards = dst.tables.cards
        /\ db.reviews = dst.tables.reviews
    BY <1>t DEF Db
  <2>4. dst' = [dst EXCEPT !.tables = db] /\ imp' = imp
    BY <1>8 DEF AppSaveSetting
  <2> HIDE DEF db
  <2>5. QED
    BY <1>6, <2>3, <2>4
<1>9. \A id \in 1 .. MaxLanguages : {id} \in SUBSET Nat
  OBVIOUS
<1>10. QED
  BY <1>1, <1>2, <1>3, <1>4, <1>5, <1>7, <1>8, <1>9 DEF AppNext

-----------------------------------------------------------------------------
(* What the script brought, and what the user renamed.                     *)
LEMMA BroughtStands ==
  ASSUME Typed, BroughtKnown, Drawn, NEW a \in brought, NEW c \in Seen'.cards, c.id = a.card
  PROVE  \E d \in Seen.cards : d.id = c.id /\ d.lang = c.lang /\ d.text = c.text
<1>1. a.card < dst.ids.cards /\ a.card \in Nat /\ dst.ids.cards \in Nat
  BY DEF BroughtKnown, Typed, Ids
<1>2. ~(c.id >= dst.ids.cards)
  BY <1>1
<1>3. QED
  BY <1>2, Zenon DEF Drawn

(* A step that brings nothing tells of the same cards.                     *)
HistoryGrows == /\ renamed \subseteq renamed' /\ runs <= runs' /\ runs' \in Nat
                /\ dst'.ids \in Ids

LEMMA BroughtStill ==
  ASSUME Typed, BroughtKnown, Drawn, HistoryGrows
  PROVE  \A a \in brought : a.card < dst'.ids.cards /\ a.run <= runs'
<1> SUFFICES ASSUME NEW a \in brought PROVE a.card < dst'.ids.cards /\ a.run <= runs'
  OBVIOUS
<1>1. /\ a.card \in Nat /\ a.run \in Nat /\ runs \in Nat /\ runs' \in Nat
      /\ dst.ids.cards \in Nat /\ dst'.ids.cards \in Nat
  BY DEF Typed, Ids, HistoryGrows
<1>2. /\ a.card < dst.ids.cards /\ a.run <= runs /\ runs <= runs'
      /\ dst.ids.cards <= dst'.ids.cards
  BY DEF BroughtKnown, Drawn, HistoryGrows
<1>3. QED
  BY <1>1, <1>2

LEMMA NamesStill ==
  ASSUME Typed, TargetInOrder, BroughtKnown, NamesTold, Drawn, HistoryGrows, NEW a \in brought,
         NEW c \in Seen'.cards, NEW x \in Seen'.langs, a.card = c.id, c.lang = x.id
  PROVE  x.name = a.name \/ RenamedSince(x.id, a.run, runs)'
<1>t. /\ a.run \in Nat /\ runs \in Nat /\ runs' \in Nat /\ runs <= runs' /\ a.run <= runs
      /\ renamed \subseteq renamed'
  BY DEF Typed, HistoryGrows, BroughtKnown
<1>1. PICK d \in Seen.cards : d.id = c.id /\ d.lang = c.lang
  BY BroughtStands
<1>2. PICK y \in Seen.langs : y.id = x.id
  BY <1>1 DEF TargetInOrder, Backed, IdsOf
<1>3. x.id \in Nat /\ dst.ids.langs \in Nat /\ x.id < dst.ids.langs
  BY <1>2, SeenType DEF TargetInOrder, Below, LangRow, Typed, Ids
<1>4. x \in Seen.langs \/ <<x.id, runs>> \in renamed'
  <2>1. ~(x.id >= dst.ids.langs)
    BY <1>3
  <2>2. QED
    BY <2>1, Zenon DEF Drawn
<1>5. CASE x \in Seen.langs
  <2>1. x.name = a.name \/ RenamedSince(x.id, a.run, runs)
    BY <1>1, <1>5 DEF NamesTold
  <2>2. QED
    BY <1>t, <2>1 DEF RenamedSince
<1>6. CASE <<x.id, runs>> \in renamed'
  BY <1>t, <1>6 DEF RenamedSince
<1>7. QED
  BY <1>4, <1>5, <1>6

LEMMA OnceStill ==
  ASSUME Typed, TargetInOrder, BroughtKnown, BroughtOnce, Drawn, HistoryGrows, Keyed(Seen'),
         NEW a \in brought, NEW b \in brought, NEW c \in Seen'.cards, NEW d \in Seen'.cards,
         c.id = a.card, d.id = b.card, c.text = d.text
  PROVE  /\ c.lang = d.lang => c = d
         /\ a.name = b.name /\ c.id < d.id => RenamedSince(c.lang, a.run, b.run)'
<1>1. PICK e \in Seen.cards : e.id = c.id /\ e.lang = c.lang /\ e.text = c.text
  BY BroughtStands
<1>2. PICK f \in Seen.cards : f.id = d.id /\ f.lang = d.lang /\ f.text = d.text
  BY BroughtStands
<1>3. /\ e.lang = f.lang => e = f
      /\ a.name = b.name /\ e.id < f.id => RenamedSince(e.lang, a.run, b.run)
  BY <1>1, <1>2 DEF BroughtOnce
<1>4. c.lang = d.lang => c = d
  BY <1>1, <1>2, <1>3 DEF Keyed
<1>5. RenamedSince(c.lang, a.run, b.run) => RenamedSince(c.lang, a.run, b.run)'
  BY DEF RenamedSince, HistoryGrows
<1>6. QED
  BY <1>1, <1>2, <1>3, <1>4, <1>5

LEMMA CalmKeeps ==
  ASSUME Typed, TargetInOrder, BroughtKnown, NamesTold, BroughtOnce, Drawn, HistoryGrows,
         TargetInOrder', brought' = brought
  PROVE  BroughtKnown' /\ NamesTold' /\ BroughtOnce'
<1>1. BroughtKnown'
  BY BroughtStill DEF BroughtKnown
<1>2. NamesTold'
  BY NamesStill DEF NamesTold
<1>3. BroughtOnce'
  BY OnceStill DEF BroughtOnce, TargetInOrder
<1>4. QED
  BY <1>1, <1>2, <1>3

(* A card keeps its distance to the target of a language that is done.     *)
LEMMA ApartStill ==
  ASSUME Typed, BroughtKnown, NamesApart, Drawn, HistoryGrows,
         NEW l \in imp.got.langs \ imp.left.langs, NEW t \in Target(imp.langMap, l.id),
         NEW a \in brought, NEW c \in Seen'.cards, a.card = c.id, a.name = l.name, c.lang # t
  PROVE  RenamedSince(c.lang, a.run, runs)'
<1>1. PICK d \in Seen.cards : d.id = c.id /\ d.lang = c.lang
  BY BroughtStands
<1>2. RenamedSince(c.lang, a.run, runs)
  BY <1>1 DEF NamesApart
<1>3. /\ a.run \in Nat /\ runs \in Nat /\ runs' \in Nat /\ runs <= runs'
      /\ renamed \subseteq renamed'
  BY DEF Typed, HistoryGrows
<1>4. QED
  BY <1>2, <1>3 DEF RenamedSince

LEMMA NamesApartKept ==
  ASSUME Typed, BroughtKnown, NamesApart, Drawn, HistoryGrows, brought' = brought,
         imp'.got.langs = imp.got.langs, imp'.left.langs = imp.left.langs,
         imp'.langMap = imp.langMap
  PROVE  NamesApart'
BY ApartStill DEF NamesApart

LEMMA NamesApartBlank ==
  ASSUME Blank(imp') PROVE NamesApart'
BY DEF Blank, NamesApart

(* The language of a row takes the target whose name is the row's, and     *)
(* which no other language has.                                            *)
LEMMA NamesApartMapped ==
  ASSUME Typed, TargetInOrder, ImportInOrder, LanguagesMapped, BroughtKnown, NamesTold, NamesApart,
         Drawn, HistoryGrows, brought' = brought, runs' = runs,
         Seen'.cards = Seen.cards, NEW row \in imp.left.langs, NEW to, NEW new,
         Moved("langs", row, new, {<<row.id, to>>}, {}),
         \A x \in Seen.langs : x.name = row.name => x.id = to
  PROVE  NamesApart'
<1>t. row \in imp.got.langs
  BY DEF ImportInOrder, Tables
<1>m. /\ imp'.langMap = Grown(imp.langMap, row.id, to) /\ imp'.got.langs = imp.got.langs
      /\ imp'.left.langs = imp.left.langs \ {row}
  BY DEF Moved, Tables, Grown
<1>u. \A l \in imp.got.langs : l.id = row.id => l = row
  BY <1>t DEF ImportInOrder, Keyed
<1>1. Target(imp'.langMap, row.id) = {to}
  <2>1. Target(imp.langMap, row.id) = {}
    BY <1>u DEF LanguagesMapped, Target
  <2>2. QED
    BY <1>m, <2>1, TargetGrows
<1> SUFFICES ASSUME NEW l \in imp'.got.langs \ imp'.left.langs, NEW t \in Target(imp'.langMap, l.id),
                    NEW a \in brought, NEW c \in Seen'.cards,
                    a.card = c.id, a.name = l.name, c.lang # t
             PROVE  RenamedSince(c.lang, a.run, runs)'
  BY DEF NamesApart
<1>2. CASE l = row
  <2>1. PICK x \in Seen.langs : x.id = c.lang
    BY DEF TargetInOrder, Backed, IdsOf
  <2>2. x.name # a.name
    BY <1>1, <1>2, <2>1
  <2>3. RenamedSince(c.lang, a.run, runs)
    BY <2>1, <2>2 DEF NamesTold
  <2>4. QED
    BY <2>3 DEF RenamedSince, HistoryGrows
<1>3. CASE l # row
  <2>1. l \in imp.got.langs \ imp.left.langs /\ l.id # row.id
    BY <1>3, <1>m, <1>u
  <2>2. t \in Target(imp.langMap, l.id)
    BY <1>m, <2>1, TargetGrows
  <2>3. QED
    BY <2>1, <2>2, ApartStill
<1>4. QED
  BY <1>2, <1>3

(* A card that is new is brought: there is none of its text in the target, *)
(* and one that was brought under the name is of a language renamed since. *)
LEMMA NewCardHistory ==
  ASSUME Typed, TargetInOrder, ImportInOrder, LanguagesMapped, HistoryInOrder, Drawn, HistoryGrows,
         TargetInOrder', runs' = runs, NEW row \in imp.left.cards, NEW l \in Nat,
         Turn("cards", row), NewCard(row, l)
  PROVE  HistoryInOrder' /\ brought' \subseteq [card : Nat, name : Names, run : Nat]
<1> DEFINE new == [id |-> dst.ids.cards, lang |-> l, text |-> row.text, last |-> row.last]
           there == {x \in imp.got.langs : x.id = row.lang}
           bring(y) == [card |-> dst.ids.cards, name |-> y.name, run |-> runs]
<1>t. /\ dst.ids.cards \in Nat /\ runs \in Nat /\ imp.got.langs \subseteq LangRow
      /\ \A c \in Seen.cards : c.id \in Nat /\ c.id < dst.ids.cards
      /\ \A a \in brought : a.card \in Nat /\ a.card < dst.ids.cards
  BY SeenType DEF Typed, Ids, Import, Db, TargetInOrder, Below, CardRow, HistoryInOrder, BroughtKnown
<1>h. BroughtKnown /\ NamesTold /\ NamesApart /\ BroughtOnce
  BY DEF HistoryInOrder
<1>1. /\ Moved("cards", row, {new}, {}, {<<row.id, dst.ids.cards>>}) /\ TakeId("cards")
      /\ l \in Target(imp.langMap, row.lang)
      /\ \A c \in Seen.cards : ~(c.lang \in Target(imp.langMap, row.lang) /\ c.text = row.text)
      /\ new.id = dst.ids.cards /\ new.lang = l /\ new.text = row.text
      /\ brought' = brought \cup {bring(y) : y \in there}
  BY DEF NewCard, Brings
<1>2. \A a \in brought' : a \in brought \/ \E y \in there : a = bring(y)
  BY <1>1
<1>a. ASSUME NEW a \in brought', a \notin brought
      PROVE  /\ a.card = dst.ids.cards /\ a.run = runs
             /\ \E y \in imp.got.langs : y.id = row.lang /\ a.name = y.name
             /\ a \in [card : Nat, name : Names, run : Nat]
  BY <1>2, <1>a, <1>t DEF LangRow
<1> HIDE DEF new, there, bring
<1>3. dst'.tables = dst.tables /\ dst'.ids.cards = dst.ids.cards + 1
  BY <1>1, TakeIdFields
<1>4. /\ Seen'.langs = Seen.langs /\ Seen'.cards = Seen.cards \cup {new}
      /\ imp'.langMap = imp.langMap /\ imp'.got.langs = imp.got.langs
      /\ imp'.left.langs = {} /\ imp.left.langs = {}
  <2>1. "cards" \in Tables /\ imp.left.langs = {}
    BY DEF Turn, Before, Tables
  <2>2. /\ imp'.langMap = imp.langMap /\ imp'.got.langs = imp.got.langs
        /\ imp'.left.langs = imp.left.langs
    BY <1>1 DEF Moved, Tables
  <2>3. QED
    BY <1>1, <1>3, <2>1, <2>2, MovedSeen
<1>c. \A c \in Seen'.cards : c = new \/ (c \in Seen.cards /\ c.id # dst.ids.cards)
  BY <1>4, <1>t
<1>5. ASSUME NEW y \in imp.got.langs, y.id = row.lang
      PROVE  /\ Target(imp.langMap, y.id) = {l}
             /\ \A x \in Seen.langs : x.id = l => Called(x, y.name)
  <2>1. PICK t \in Nat : /\ Target(imp.langMap, y.id) = {t}
                         /\ \A x \in Seen.langs : x.id = t => Called(x, y.name)
    BY <1>4 DEF LanguagesMapped
  <2>2. t = l
    BY <1>1, <1>5, <2>1
  <2>3. QED
    BY <2>1, <2>2
<1>6. BroughtKnown'
  <2>1. ASSUME NEW a \in brought' PROVE a.card < dst'.ids.cards /\ a.run <= runs'
    <3>1. CASE a \in brought
      BY <1>h, <3>1, BroughtStill
    <3>2. CASE a \notin brought
      BY <1>a, <1>3, <1>t, <3>2
    <3>3. QED
      BY <3>1, <3>2
  <2>2. QED
    BY <2>1 DEF BroughtKnown
<1>7. NamesTold'
  <2>1. ASSUME NEW a \in brought', NEW c \in Seen'.cards, NEW x \in Seen'.langs,
               a.card = c.id, c.lang = x.id
        PROVE  x.name = a.name \/ RenamedSince(x.id, a.run, runs)'
    <3>1. CASE a \in brought
      BY <1>h, <2>1, <3>1, NamesStill
    <3>2. CASE a \notin brought
      <4>1. PICK y \in imp.got.langs : y.id = row.lang /\ a.name = y.name
        BY <1>a, <3>2
      <4>2. x \in Seen.langs /\ x.id = l /\ a.run = runs
        BY <1>1, <1>4, <1>a, <1>c, <2>1, <3>2
      <4>3. x.name = a.name \/ <<x.id, runs>> \in renamed
        BY <1>5, <4>1, <4>2 DEF Called
      <4>4. QED
        BY <1>t, <4>2, <4>3 DEF RenamedSince, HistoryGrows
    <3>3. QED
      BY <3>1, <3>2
  <2>2. QED
    BY <2>1 DEF NamesTold
<1>8. NamesApart'
  <2>1. ASSUME NEW m \in imp'.got.langs \ imp'.left.langs, NEW t \in Target(imp'.langMap, m.id),
               NEW a \in brought', NEW c \in Seen'.cards, a.card = c.id, a.name = m.name,
               c.lang # t
        PROVE  RenamedSince(c.lang, a.run, runs)'
    <3>1. CASE a \in brought
      BY <1>h, <1>4, <2>1, <3>1, ApartStill
    <3>2. CASE a \notin brought
      <4>1. PICK y \in imp.got.langs : y.id = row.lang /\ a.name = y.name
        BY <1>a, <3>2
      <4>2. m = y
        BY <1>4, <2>1, <4>1 DEF ImportInOrder
      <4>3. c.lang = l /\ t = l
        BY <1>1, <1>4, <1>5, <1>a, <1>c, <2>1, <3>2, <4>1, <4>2
      <4>4. QED
        BY <2>1, <4>3
    <3>3. QED
      BY <3>1, <3>2
  <2>2. QED
    BY <2>1 DEF NamesApart
<1>9. BroughtOnce'
  <2>1. ASSUME NEW a \in brought', NEW b \in brought', NEW c \in Seen'.cards, NEW d \in Seen'.cards,
               c.id = a.card, d.id = b.card, c.text = d.text
        PROVE  /\ c.lang = d.lang => c = d
               /\ a.name = b.name /\ c.id < d.id => RenamedSince(c.lang, a.run, b.run)'
    <3>1. CASE a \in brought /\ b \in brought
      BY <1>h, <2>1, <3>1, OnceStill DEF TargetInOrder
    <3>2. CASE a \in brought /\ b \notin brought
      <4>1. PICK y \in imp.got.langs : y.id = row.lang /\ b.name = y.name
        BY <1>a, <3>2
      <4>2. /\ d = new /\ d.lang = l /\ d.text = row.text /\ b.run = runs
            /\ c \in Seen.cards
        BY <1>1, <1>a, <1>c, <1>t, <2>1, <3>2
      <4>3. c.lang # d.lang
        BY <1>1, <2>1, <4>2
      <4>4. a.name = b.name => RenamedSince(c.lang, a.run, runs)
        BY <1>h, <1>4, <1>5, <2>1, <3>2, <4>1, <4>2, <4>3 DEF NamesApart
      <4>5. QED
        BY <4>2, <4>3, <4>4 DEF RenamedSince, HistoryGrows
    <3>3. CASE a \notin brought /\ b \in brought
      <4>1. /\ c = new /\ c.lang = l /\ c.text = row.text /\ c.id = dst.ids.cards
            /\ d \in Seen.cards
        BY <1>1, <1>a, <1>c, <1>t, <2>1, <3>3
      <4>2. c.lang # d.lang /\ ~(c.id < d.id)
        BY <1>1, <1>t, <2>1, <4>1
      <4>3. QED
        BY <4>2
    <3>4. CASE a \notin brought /\ b \notin brought
      <4>1. c = new /\ d = new /\ new.id \in Nat
        BY <1>1, <1>a, <1>c, <1>t, <2>1, <3>4
      <4>2. QED
        BY <4>1
    <3>5. QED
      BY <3>1, <3>2, <3>3, <3>4
  <2>2. QED
    BY <2>1 DEF BroughtOnce
<1>10. brought' \subseteq [card : Nat, name : Names, run : Nat]
  BY <1>a DEF Typed
<1>11. QED
  BY <1>6, <1>7, <1>8, <1>9, <1>10 DEF HistoryInOrder

-----------------------------------------------------------------------------
LEMMA ImportInit == ASSUME LegacyAssumption, Init PROVE Typed /\ ImportInv
<1>1. /\ src = [tables |-> NoTables, ids |-> NoIds] /\ clock = 1
      /\ dst = [profile |-> TRUE, tables |-> NoRows, ids |-> NoIds] /\ imp = NotRunning /\ runs = 0
      /\ renamed = {} /\ brought = {}
  BY DEF Init, LegacyInit
<1>2. Typed
  BY <1>1, NoRowsType DEF Typed, LegacyTyped, LegacyAssumption, NoTables, NoIds, LegacyDb, Ids, None
<1>3. SourceInOrder
  BY <1>1 DEF SourceInOrder, Rows, NoTables, Keyed, Below, ScheduleIsLogged
<1>4. /\ Seen.langs = {} /\ Seen.cards = {} /\ Seen.reviews = {}
      /\ imp.mine = NoRows /\ imp.got = NoRows /\ imp.left = NoRows
      /\ imp.langMap = {} /\ imp.cardMap = {} /\ imp.pc = "idle"
  BY <1>1, SeenFields DEF NotRunning, NoRows
<1>5. TargetInOrder
  BY <1>1, <1>4 DEF TargetInOrder, Keyed, Below, Once, Backed, NoRows
<1>6. ImportInOrder
  BY <1>4 DEF ImportInOrder, Keyed, NoRows
<1>7. LanguagesMapped /\ CardsMapped /\ ReviewsMapped
  BY <1>4 DEF LanguagesMapped, CardsMapped, ReviewsMapped, NoRows
<1>8. Apart
  BY <1>4 DEF Apart, NoRows
<1>9. HistoryInOrder
  BY <1>1 DEF HistoryInOrder, BroughtKnown, NamesTold, NamesApart, BroughtOnce
<1>10. QED
  BY <1>2, <1>3, <1>5, <1>6, <1>7, <1>8, <1>9 DEF ImportInv, CopyInOrder

(* What a step does, to the history and otherwise.                         *)
LEMMA StepCases ==
  ASSUME [Next]_vars
  PROVE  \/ UNCHANGED <<dst, imp, runs, history>>
         \/ (Reads \/ Commit) /\ UNCHANGED history /\ runs' \in {runs, runs + 1}
         \/ /\ Upserts /\ renamed' = renamed /\ runs' = runs
            /\ brought' = brought \/ \E row \in imp.left.cards : UpsertCard(row)
         \/ /\ \E row \in imp.left.langs : LanguageVanishes(row)
            /\ brought' = brought /\ runs' = runs /\ renamed \subseteq renamed'
         \/ AppNext /\ UNCHANGED history /\ runs' = runs
         \/ \E l \in IdsOf(dst.tables.langs), name \in Names :
              /\ AppRenameLanguage(l, name)
              /\ brought' = brought /\ runs' = runs /\ renamed \subseteq renamed'
<1>1. CASE LegacyNext /\ UNCHANGED <<dst, imp, runs, history>>
  BY <1>1
<1>2. CASE ImportNext /\ UNCHANGED history
  <2>1. CASE Reads \/ Commit
    BY <1>2, <2>1 DEF Reads, StartImport, Read, EnsureProfile, ParentGone, Stopped, Rollback,
                      Abort, Commit
  <2>2. CASE Upserts
    <3>1. runs' = runs
      BY <2>2 DEF Upserts, UpsertLanguage, UpsertCard, UpsertReview, UpsertReviewOf, UpsertLevel,
                  UpsertSetting
    <3>2. QED
      BY <1>2, <2>2, <3>1 DEF history
  <2>3. QED
    BY <1>2, <2>1, <2>2 DEF ImportNext, Reads, Upserts
<1>3. CASE AppNext /\ UNCHANGED history
  <2>1. runs' = runs
    BY <1>3 DEF AppNext, AppAddLanguage, AppDeleteLanguage, AppSaveCards, AppSetLevel,
                AppSaveSetting, AppDeleteAccount, AppGrade
  <2>2. QED
    BY <1>3, <2>1
<1>4. CASE HistoryNext
  <2>1. ASSUME NEW row \in imp.left.langs, LanguageVanishes(row)
        PROVE  brought' = brought /\ runs' = runs /\ renamed \subseteq renamed'
    BY <2>1 DEF LanguageVanishes, Deleted, Renamed
  <2>2. ASSUME NEW row \in imp.left.cards, UpsertCard(row)
        PROVE  Upserts /\ runs' = runs /\ renamed' = renamed
    BY <2>2 DEF UpsertCard, Upserts
  <2>3. ASSUME NEW l \in IdsOf(dst.tables.langs), NEW name \in Names, AppRenameLanguage(l, name)
        PROVE  brought' = brought /\ runs' = runs /\ renamed \subseteq renamed'
    BY <2>3 DEF AppRenameLanguage, Renamed
  <2>4. QED
    BY <1>4, <2>1, <2>2, <2>3 DEF HistoryNext
<1>5. CASE UNCHANGED vars
  BY <1>5 DEF vars, history
<1>6. QED
  BY <1>1, <1>2, <1>3, <1>4, <1>5 DEF Next

LEMMA CopyStep ==
  ASSUME LegacyAssumption, Typed, SourceInOrder, CopyInOrder, Apart, [Next]_vars
  PROVE  CopyInOrder' /\ Apart' /\ CopyTyped' /\ Drawn
<1>1. CASE UNCHANGED <<dst, imp, runs, history>>
  <2>1. CopyTyped'
    BY <1>1 DEF CopyTyped, Typed
  <2>s. dst' = dst /\ imp' = imp /\ Seen' = Seen /\ runs' = runs /\ renamed' = renamed
    BY <1>1 DEF Seen, history
  <2>a. TargetInOrder' /\ ImportInOrder'
    BY <2>s DEF CopyInOrder, TargetInOrder, ImportInOrder, At
  <2>b. LanguagesMapped' /\ ReviewsMapped'
    BY <2>s DEF CopyInOrder, LanguagesMapped, ReviewsMapped, Called
  <2>c. CardsMapped'
    BY <2>s DEF CopyInOrder, CardsMapped
  <2>d. Apart'
    BY <2>s DEF Apart
  <2>e. Drawn
    <3>1. dst.ids.cards \in Nat
      BY DEF Typed, Ids
    <3>2. QED
      BY <2>s, <3>1 DEF Drawn
  <2>2. QED
    BY <2>1, <2>a, <2>b, <2>c, <2>d, <2>e DEF CopyInOrder
<1>2. CASE Reads \/ Commit
  BY <1>2, ReadsKeep, CommitKeeps
<1>3. CASE Upserts /\ renamed' = renamed /\ runs' = runs
  BY <1>3, UpsertsKeep DEF HistoryStands
<1>4. CASE \E row \in imp.left.langs : LanguageVanishes(row)
  BY <1>4, VanishKeeps
<1>5. CASE AppNext /\ UNCHANGED history /\ runs' = runs
  BY <1>5, AppKeepsAll DEF HistoryStands, history
<1>6. ASSUME NEW l \in IdsOf(dst.tables.langs), NEW name \in Names, AppRenameLanguage(l, name)
      PROVE  CopyInOrder' /\ Apart' /\ CopyTyped' /\ Drawn
  BY <1>6, AppRenameLanguageStep DEF AppRenameLanguage, CopyTyped, Typed
<1>7. QED
  BY <1>1, <1>2, <1>3, <1>4, <1>5, <1>6, StepCases

(* The history after a row of the import is done.                          *)
LEMMA UpsertsTell ==
  ASSUME Typed, CopyInOrder, HistoryInOrder, Upserts, HistoryGrows, Drawn, TargetInOrder',
         dst'.tables = dst.tables, runs' = runs,
         brought' = brought \/ \E row \in imp.left.cards : UpsertCard(row)
  PROVE  HistoryInOrder' /\ brought' \subseteq [card : Nat, name : Names, run : Nat]
<1>i. /\ TargetInOrder /\ ImportInOrder /\ LanguagesMapped
      /\ BroughtKnown /\ NamesTold /\ NamesApart /\ BroughtOnce
      /\ brought \subseteq [card : Nat, name : Names, run : Nat]
  BY DEF CopyInOrder, HistoryInOrder, Typed
<1>k. ASSUME brought' = brought, NamesApart'
      PROVE  HistoryInOrder' /\ brought' \subseteq [card : Nat, name : Names, run : Nat]
  BY <1>i, <1>k, CalmKeeps DEF HistoryInOrder
<1>m. ASSUME NEW x \in Tables \ {"langs"}, NEW row, NEW new, NEW cards,
             Moved(x, row, new, {}, cards), brought' = brought
      PROVE  HistoryInOrder' /\ brought' \subseteq [card : Nat, name : Names, run : Nat]
  <2>1. /\ imp'.got.langs = imp.got.langs /\ imp'.left.langs = imp.left.langs
        /\ imp'.langMap = imp.langMap
    BY <1>m DEF Moved, Tables
  <2>2. QED
    BY <1>i, <1>k, <1>m, <2>1, NamesApartKept
<1>1. ASSUME NEW row \in imp.left.langs, UpsertLanguage(row), brought' = brought
      PROVE  HistoryInOrder' /\ brought' \subseteq [card : Nat, name : Names, run : Nat]
  <2>1. CASE NewLanguage(row)
    <3>1. PICK new, to : /\ Moved("langs", row, new, {<<row.id, to>>}, {})
                         /\ \A x \in Seen.langs : x.name = row.name => x.id = to
      BY <2>1 DEF NewLanguage
    <3>2. Seen'.cards = Seen.cards
      BY <3>1, MovedSeen
    <3>3. QED
      BY <1>1, <1>i, <1>k, <3>1, <3>2, NamesApartMapped
  <2>2. ASSUME NEW l \in Seen.langs, OldLanguage(row, l)
        PROVE  NamesApart'
    <3>1. Moved("langs", row, {}, {<<row.id, l.id>>}, {}) /\ l.name = row.name
      BY <2>2 DEF OldLanguage
    <3>2. \A x \in Seen.langs : x.name = row.name => x.id = l.id
      BY <1>i, <3>1 DEF TargetInOrder, Once
    <3>3. Seen'.cards = Seen.cards
      BY <3>1, MovedSeen
    <3>4. QED
      BY <1>1, <1>i, <3>1, <3>2, <3>3, NamesApartMapped
  <2>3. QED
    BY <1>1, <1>k, <2>1, <2>2, UpsertLanguageMoves
<1>2. ASSUME NEW row \in imp.left.cards, UpsertCard(row)
      PROVE  HistoryInOrder' /\ brought' \subseteq [card : Nat, name : Names, run : Nat]
  <2>1. CASE SkippedCard(row)
    BY <1>m, <2>1 DEF SkippedCard, Tables
  <2>2. ASSUME NEW c \in Seen.cards, OldCard(row, c)
        PROVE  HistoryInOrder' /\ brought' \subseteq [card : Nat, name : Names, run : Nat]
    <3>1. Moved("cards", row, {}, {}, {<<row.id, c.id>>}) /\ brought' = brought
      BY <2>2 DEF OldCard
    <3>2. QED
      BY <1>m, <3>1 DEF Tables
  <2>3. ASSUME NEW l \in Nat, NewCard(row, l)
        PROVE  HistoryInOrder' /\ brought' \subseteq [card : Nat, name : Names, run : Nat]
    <3>1. Turn("cards", row)
      BY <1>2 DEF UpsertCard
    <3>2. QED
      BY <1>i, <2>3, <3>1, NewCardHistory
  <2>4. QED
    BY <1>2, <2>1, <2>2, <2>3, UpsertCardMoves
<1>3. ASSUME NEW row \in imp.left.reviews, UpsertReview(row), brought' = brought
      PROVE  HistoryInOrder' /\ brought' \subseteq [card : Nat, name : Names, run : Nat]
  <2>1. PICK new : Moved("reviews", row, new, {}, {})
    BY <1>3, UpsertReviewMoves DEF SkippedReview, NewReview
  <2>2. QED
    BY <1>3, <1>m, <2>1 DEF Tables
<1>4. ASSUME NEW row \in imp.left.levels, UpsertLevel(row), brought' = brought
      PROVE  HistoryInOrder' /\ brought' \subseteq [card : Nat, name : Names, run : Nat]
  <2>1. PICK new : Moved("levels", row, new, {}, {})
    BY <1>4, UpsertLevelMoves
  <2>2. QED
    BY <1>4, <1>m, <2>1 DEF Tables
<1>5. ASSUME NEW row \in imp.left.active, UpsertSetting(row), brought' = brought
      PROVE  HistoryInOrder' /\ brought' \subseteq [card : Nat, name : Names, run : Nat]
  <2>1. PICK new : Moved("active", row, new, {}, {})
    BY <1>5, UpsertSettingMoves
  <2>2. QED
    BY <1>5, <1>m, <2>1 DEF Tables
<1>6. QED
  BY <1>1, <1>2, <1>3, <1>4, <1>5 DEF Upserts

LEMMA HistoryStep ==
  ASSUME LegacyAssumption, Typed, SourceInOrder, CopyInOrder, Apart, HistoryInOrder, [Next]_vars,
         TargetInOrder', CopyTyped', Drawn
  PROVE  /\ HistoryInOrder' /\ runs' \in Nat /\ renamed' \subseteq Nat \X Nat
         /\ brought' \subseteq [card : Nat, name : Names, run : Nat]
<1>t. /\ runs \in Nat /\ renamed \subseteq Nat \X Nat
      /\ brought \subseteq [card : Nat, name : Names, run : Nat]
      /\ dst'.ids \in Ids
      /\ \A l \in IdsOf(dst.tables.langs) : l \in Nat
  BY DEF Typed, CopyTyped, IdsOf, Db, LangRow
<1>i. /\ BroughtKnown /\ NamesTold /\ NamesApart /\ BroughtOnce /\ TargetInOrder
  BY DEF HistoryInOrder, CopyInOrder
<1>r. renamed' \subseteq Nat \X Nat
  <2>1. ASSUME NEW l \in IdsOf(dst.tables.langs), NEW name \in Names, Renamed(l, name)
        PROVE  renamed' \subseteq Nat \X Nat
    BY <1>t, <2>1 DEF Renamed
  <2>2. ASSUME NEW row \in imp.left.langs, LanguageVanishes(row)
        PROVE  renamed' \subseteq Nat \X Nat
    <3>1. PICK l \in IdsOf(dst.tables.langs) : Deleted(l) \/ \E name \in Names : Renamed(l, name)
      BY <2>2 DEF LanguageVanishes, IdsOf
    <3>2. QED
      BY <1>t, <2>1, <3>1 DEF Deleted
  <2>3. QED
    BY <1>t, <2>1, <2>2, StepCases DEF AppRenameLanguage, history
<1>g. HistoryGrows
  BY <1>t, StepCases DEF HistoryGrows, history
<1>n. runs' \in Nat
  BY <1>g DEF HistoryGrows
<1>b. ASSUME Blank(imp'), brought' = brought
      PROVE  HistoryInOrder' /\ brought' \subseteq [card : Nat, name : Names, run : Nat]
  BY <1>b, <1>g, <1>i, <1>t, CalmKeeps, NamesApartBlank DEF HistoryInOrder
<1>s. ASSUME imp' = imp, brought' = brought
      PROVE  HistoryInOrder' /\ brought' \subseteq [card : Nat, name : Names, run : Nat]
  BY <1>s, <1>g, <1>i, <1>t, CalmKeeps, NamesApartKept DEF HistoryInOrder
<1>1. CASE UNCHANGED <<dst, imp, runs, history>>
  BY <1>1, <1>n, <1>r, <1>s DEF history
<1>2. CASE (Reads \/ Commit) /\ UNCHANGED history
  BY <1>2, <1>b, <1>n, <1>r, ReadsKeep, CommitKeeps DEF history
<1>3. CASE /\ Upserts /\ renamed' = renamed /\ runs' = runs
           /\ brought' = brought \/ \E row \in imp.left.cards : UpsertCard(row)
  <2>1. dst'.tables = dst.tables
    BY <1>3, UpsertsKeep DEF HistoryStands
  <2>2. QED
    BY <1>3, <1>g, <1>n, <1>r, <2>1, UpsertsTell
<1>4. CASE (\E row \in imp.left.langs : LanguageVanishes(row)) /\ brought' = brought
  BY <1>4, <1>b, <1>n, <1>r, VanishKeeps
<1>5. CASE AppNext /\ UNCHANGED history /\ runs' = runs
  BY <1>5, <1>n, <1>r, <1>s, AppKeepsAll DEF HistoryStands, history
<1>6. CASE \E l \in IdsOf(dst.tables.langs), name \in Names :
             AppRenameLanguage(l, name) /\ brought' = brought
  BY <1>6, <1>n, <1>r, <1>s DEF AppRenameLanguage
<1>7. QED
  BY <1>1, <1>2, <1>3, <1>4, <1>5, <1>6, StepCases

LEMMA ImportStep ==
  ASSUME LegacyAssumption, Typed, ImportInv, [Next]_vars
  PROVE  Typed' /\ ImportInv'
<1>i. LegacyTyped /\ SourceInOrder /\ CopyInOrder /\ Apart /\ HistoryInOrder
  BY DEF Typed, ImportInv
<1>l. LegacyNext \/ UNCHANGED <<src, clock>>
  <2>1. ImportNext => UNCHANGED <<src, clock>>
    BY DEF ImportNext, StartImport, Read, EnsureProfile, Abort, UpsertLanguage, UpsertReview,
           UpsertReviewOf, UpsertLevel, UpsertSetting, ParentGone, Stopped, Commit, Rollback, legacy
  <2>2. AppNext => UNCHANGED <<src, clock>>
    BY DEF AppNext, AppAddLanguage, AppDeleteLanguage, AppSaveCards, AppSetLevel, AppSaveSetting,
           AppDeleteAccount, AppGrade, legacy
  <2>3. HistoryNext => UNCHANGED <<src, clock>>
    BY DEF HistoryNext, LanguageVanishes, UpsertCard, AppRenameLanguage, legacy
  <2>4. QED
    BY <2>1, <2>2, <2>3 DEF Next, vars
<1>s. LegacyTyped' /\ SourceInOrder'
  BY <1>i, <1>l, SourceStep
<1>1. CopyInOrder' /\ Apart' /\ CopyTyped' /\ Drawn
  BY <1>i, CopyStep
<1>2. /\ HistoryInOrder' /\ runs' \in Nat /\ renamed' \subseteq Nat \X Nat
      /\ brought' \subseteq [card : Nat, name : Names, run : Nat]
  BY <1>1, <1>i, HistoryStep DEF CopyInOrder
<1>3. QED
  BY <1>s, <1>1, <1>2 DEF Typed, CopyTyped, ImportInv

(* The types, and what keeps the two stores and the import between them in *)
(* order, hold throughout.                                                 *)
THEOREM ImportInvariant == Spec => [](Typed /\ ImportInv)
<1>1. Init => Typed /\ ImportInv
  BY LegacyAssumption, ImportInit
<1>2. Typed /\ ImportInv /\ [Next]_vars => (Typed /\ ImportInv)'
  BY LegacyAssumption, ImportStep
<1>3. QED
  BY <1>1, <1>2, PTL DEF Spec

(* The legacy application keeps the schedule of a card and its reviews     *)
(* together, whatever happens between two of its steps.                    *)
THEOREM SchedulesAreLogged == Spec => []ScheduleIsLogged
<1>1. Typed /\ ImportInv => ScheduleIsLogged
  BY DEF ImportInv, SourceInOrder
<1>2. QED
  BY <1>1, ImportInvariant, PTL

(* However often the script runs, wherever it or the user stops it, and    *)
(* whatever cards the user saves beside it: no review is there twice, and  *)
(* no card of the old application came twice, unless its language was      *)
(* renamed between the runs that brought it.                               *)
THEOREM ImportIsIdempotent == Spec => []ImportedOnce
<1>1. Typed /\ ImportInv => ImportedOnce
  <2> SUFFICES ASSUME Typed, ImportInv PROVE ImportedOnce
    OBVIOUS
  <2>1. Once(Seen) /\ BroughtOnce
    BY DEF ImportInv, CopyInOrder, TargetInOrder, HistoryInOrder
  <2>2. /\ dst.tables.langs \subseteq Seen.langs /\ dst.tables.cards \subseteq Seen.cards
        /\ dst.tables.reviews \subseteq Seen.reviews
    BY SeenFields
  <2>3. /\ \A l, m \in dst.tables.langs : l.name = m.name => l = m
        /\ \A r, q \in dst.tables.reviews :
             r.card = q.card /\ r.rating = q.rating /\ r.at = q.at => r = q
    BY <2>1, <2>2 DEF Once
  <2>4. \A a, b \in brought : \A c, d \in dst.tables.cards :
          c.id = a.card /\ d.id = b.card /\ c.text = d.text =>
            /\ c.lang = d.lang => c = d
            /\ a.name = b.name /\ c.id < d.id => RenamedSince(c.lang, a.run, b.run)
    BY <2>1, <2>2 DEF BroughtOnce
  <2>5. QED
    BY <2>3, <2>4 DEF ImportedOnce
<1>2. QED
  BY <1>1, ImportInvariant, PTL

(* What a row of the source is mapped to, when everything is done.         *)
LEMMA HistoryOfACard ==
  ASSUME Typed, ImportInv, Commit, NEW c \in imp.got.cards,
         NameOf(imp.got, c.lang) # {},
         Target(imp.langMap, c.lang) \subseteq IdsOf(dst'.tables.langs)
  PROVE  \E d \in dst'.tables.cards :
           /\ d.text = c.text /\ d.lang \in Target(imp.langMap, c.lang)
           /\ \/ NameOf(dst'.tables, d.lang) = NameOf(imp.got, c.lang)
              \/ <<d.lang, runs>> \in renamed
           /\ \A r \in imp.got.reviews : r.card = c.id =>
                \E q \in dst'.tables.reviews :
                  q.card = d.id /\ q.rating = r.rating /\ q.at = r.at
<1>i. /\ TargetInOrder /\ ImportInOrder /\ LanguagesMapped /\ CardsMapped /\ ReviewsMapped
      /\ dst'.tables = Seen
  BY CommitKeeps DEF ImportInv, CopyInOrder
<1>f. imp.left.langs = {} /\ imp.left.cards = {} /\ imp.left.reviews = {}
  BY DEF Commit, Finished, Tables
<1>1. PICK l \in imp.got.langs : l.id = c.lang
  BY DEF NameOf
<1>2. PICK t \in Nat : /\ Target(imp.langMap, l.id) = {t}
                       /\ \A x \in Seen.langs : x.id = t => Called(x, l.name)
  BY <1>f, <1>i DEF LanguagesMapped
<1>3. Target(imp.langMap, c.lang) = {t} /\ t \in IdsOf(Seen.langs)
  BY <1>1, <1>2, <1>i
<1>4. PICK k \in Nat : /\ Target(imp.cardMap, c.id) = {k}
                       /\ \E d \in Seen.cards : d.id = k /\ d.lang = t /\ d.text = c.text
  BY <1>3, <1>f, <1>i DEF CardsMapped
<1>5. PICK d \in Seen.cards : d.id = k /\ d.lang = t /\ d.text = c.text
  BY <1>4
<1>6. \/ NameOf(dst'.tables, d.lang) = NameOf(imp.got, c.lang)
      \/ <<d.lang, runs>> \in renamed
  <2>1. NameOf(imp.got, c.lang) = {l.name}
    BY <1>1, <1>i DEF NameOf, ImportInOrder, Keyed
  <2>2. PICK x \in Seen.langs : x.id = t
    BY <1>3 DEF IdsOf
  <2>3. NameOf(Seen, t) = {x.name}
    BY <1>i, <2>2 DEF NameOf, TargetInOrder, Keyed
  <2>4. x.name = l.name \/ <<t, runs>> \in renamed
    BY <1>2, <2>2 DEF Called
  <2>5. QED
    BY <1>5, <1>i, <2>1, <2>3, <2>4
<1>7. ASSUME NEW r \in imp.got.reviews, r.card = c.id
      PROVE  \E q \in Seen.reviews : q.card = d.id /\ q.rating = r.rating /\ q.at = r.at
  <2>1. k \in Target(imp.cardMap, r.card) /\ k \in IdsOf(Seen.cards)
    BY <1>4, <1>5, <1>7 DEF IdsOf
  <2>2. QED
    BY <1>5, <1>f, <1>i, <2>1 DEF ReviewsMapped
<1>8. QED
  BY <1>3, <1>5, <1>6, <1>7, <1>i

(* A committed import has lost nothing of what it read, and given nothing  *)
(* to a wrong card, although the user may delete and rename languages      *)
(* until the very commit.                                                  *)
THEOREM ImportIsComplete == Spec => HistoryArrives
<1>1. Typed /\ ImportInv /\ [Next]_vars =>
        [Commit =>
           \A c \in imp.got.cards :
             LET lang == Target(imp.langMap, c.lang)
             IN  NameOf(imp.got, c.lang) # {} /\ lang \subseteq IdsOf(dst'.tables.langs) =>
                   \E d \in dst'.tables.cards :
                     /\ d.text = c.text /\ d.lang \in lang
                     /\ \/ NameOf(dst'.tables, d.lang) = NameOf(imp.got, c.lang)
                        \/ <<d.lang, runs>> \in renamed
                     /\ \A r \in imp.got.reviews : r.card = c.id =>
                          \E q \in dst'.tables.reviews :
                            q.card = d.id /\ q.rating = r.rating /\ q.at = r.at]_vars
  BY HistoryOfACard
<1>2. QED
  BY <1>1, ImportInvariant, PTL DEF Spec, HistoryArrives

(* The import takes nothing away from what the user has.                   *)
THEOREM ImportOnlyAdds == Spec => NothingOverwritten
<1>1. ASSUME Typed, ImportInv, [Next]_vars, imp' # imp,
             ~(\E row \in imp.left.langs : LanguageVanishes(row)), NEW x \in Tables
      PROVE  dst.tables[x] \subseteq dst'.tables[x]
  <2>i. SourceInOrder /\ CopyInOrder /\ Apart
    BY <1>1 DEF ImportInv
  <2>1. CASE Commit
    BY <1>1, <2>1, <2>i, CommitKeeps DEF Seen
  <2>2. CASE Reads
    BY <1>1, <2>2, <2>i, ReadsKeep, LegacyAssumption
  <2>3. CASE Upserts /\ renamed' = renamed /\ runs' = runs
    <3>1. dst'.tables = dst.tables
      BY <1>1, <2>3, <2>i, UpsertsKeep DEF HistoryStands
    <3>2. QED
      BY <3>1
  <2>4. CASE AppNext /\ UNCHANGED history /\ runs' = runs
    BY <1>1, <2>4, <2>i, AppKeepsAll, LegacyAssumption DEF HistoryStands, history
  <2>5. CASE \E l \in IdsOf(dst.tables.langs), name \in Names : AppRenameLanguage(l, name)
    BY <1>1, <2>5 DEF AppRenameLanguage
  <2>6. QED
    BY <1>1, <2>1, <2>2, <2>3, <2>4, <2>5, StepCases
<1>2. Typed /\ ImportInv /\ [Next]_vars =>
        [imp' # imp /\ ~(\E row \in imp.left.langs : LanguageVanishes(row)) =>
           \A x \in Tables : dst.tables[x] \subseteq dst'.tables[x]]_vars
  BY <1>1
<1>3. QED
  BY <1>2, ImportInvariant, PTL DEF Spec, NothingOverwritten
=============================================================================
