------------------------------- MODULE Legacy -------------------------------
(***************************************************************************)
(* The store of the single-user predecessor (legacy_streamlit): its SQLite *)
(* tables, and the transactions of its pages on them.                      *)
(***************************************************************************)
EXTENDS Naturals, FiniteSets, FiniteSetsExt

CONSTANTS Names, Sentences, Ratings, Scores,
          MaxClock, MaxCards, MaxReviews, MaxLanguages   \* bounds of the model

Directions == {"recognition", "production"}
None       == 0     \* no row; ids begin with 1

ASSUME LegacyAssumption ==
  /\ Ratings \subseteq Nat \ {0} /\ Ratings # {}
  /\ Scores \subseteq Nat
  /\ MaxClock \in Nat \ {0}
  /\ {MaxCards, MaxReviews, MaxLanguages} \subseteq Nat

VARIABLES src,     \* the tables, and the next row id of each
          clock    \* the second it is

NoTables == [langs |-> {}, cards |-> {}, reviews |-> {}, levels |-> {}, active |-> None]
NoIds    == [langs |-> 1, cards |-> 1, reviews |-> 1]

LegacyInit == /\ src = [tables |-> NoTables, ids |-> NoIds]
              /\ clock = 1

Rows == src.tables
IdsOf(table) == {row.id : row \in table}
-----------------------------------------------------------------------------
(* languages.py.  A name is added once; without an active language it      *)
(* becomes the active one.                                                 *)
AddLanguage(name) ==
  LET known == {l.id : l \in {x \in Rows.langs : x.name = name}}
      id    == IF known = {} THEN src.ids.langs ELSE Min(known)
      db    == IF known # {} THEN src
               ELSE [src EXCEPT !.tables.langs = @ \cup {[id |-> id, name |-> name]},
                                !.ids.langs = @ + 1]
  IN  /\ id <= MaxLanguages
      /\ src' = [db EXCEPT !.tables.active = IF @ = None THEN id ELSE @]
      /\ UNCHANGED clock

(* The tables without a language and, ON DELETE CASCADE, what hangs on it. *)
WithoutLanguage(db, l) ==
  LET kept == {c \in db.cards : c.lang # l}
  IN  [db EXCEPT !.langs   = {x \in @ : x.id # l},
                 !.cards   = kept,
                 !.reviews = {r \in @ : r.card \in IdsOf(kept)},
                 !.levels  = {v \in @ : v.lang # l}]

DeleteLanguage(l) ==
  /\ l \in IdsOf(Rows.langs)
  /\ src' = [src EXCEPT !.tables = [WithoutLanguage(Rows, l) EXCEPT
                          !.active = IF @ = l THEN None ELSE @]]
  /\ UNCHANGED clock

ChooseLanguage(l) ==
  /\ l \in IdsOf(Rows.langs)
  /\ src' = [src EXCEPT !.tables.active = l]
  /\ UNCHANGED clock
-----------------------------------------------------------------------------
(* set_score, an upsert: the user chooses a band, or a grade has changed   *)
(* the level.  The level goes after the grade in a transaction of its own, *)
(* which does not come when the tab is closed in between.                  *)
WithLevel(db, l, score) ==
  [db EXCEPT !.levels = {v \in @ : v.lang # l} \cup {[lang |-> l, score |-> score]}]

SetLevel(l, score) ==
  /\ l \in IdsOf(Rows.langs)
  /\ src' = [src EXCEPT !.tables = WithLevel(@, l, score)]
  /\ UNCHANGED clock

(* save_cards: two cards for a sentence, due at once, in one transaction.  *)
(* A page that is interrupted after it saves them again.                   *)
NewCards(s, l, id) ==
  {[id |-> id,     lang |-> l, text |-> <<s, "recognition">>, last |-> 0],
   [id |-> id + 1, lang |-> l, text |-> <<s, "production">>,  last |-> 0]}

SaveCards(s, l) ==
  /\ l \in IdsOf(Rows.langs) /\ src.ids.cards < MaxCards
  /\ src' = [src EXCEPT !.tables.cards = @ \cup NewCards(s, l, src.ids.cards),
                        !.ids.cards = @ + 2]
  /\ UNCHANGED clock
-----------------------------------------------------------------------------
Scheduled(db, c) ==
  [db EXCEPT !.tables.cards = {IF x.id = c THEN [x EXCEPT !.last = clock] ELSE x : x \in @}]

Logged(db, c, rating) ==
  [db EXCEPT !.tables.reviews = @ \cup {[id |-> src.ids.reviews, card |-> c,
                                         rating |-> rating, at |-> clock]},
             !.ids.reviews = @ + 1]

(* The schedule is committed before the review is logged, and a crash may  *)
(* come between.                                                           *)
GradeApart(c, rating) ==
  src' \in {Scheduled(src, c), Logged(Scheduled(src, c), c, rating)}

(* grade: the schedule and the log in one transaction.                     *)
Grade(c, rating) == src' = Logged(Scheduled(src, c), c, rating)

Rate(c, rating) ==
  /\ c \in IdsOf(Rows.cards) /\ src.ids.reviews <= MaxReviews
  /\ Grade(c, rating)
  /\ UNCHANGED clock

Tick ==
  /\ clock < MaxClock
  /\ clock' = clock + 1
  /\ UNCHANGED src

LegacyNext ==
  \/ \E name \in Names : AddLanguage(name)
  \/ \E l \in IdsOf(Rows.langs) :
       \/ DeleteLanguage(l) \/ ChooseLanguage(l)
       \/ \E score \in Scores : SetLevel(l, score)
       \/ \E s \in Sentences : SaveCards(s, l)
  \/ \E c \in IdsOf(Rows.cards), rating \in Ratings : Rate(c, rating)
  \/ Tick

(* A card's schedule is that of its last logged review, and a card without *)
(* one is new, whatever happens between two steps of a grade               *)
(* (legacy_streamlit/store.py).                                            *)
ScheduleIsLogged ==
  \A c \in Rows.cards :
    LET times == {r.at : r \in {x \in Rows.reviews : x.card = c.id}}
    IN  c.last = IF times = {} THEN 0 ELSE Max(times)
=============================================================================
