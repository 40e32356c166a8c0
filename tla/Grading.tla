------------------------------ MODULE Grading ------------------------------
(***************************************************************************)
(* Grading a card: ReviewService.grade (apps/api/app/services/review.py)   *)
(* over READ COMMITTED transactions, next to a manual level override       *)
(* (services/proficiency.py) and the removal of the language               *)
(* (services/languages.py), for one user and one language.                 *)
(*                                                                         *)
(* A handler is a request with its transaction; a statement it awaits is   *)
(* one step.  An uncommitted UPDATE holds its row's lock: a handler that   *)
(* updates the row as well waits, and then writes over what it finds with  *)
(* what it computed from its own, earlier read.                            *)
(***************************************************************************)
EXTENDS Integers, Sequences, FiniteSets

CONSTANTS Handlers,     \* grade requests served at the same time
          Cards,        \* the user's cards of the language, all with an FSRS state
          Ratings,      \* 1 = Again .. 4 = Easy
          LevelDelta,   \* LEVEL_DELTAS, in units of 1/400 of a CEFR band
          LevelMax,     \* LEVEL_MAX
          LevelWindow,  \* LEVEL_WINDOW
          Production,   \* the production cards: PROD_POS_WEIGHT 3/2, PROD_NEG_WEIGHT 1/2
          GenLevel,     \* the level each card was generated at
          NoLevel,      \* gen_level of imported cards
          Overrides,    \* scores a user asks for by hand
          MaxGrades     \* bound of the model: requests made in all

ASSUME GradingAssumption ==
  /\ Ratings \subseteq 1 .. 4 /\ Ratings # {}
  /\ LevelDelta \in [Ratings -> Int]
  /\ LevelMax \in Nat /\ LevelWindow \in Nat
  /\ GenLevel \in [Cards -> Nat \cup {NoLevel}] /\ NoLevel \notin Nat
  /\ Cards # {} /\ "override" \notin Cards /\ Overrides \subseteq Int
  /\ MaxGrades \in Nat

VARIABLES
  deck,      \* cards.fsrs_state, as the ratings it was computed from
  log,       \* reviews: the ratings committed for each card
  score,     \* proficiency.score; NoScore when there is no row
  present,   \* the language exists, and with it its cards
  asked,     \* requests made so far
  grade      \* the requests in hand

vars == <<deck, log, score, present, asked, grade>>
db   == <<deck, log, score, present>>

NoScore == -1
Idle == [pc |-> "idle", card |-> CHOOSE c \in Cards : TRUE, rating |-> CHOOSE r \in Ratings : TRUE,
         state |-> <<>>, read |-> 0, new |-> 0, since |-> {}]

Init == /\ deck = [c \in Cards |-> <<>>]
        /\ log = [c \in Cards |-> <<>>]
        /\ score = NoScore
        /\ present = TRUE
        /\ asked = 0
        /\ grade = [h \in Handlers |-> Idle]

At(h, stage) == grade[h].pc = stage
Become(h, g) == grade' = [grade EXCEPT ![h] = g]
Goto(h, stage) == Become(h, [grade[h] EXCEPT !.pc = stage])

-----------------------------------------------------------------------------
(* register_review, clamped to the scale.                                  *)
Clamp(s) == IF s < 0 THEN 0 ELSE IF s > LevelMax THEN LevelMax ELSE s

FarFrom(s, c) == /\ GenLevel[c] # NoLevel
                 /\ GenLevel[c] - s > LevelWindow \/ s - GenLevel[c] > LevelWindow

Nudge(r, c) == LET d == LevelDelta[r]
               IN  IF c \notin Production THEN d
                   ELSE IF d > 0 THEN (3 * d) \div 2 ELSE d \div 2

RegisterReview(s, r, c) == IF FarFrom(s, c) \/ Nudge(r, c) = 0 THEN s ELSE Clamp(s + Nudge(r, c))

-----------------------------------------------------------------------------
(* The rows an uncommitted transaction has updated are locked by it. *)
HoldsCard(h) == grade[h].pc \in {"score", "upsert", "commit"}
CardLocked(c) == \E h \in Handlers : HoldsCard(h) /\ grade[h].card = c

HoldsScore(h) == At(h, "commit") /\ grade[h].new # grade[h].read
ScoreLocked == \E h \in Handlers : HoldsScore(h)

(* A rating outside 1..4 is refused before anything is read and left out.  *)
Ask(h) ==
  /\ At(h, "idle")
  /\ asked < MaxGrades
  /\ asked' = asked + 1
  /\ \E c \in Cards, r \in Ratings :
       Become(h, [Idle EXCEPT !.pc = "load", !.card = c, !.rating = r])
  /\ UNCHANGED db

(* The card is read without a lock; a card that is gone is a 404. *)
Load(h) ==
  /\ At(h, "load")
  /\ IF present THEN Become(h, [grade[h] EXCEPT !.pc = "update", !.state = deck[grade[h].card]])
                ELSE Become(h, Idle)
  /\ UNCHANGED <<db, asked>>

(* The reschedule is not flushed before the score is read. *)
RescheduleLate(h) ==
  /\ At(h, "update")
  /\ IF present THEN Goto(h, "score") ELSE Become(h, Idle)
  /\ UNCHANGED <<db, asked>>

(* apply_rating, the UPDATE of the card and the INSERT of the review.  The *)
(* UPDATE of a card deleted meanwhile matches no row, which is an error.   *)
Reschedule(h) ==
  /\ At(h, "update")
  /\ ~CardLocked(grade[h].card)
  /\ IF present THEN Goto(h, "score") ELSE Become(h, Idle)
  /\ UNCHANGED <<db, asked>>

(* get_score and register_review: the score is read without a lock. *)
ReadScore(h) ==
  /\ At(h, "score")
  /\ LET read == IF score = NoScore THEN 0 ELSE score
         new  == RegisterReview(read, grade[h].rating, grade[h].card)
     IN  Become(h, [grade[h] EXCEPT !.pc = IF new = read THEN "commit" ELSE "upsert",
                                    !.read = read, !.new = new])
  /\ UNCHANGED <<db, asked>>

(* The upsert takes a lock on all the user's rows. *)
UpsertAlone(h) ==
  /\ At(h, "upsert")
  /\ \A o \in Handlers \ {h} : ~HoldsCard(o)
  /\ Goto(h, "commit")
  /\ UNCHANGED <<db, asked>>

Upsert(h) ==
  /\ At(h, "upsert")
  /\ ~ScoreLocked
  /\ Goto(h, "commit")
  /\ UNCHANGED <<db, asked>>

(* The grades that have read the score, other than h's, remember who       *)
(* changed it since.                                                       *)
Tell(who, g) == IF g.pc \in {"upsert", "commit"} THEN [g EXCEPT !.since = @ \cup {who}] ELSE g

(* apply_rating: the new state of the card, from the old one. *)
ApplyRating(state, rating) == Append(state, rating)

UpdateSchedule(c, state) == deck' = [deck EXCEPT ![c] = state]
AddReview(c, rating)     == log' = [log EXCEPT ![c] = Append(@, rating)]

(* The review is logged and the new schedule is not saved. *)
CommitUnsaved(h) ==
  LET c == grade[h].card IN
  /\ At(h, "commit")
  /\ AddReview(c, grade[h].rating)
  /\ score' = IF HoldsScore(h) THEN grade[h].new ELSE score
  /\ Become(h, Idle)
  /\ UNCHANGED <<deck, present, asked>>

(* The rating is applied twice. *)
CommitReplaying(h) ==
  LET c == grade[h].card IN
  /\ At(h, "commit")
  /\ UpdateSchedule(c, ApplyRating(ApplyRating(deck[c], grade[h].rating), grade[h].rating))
  /\ AddReview(c, grade[h].rating)
  /\ score' = IF HoldsScore(h) THEN grade[h].new ELSE score
  /\ Become(h, Idle)
  /\ UNCHANGED <<present, asked>>

Commit(h) ==
  LET c == grade[h].card IN
  /\ At(h, "commit")
  /\ UpdateSchedule(c, ApplyRating(grade[h].state, grade[h].rating))
  /\ AddReview(c, grade[h].rating)
  /\ score' = IF HoldsScore(h) THEN grade[h].new ELSE score
  /\ grade' = [o \in Handlers |-> IF o = h THEN Idle
                                  ELSE IF HoldsScore(h) THEN Tell(c, grade[o]) ELSE grade[o]]
  /\ UNCHANGED <<present, asked>>

(* The request fails, is cancelled, or its process dies: a rollback. *)
Fail(h) ==
  /\ ~At(h, "idle")
  /\ Become(h, Idle)
  /\ UNCHANGED <<db, asked>>

(* PUT /proficiency: set_score clamps, and upserts whatever the row holds. *)
Override(s) ==
  /\ present /\ ~ScoreLocked
  /\ score' = Clamp(s)
  /\ grade' = [h \in Handlers |-> Tell("override", grade[h])]
  /\ UNCHANGED <<deck, log, present, asked>>

(* DELETE /languages/{id}: the cascade waits for every row lock. *)
RemoveLanguage ==
  /\ present /\ ~ScoreLocked
  /\ \A c \in Cards : ~CardLocked(c)
  /\ present' = FALSE
  /\ deck' = [c \in Cards |-> <<>>]
  /\ log' = [c \in Cards |-> <<>>]
  /\ score' = NoScore
  /\ UNCHANGED <<asked, grade>>

Advance(h) == Load(h) \/ Reschedule(h) \/ ReadScore(h) \/ Upsert(h) \/ Commit(h)

Next == \/ \E h \in Handlers : Ask(h) \/ Advance(h) \/ Fail(h)
        \/ \E s \in Overrides : Override(s)
        \/ RemoveLanguage

Spec == Init /\ [][Next]_vars

(* Statements return, and Postgres grants a row lock in the order of the   *)
(* waiting, so a handler that waits for one gets it.                       *)
FairSpec == Spec /\ \A h \in Handlers : SF_vars(Advance(h))

-----------------------------------------------------------------------------
Stages == {"idle", "load", "update", "score", "upsert", "commit"}

Grade == [pc : Stages, card : Cards, rating : Ratings, state : Seq(Ratings), read : 0 .. LevelMax,
          new : 0 .. LevelMax, since : SUBSET (Cards \cup {"override"})]

(* The level stays on the CEFR scale whatever is graded or set.            *)
TypeOK == /\ deck \in [Cards -> Seq(Ratings)]
          /\ log \in [Cards -> Seq(Ratings)]
          /\ score \in (0 .. LevelMax) \cup {NoScore}
          /\ present \in BOOLEAN
          /\ asked \in Nat
          /\ grade \in [Handlers -> Grade]

(* A grade's nudge of the level can be lost, since nothing locks the score *)
(* between get_score and upsert: but only to a grade of another card or to *)
(* an override.  Two grades of one card, such as a request repeated when   *)
(* its answer was lost, move the level one after the other, because grade  *)
(* flushes the card's UPDATE before it reads the score.                    *)
SameCardSerial ==
  \A h \in Handlers : grade[h].pc \in {"upsert", "commit"} => grade[h].card \notin grade[h].since

(* The schedule of a card can miss a grade that ran at the same time, but  *)
(* it always ends with the latest one logged, and it is new (never         *)
(* reviewed) exactly when its review log is empty.                         *)
LatestGradeCounts ==
  \A c \in Cards : /\ (deck[c] = <<>>) = (log[c] = <<>>)
                   /\ log[c] # <<>> => deck[c][Len(deck[c])] = log[c][Len(log[c])]

Embeds(s, t) == \E at \in [DOMAIN s -> DOMAIN t] :
                  \A i, j \in DOMAIN s : s[i] = t[at[i]] /\ (i < j => at[i] < at[j])

(* A card's schedule is computed from grades that were logged, each once   *)
(* and in the order they were logged: one that was lost leaves a gap, but  *)
(* none is applied twice.                                                  *)
ScheduleFromLog == \A c \in Cards : Embeds(deck[c], log[c])

(* Every grade ends, also when all of them want the same rows: the card's  *)
(* lock is always taken before the level's.                                *)
EveryGradeEnds == \A h \in Handlers : ~At(h, "idle") ~> At(h, "idle")
=============================================================================
