--------------------------- MODULE GradingProofs ---------------------------
(* Theorems about grading, for any number of requests and cards, any       *)
(* weights of the ratings and any overrides.                               *)
EXTENDS Grading, ReviewSession, SequenceTheorems, WellFoundedInduction, TLAPS

(* The level never leaves the scale.                                       *)
LEMMA ClampType == ASSUME NEW n \in Int PROVE Clamp(n) \in 0 .. LevelMax
BY GradingAssumption DEF Clamp

LEMMA RegisterType ==
  ASSUME NEW s \in 0 .. LevelMax, NEW r \in Ratings, NEW c \in Cards
  PROVE  RegisterReview(s, r, c) \in 0 .. LevelMax
<1>1. LevelDelta[r] \in Int
  BY GradingAssumption
<1>2. Nudge(r, c) \in Int
  BY <1>1 DEF Nudge
<1>3. s + Nudge(r, c) \in Int
  BY <1>2, GradingAssumption
<1>4. QED
  BY <1>3, ClampType DEF RegisterReview

LEMMA IdleType == Idle \in Grade
<1>1. (CHOOSE c \in Cards : TRUE) \in Cards /\ (CHOOSE r \in Ratings : TRUE) \in Ratings
  BY GradingAssumption
<1>2. QED
  BY <1>1, GradingAssumption DEF Idle, Grade, Stages

(* Whoever a grade is told of, it stays a grade.                           *)
LEMMA TellType ==
  ASSUME NEW g \in Grade, NEW who \in Cards \cup {"override"}
  PROVE  Tell(who, g) \in Grade
BY DEF Tell, Grade

(* A step that only moves one request to another grade keeps the types.    *)
LEMMA BecomeType ==
  ASSUME TypeOK, NEW h \in Handlers, NEW g \in Grade, Become(h, g), UNCHANGED db, asked' \in Nat
  PROVE  TypeOK'
BY DEF TypeOK, Become, db

LEMMA GotoType ==
  ASSUME TypeOK, NEW h \in Handlers, NEW stage \in Stages, Goto(h, stage), UNCHANGED <<db, asked>>
  PROVE  TypeOK'
<1>1. grade[h] \in Grade
  BY DEF TypeOK
<1>2. [grade[h] EXCEPT !.pc = stage] \in Grade
  BY <1>1 DEF Grade
<1>3. QED
  BY <1>2, BecomeType DEF Goto, TypeOK

-----------------------------------------------------------------------------
LEMMA TypeInit == Init => TypeOK
<1> SUFFICES ASSUME Init PROVE TypeOK
  OBVIOUS
<1>1. grade \in [Handlers -> Grade]
  BY IdleType DEF Init
<1>2. <<>> \in Seq(Ratings)
  OBVIOUS
<1>3. QED
  BY <1>1, <1>2 DEF Init, TypeOK

LEMMA TypeStep == TypeOK /\ [Next]_vars => TypeOK'
<1> SUFFICES ASSUME TypeOK, [Next]_vars PROVE TypeOK'
  OBVIOUS
<1>1. ASSUME NEW h \in Handlers, Ask(h) PROVE TypeOK'
  <2>1. PICK c \in Cards, r \in Ratings :
          Become(h, [Idle EXCEPT !.pc = "load", !.card = c, !.rating = r])
    BY <1>1 DEF Ask
  <2>2. [Idle EXCEPT !.pc = "load", !.card = c, !.rating = r] \in Grade
    BY IdleType DEF Grade, Stages
  <2>3. QED
    BY <1>1, <2>1, <2>2, BecomeType DEF Ask, TypeOK
<1>2. ASSUME NEW h \in Handlers, Load(h) PROVE TypeOK'
  <2>1. grade[h] \in Grade /\ deck[grade[h].card] \in Seq(Ratings)
    BY DEF TypeOK, Grade
  <2>2. [grade[h] EXCEPT !.pc = "update", !.state = deck[grade[h].card]] \in Grade
    BY <2>1 DEF Grade, Stages
  <2>3. QED
    BY <1>2, <2>2, IdleType, BecomeType DEF Load, TypeOK
<1>3. ASSUME NEW h \in Handlers, Reschedule(h) PROVE TypeOK'
  <2>1. CASE present
    BY <1>3, <2>1, GotoType DEF Reschedule, Stages
  <2>2. CASE ~present
    BY <1>3, <2>2, IdleType, BecomeType DEF Reschedule, TypeOK
  <2>3. QED
    BY <2>1, <2>2
<1>4. ASSUME NEW h \in Handlers, ReadScore(h) PROVE TypeOK'
  <2> DEFINE read == IF score = NoScore THEN 0 ELSE score
             new  == RegisterReview(read, grade[h].rating, grade[h].card)
             next == [grade[h] EXCEPT !.pc = IF new = read THEN "commit" ELSE "upsert",
                                      !.read = read, !.new = new]
  <2>1. grade[h] \in Grade
    BY DEF TypeOK
  <2>2. read \in 0 .. LevelMax
    BY GradingAssumption DEF TypeOK
  <2>3. new \in 0 .. LevelMax
    BY <2>1, <2>2, RegisterType DEF Grade
  <2>4. next \in Grade
    <3> HIDE DEF read, new
    <3>1. QED
      BY <2>1, <2>2, <2>3 DEF Grade, Stages
  <2>5. Become(h, next)
    BY <1>4 DEF ReadScore
  <2> HIDE DEF next
  <2>6. QED
    BY <1>4, <2>4, <2>5, BecomeType DEF ReadScore, TypeOK
<1>5. ASSUME NEW h \in Handlers, Upsert(h) PROVE TypeOK'
  BY <1>5, GotoType DEF Upsert, Stages
<1>6. ASSUME NEW h \in Handlers, Commit(h) PROVE TypeOK'
  <2>1. grade[h] \in Grade /\ grade[h].card \in Cards /\ grade[h].rating \in Ratings
        /\ grade[h].state \in Seq(Ratings) /\ grade[h].new \in 0 .. LevelMax
    BY DEF TypeOK, Grade
  <2>2. Append(grade[h].state, grade[h].rating) \in Seq(Ratings)
    BY <2>1
  <2>3. deck' \in [Cards -> Seq(Ratings)]
    BY <1>6, <2>2 DEF Commit, UpdateSchedule, AddReview, ApplyRating, TypeOK
  <2>4. log' \in [Cards -> Seq(Ratings)]
    BY <1>6, <2>1 DEF Commit, UpdateSchedule, AddReview, ApplyRating, TypeOK
  <2>5. score' \in (0 .. LevelMax) \cup {NoScore}
    BY <1>6, <2>1 DEF Commit, UpdateSchedule, AddReview, ApplyRating, TypeOK
  <2>6. grade' \in [Handlers -> Grade]
    BY <1>6, <2>1, IdleType, TellType DEF Commit, UpdateSchedule, AddReview, ApplyRating, TypeOK
  <2>7. QED
    BY <1>6, <2>3, <2>4, <2>5, <2>6 DEF Commit, UpdateSchedule, AddReview, ApplyRating, TypeOK
<1>7. ASSUME NEW h \in Handlers, Fail(h) PROVE TypeOK'
  BY <1>7, IdleType, BecomeType DEF Fail, TypeOK
<1>8. ASSUME NEW s \in Overrides, Override(s) PROVE TypeOK'
  <2>1. score' \in 0 .. LevelMax
    BY <1>8, ClampType, GradingAssumption DEF Override
  <2>2. grade' \in [Handlers -> Grade]
    BY <1>8, TellType DEF Override, TypeOK
  <2>3. QED
    BY <1>8, <2>1, <2>2 DEF Override, TypeOK
<1>9. ASSUME RemoveLanguage PROVE TypeOK'
  <2>1. [c \in Cards |-> <<>>] \in [Cards -> Seq(Ratings)]
    OBVIOUS
  <2>2. deck' \in [Cards -> Seq(Ratings)] /\ log' \in [Cards -> Seq(Ratings)]
    BY <1>9, <2>1 DEF RemoveLanguage
  <2>3. UNCHANGED <<asked, grade>> /\ present' = FALSE /\ score' = NoScore
    BY <1>9 DEF RemoveLanguage
  <2>4. QED
    BY <2>2, <2>3 DEF TypeOK
<1>10. CASE UNCHANGED vars
  BY <1>10 DEF vars, TypeOK
<1>11. QED
  BY <1>1, <1>2, <1>3, <1>4, <1>5, <1>6, <1>7, <1>8, <1>9, <1>10 DEF Next, Advance

(* The level, the schedules and the log keep their types: in particular    *)
(* the level stays on the scale whatever is graded, lost or set by hand.   *)
THEOREM GradingType == Spec => []TypeOK
BY TypeInit, TypeStep, PTL DEF Spec

-----------------------------------------------------------------------------
LEMMA TellKeeps ==
  ASSUME NEW g \in Grade, NEW who
  PROVE  /\ Tell(who, g).pc = g.pc /\ Tell(who, g).card = g.card /\ Tell(who, g).state = g.state
         /\ Tell(who, g).since \subseteq g.since \cup {who}
         /\ g.pc \notin {"upsert", "commit"} => Tell(who, g).since = g.since
<1>1. CASE g.pc \in {"upsert", "commit"}
  <2>1. Tell(who, g) = [g EXCEPT !.since = g.since \cup {who}]
    BY <1>1 DEF Tell
  <2>2. QED
    BY <1>1, <2>1 DEF Grade
<1>2. CASE g.pc \notin {"upsert", "commit"}
  BY <1>2 DEF Tell
<1>3. QED
  BY <1>1, <1>2

(* Two grades of one card never overlap: the row lock taken by the UPDATE  *)
(* is held until the transaction ends.  A grade that has not read the      *)
(* level has nobody to remember.                                           *)
CardExclusive == \A h, o \in Handlers :
                   HoldsCard(h) /\ HoldsCard(o) /\ grade[h].card = grade[o].card => h = o
SinceEmpty == \A h \in Handlers : grade[h].pc \notin {"upsert", "commit"} => grade[h].since = {}

SerialInv == CardExclusive /\ SinceEmpty /\ SameCardSerial

(* What one request's step to g has to respect.                            *)
LEMMA BecomeSerial ==
  ASSUME TypeOK, SerialInv, NEW h \in Handlers, NEW g, Become(h, g),
         g.pc \in {"score", "upsert", "commit"} => (HoldsCard(h) /\ g.card = grade[h].card)
           \/ \A o \in Handlers : HoldsCard(o) => grade[o].card # g.card,
         g.since = {} \/ (g.pc \in {"upsert", "commit"} /\ grade[h].pc \in {"upsert", "commit"}
                          /\ g.since = grade[h].since /\ g.card = grade[h].card)
  PROVE  SerialInv'
<1>1. \A o \in Handlers : grade'[o] = IF o = h THEN g ELSE grade[o]
  BY DEF Become, TypeOK
<1>2. CardExclusive'
  BY <1>1 DEF SerialInv, CardExclusive, HoldsCard
<1>3. SinceEmpty'
  BY <1>1 DEF SerialInv, SinceEmpty
<1>4. SameCardSerial'
  BY <1>1 DEF SerialInv, SameCardSerial
<1>5. QED
  BY <1>2, <1>3, <1>4 DEF SerialInv

LEMMA IdleSerial ==
  ASSUME TypeOK, SerialInv, NEW h \in Handlers, Become(h, Idle)
  PROVE  SerialInv'
<1>1. Idle.pc = "idle" /\ Idle.since = {}
  BY DEF Idle
<1>2. QED
  BY <1>1, BecomeSerial

LEMMA SerialStep == TypeOK /\ SerialInv /\ [Next]_vars => SerialInv'
<1> SUFFICES ASSUME TypeOK, SerialInv, [Next]_vars PROVE SerialInv'
  OBVIOUS
<1>0. \A h \in Handlers : grade[h] \in Grade
  BY DEF TypeOK
<1>1. ASSUME NEW h \in Handlers, Ask(h) PROVE SerialInv'
  <2>1. PICK c \in Cards, r \in Ratings :
          Become(h, [Idle EXCEPT !.pc = "load", !.card = c, !.rating = r])
    BY <1>1 DEF Ask
  <2> DEFINE g == [Idle EXCEPT !.pc = "load", !.card = c, !.rating = r]
  <2>2. g.pc = "load" /\ g.since = {}
    BY DEF Idle
  <2> HIDE DEF g
  <2>3. QED
    BY <2>1, <2>2, BecomeSerial DEF g
<1>2. ASSUME NEW h \in Handlers, Load(h) PROVE SerialInv'
  <2> DEFINE g == [grade[h] EXCEPT !.pc = "update", !.state = deck[grade[h].card]]
  <2>1. g.pc = "update" /\ g.since = grade[h].since
    BY <1>0 DEF Grade
  <2>2. grade[h].since = {}
    BY <1>2 DEF Load, At, SerialInv, SinceEmpty
  <2> HIDE DEF g
  <2>3. Become(h, Idle) \/ Become(h, g)
    BY <1>2 DEF Load, g
  <2>4. QED
    BY <2>1, <2>2, <2>3, BecomeSerial, IdleSerial
<1>3. ASSUME NEW h \in Handlers, Reschedule(h) PROVE SerialInv'
  <2> DEFINE g == [grade[h] EXCEPT !.pc = "score"]
  <2>1. g.pc = "score" /\ g.since = grade[h].since /\ g.card = grade[h].card
    BY <1>0 DEF Grade
  <2>2. grade[h].since = {}
    BY <1>3 DEF Reschedule, At, SerialInv, SinceEmpty
  <2>3. \A o \in Handlers : HoldsCard(o) => grade[o].card # grade[h].card
    BY <1>3 DEF Reschedule, CardLocked
  <2> HIDE DEF g
  <2>4. Become(h, Idle) \/ Become(h, g)
    BY <1>3 DEF Reschedule, Goto, g
  <2>5. QED
    BY <2>1, <2>2, <2>3, <2>4, BecomeSerial, IdleSerial
<1>4. ASSUME NEW h \in Handlers, ReadScore(h) PROVE SerialInv'
  <2> DEFINE r     == IF score = NoScore THEN 0 ELSE score
             n     == RegisterReview(r, grade[h].rating, grade[h].card)
             stage == IF n = r THEN "commit" ELSE "upsert"
  <2>1. stage \in {"upsert", "commit"} /\ Become(h, [grade[h] EXCEPT !.pc = stage, !.read = r, !.new = n])
    BY <1>4 DEF ReadScore
  <2> HIDE DEF r, n, stage
  <2> DEFINE g == [grade[h] EXCEPT !.pc = stage, !.read = r, !.new = n]
  <2>2. g.pc = stage /\ g.since = grade[h].since /\ g.card = grade[h].card
    BY <1>0 DEF Grade
  <2>3. grade[h].since = {} /\ HoldsCard(h)
    BY <1>4 DEF ReadScore, At, SerialInv, SinceEmpty, HoldsCard
  <2> HIDE DEF g
  <2>4. QED
    BY <2>1, <2>2, <2>3, BecomeSerial DEF g
<1>5. ASSUME NEW h \in Handlers, Upsert(h) PROVE SerialInv'
  <2> DEFINE g == [grade[h] EXCEPT !.pc = "commit"]
  <2>1. g.pc = "commit" /\ g.since = grade[h].since /\ g.card = grade[h].card
    BY <1>0 DEF Grade
  <2>2. grade[h].pc = "upsert" /\ HoldsCard(h)
    BY <1>5 DEF Upsert, At, HoldsCard
  <2> HIDE DEF g
  <2>3. Become(h, g)
    BY <1>5 DEF Upsert, Goto, g
  <2>4. QED
    BY <2>1, <2>2, <2>3, BecomeSerial
<1>6. ASSUME NEW h \in Handlers, Commit(h) PROVE SerialInv'
  <2> DEFINE c == grade[h].card
  <2>1. \A o \in Handlers : \/ grade'[o] = Idle
                            \/ o # h /\ grade'[o] = grade[o]
                            \/ o # h /\ grade'[o] = Tell(c, grade[o])
    BY <1>6 DEF Commit, UpdateSchedule, AddReview, ApplyRating
  <2>2. HoldsCard(h)
    BY <1>6 DEF Commit, UpdateSchedule, AddReview, ApplyRating, At, HoldsCard
  <2>3. \A o \in Handlers : o # h /\ HoldsCard(o) => grade[o].card # c
    BY <2>2 DEF SerialInv, CardExclusive
  <2>4. Idle.pc = "idle" /\ Idle.since = {}
    BY DEF Idle
  <2> HIDE DEF c
  <2>5. CardExclusive'
    BY <1>0, <2>1, <2>4, TellKeeps DEF SerialInv, CardExclusive, HoldsCard
  <2>6. SinceEmpty'
    BY <1>0, <2>1, <2>4, TellKeeps DEF SerialInv, SinceEmpty
  <2>7. SameCardSerial'
    BY <1>0, <2>1, <2>3, <2>4, TellKeeps DEF SerialInv, SameCardSerial, HoldsCard
  <2>8. QED
    BY <2>5, <2>6, <2>7 DEF SerialInv
<1>7. ASSUME NEW h \in Handlers, Fail(h) PROVE SerialInv'
  BY <1>7, IdleSerial DEF Fail
<1>8. ASSUME NEW s \in Overrides, Override(s) PROVE SerialInv'
  <2>1. \A o \in Handlers : grade'[o] = Tell("override", grade[o])
    BY <1>8 DEF Override
  <2>2. \A o \in Handlers : grade[o].card # "override"
    BY <1>0, GradingAssumption DEF Grade
  <2>3. CardExclusive'
    BY <1>0, <2>1, TellKeeps DEF SerialInv, CardExclusive, HoldsCard
  <2>4. SinceEmpty'
    BY <1>0, <2>1, TellKeeps DEF SerialInv, SinceEmpty
  <2>5. SameCardSerial'
    BY <1>0, <2>1, <2>2, TellKeeps DEF SerialInv, SameCardSerial
  <2>6. QED
    BY <2>3, <2>4, <2>5 DEF SerialInv
<1>9. ASSUME UNCHANGED grade PROVE SerialInv'
  BY <1>9 DEF SerialInv, CardExclusive, HoldsCard, SinceEmpty, SameCardSerial
<1>10. RemoveLanguage \/ UNCHANGED vars => UNCHANGED grade
  BY DEF RemoveLanguage, vars
<1>11. QED
  BY <1>1, <1>2, <1>3, <1>4, <1>5, <1>6, <1>7, <1>8, <1>9, <1>10 DEF Next, Advance

(* Between a grade's read of the level and its write, no other grade of    *)
(* the same card has written it: a repeated request never loses its nudge  *)
(* to its own first attempt.                                               *)
THEOREM SameCardIsSerial == Spec => []SameCardSerial
<1>1. Init => SerialInv
  BY DEF Init, Idle, SerialInv, CardExclusive, HoldsCard, SinceEmpty, SameCardSerial
<1>2. SerialInv => SameCardSerial
  BY DEF SerialInv
<1>3. QED
  BY <1>1, <1>2, SerialStep, GradingType, PTL DEF Spec

-----------------------------------------------------------------------------
(* Only a commit and the removal of the language touch schedules and logs. *)
LEMMA OthersLeaveDeck ==
  ASSUME [Next]_vars, \A h \in Handlers : ~Commit(h), ~RemoveLanguage
  PROVE  UNCHANGED <<deck, log, present>>
BY DEF Next, Advance, Ask, Load, Reschedule, ReadScore, Upsert, Fail, Override, vars, db

LEMMA LatestStep == TypeOK /\ LatestGradeCounts /\ [Next]_vars => LatestGradeCounts'
<1> SUFFICES ASSUME TypeOK, LatestGradeCounts, [Next]_vars, NEW c \in Cards
             PROVE  /\ (deck'[c] = <<>>) = (log'[c] = <<>>)
                    /\ log'[c] # <<>> => deck'[c][Len(deck'[c])] = log'[c][Len(log'[c])]
  BY DEF LatestGradeCounts
<1>1. ASSUME NEW h \in Handlers, Commit(h)
      PROVE  /\ (deck'[c] = <<>>) = (log'[c] = <<>>)
             /\ log'[c] # <<>> => deck'[c][Len(deck'[c])] = log'[c][Len(log'[c])]
  <2>1. grade[h].state \in Seq(Ratings) /\ log[c] \in Seq(Ratings) /\ grade[h].rating \in Ratings
    BY DEF TypeOK, Grade
  <2>2. ASSUME NEW s \in Seq(Ratings), NEW r \in Ratings
        PROVE  Append(s, r) # <<>> /\ Append(s, r)[Len(Append(s, r))] = r
    BY <2>2
  <2>3. CASE c = grade[h].card
    <3>1. deck'[c] = Append(grade[h].state, grade[h].rating)
          /\ log'[c] = Append(log[c], grade[h].rating)
      BY <1>1, <2>3 DEF Commit, UpdateSchedule, AddReview, ApplyRating, TypeOK
    <3>2. QED
      BY <2>1, <2>2, <3>1
  <2>4. CASE c # grade[h].card
    <3>1. deck'[c] = deck[c] /\ log'[c] = log[c]
      BY <1>1, <2>4 DEF Commit, UpdateSchedule, AddReview, ApplyRating, TypeOK
    <3>2. QED
      BY <3>1 DEF LatestGradeCounts
  <2>5. QED
    BY <2>3, <2>4
<1>2. CASE RemoveLanguage
  BY <1>2 DEF RemoveLanguage
<1>3. CASE UNCHANGED <<deck, log>>
  BY <1>3 DEF LatestGradeCounts
<1>4. QED
  BY <1>1, <1>2, <1>3, OthersLeaveDeck

(* However grades of one card overlap, its schedule ends with the latest   *)
(* grade logged.                                                           *)
THEOREM LatestCounts == Spec => []LatestGradeCounts
<1>1. Init => LatestGradeCounts
  BY DEF Init, LatestGradeCounts
<1>2. QED
  BY <1>1, LatestStep, GradingType, PTL DEF Spec

-----------------------------------------------------------------------------
LEMMA EmbedsEmpty == ASSUME NEW t \in Seq(Ratings) PROVE Embeds(<<>>, t)
<1>1. [i \in {} |-> i] \in [{} -> DOMAIN t]
  OBVIOUS
<1>2. DOMAIN <<>> = {}
  OBVIOUS
<1>3. QED
  BY <1>1, <1>2 DEF Embeds

(* An embedding survives what is appended to the log.                      *)
LEMMA EmbedsGrows ==
  ASSUME NEW s \in Seq(Ratings), NEW t \in Seq(Ratings), NEW r \in Ratings, Embeds(s, t)
  PROVE  Embeds(s, Append(t, r))
<1>1. PICK at \in [DOMAIN s -> DOMAIN t] :
        \A i, j \in DOMAIN s : s[i] = t[at[i]] /\ (i < j => at[i] < at[j])
  BY DEF Embeds
<1>2. DOMAIN t \subseteq DOMAIN Append(t, r) /\ \A i \in DOMAIN t : Append(t, r)[i] = t[i]
  OBVIOUS
<1>3. at \in [DOMAIN s -> DOMAIN Append(t, r)]
  BY <1>2
<1>4. \A i, j \in DOMAIN s : s[i] = Append(t, r)[at[i]] /\ (i < j => at[i] < at[j])
  BY <1>1, <1>2
<1>5. QED
  BY <1>3, <1>4 DEF Embeds

(* The same rating at the end of both goes to the same place.              *)
LEMMA EmbedsBoth ==
  ASSUME NEW s \in Seq(Ratings), NEW t \in Seq(Ratings), NEW r \in Ratings, Embeds(s, t)
  PROVE  Embeds(Append(s, r), Append(t, r))
<1>1. PICK at \in [DOMAIN s -> DOMAIN t] :
        \A i, j \in DOMAIN s : s[i] = t[at[i]] /\ (i < j => at[i] < at[j])
  BY DEF Embeds
<1> DEFINE n == Len(s) + 1
           m == Len(t) + 1
           to == [i \in 1 .. n |-> IF i = n THEN m ELSE at[i]]
<1>2. /\ DOMAIN s = 1 .. n - 1 /\ DOMAIN Append(s, r) = 1 .. n /\ Append(s, r)[n] = r
      /\ \A i \in 1 .. n - 1 : Append(s, r)[i] = s[i]
  OBVIOUS
<1>3. /\ DOMAIN t = 1 .. m - 1 /\ DOMAIN Append(t, r) = 1 .. m /\ Append(t, r)[m] = r
      /\ \A i \in 1 .. m - 1 : Append(t, r)[i] = t[i]
  OBVIOUS
<1>4. n \in Nat \ {0} /\ m \in Nat \ {0}
  OBVIOUS
<1> HIDE DEF n, m
<1>5. \A i \in 1 .. n - 1 : at[i] \in 1 .. m - 1
  BY <1>1, <1>2, <1>3
<1>6. to \in [1 .. n -> 1 .. m]
  BY <1>4, <1>5
<1>7. ASSUME NEW i \in 1 .. n, NEW j \in 1 .. n
      PROVE  Append(s, r)[i] = Append(t, r)[to[i]] /\ (i < j => to[i] < to[j])
  <2>1. CASE i = n
    <3>1. to[i] = m /\ ~(i < j)
      BY <1>4, <2>1
    <3>2. QED
      BY <1>2, <1>3, <2>1, <3>1
  <2>2. CASE i # n
    <3>1. i \in 1 .. n - 1 /\ to[i] = at[i] /\ at[i] \in 1 .. m - 1
      BY <1>4, <1>5, <2>2
    <3>2. Append(s, r)[i] = Append(t, r)[to[i]]
      BY <1>1, <1>2, <1>3, <3>1
    <3>3. CASE j = n
      BY <1>4, <3>1, <3>2, <3>3
    <3>4. CASE j # n
      <4>1. j \in 1 .. n - 1 /\ to[j] = at[j]
        BY <1>4, <3>4
      <4>2. QED
        BY <1>1, <1>2, <3>1, <3>2, <4>1
    <3>5. QED
      BY <3>3, <3>4
  <2>3. QED
    BY <2>1, <2>2
<1> HIDE DEF to
<1>8. QED
  BY <1>2, <1>3, <1>6, <1>7 DEF Embeds

(* What a grade in hand has read is part of the log as well; and nobody    *)
(* holds a card of a removed language.                                     *)
ReadFromLog == \A h \in Handlers : present /\ grade[h].pc \in {"update", "score", "upsert", "commit"}
                                     => Embeds(grade[h].state, log[grade[h].card])
HeldIsPresent == \A h \in Handlers : HoldsCard(h) => present

LogInv == ScheduleFromLog /\ ReadFromLog /\ HeldIsPresent

(* A step that moves only h, to an idle grade or one with the same state.  *)
LEMMA BecomeLog ==
  ASSUME TypeOK, LogInv, NEW h \in Handlers, NEW g, Become(h, g), UNCHANGED <<deck, log, present>>,
         g.pc \in {"update", "score", "upsert", "commit"} /\ present => Embeds(g.state, log[g.card]),
         g.pc \in {"score", "upsert", "commit"} => present
  PROVE  LogInv'
<1>1. \A o \in Handlers : grade'[o] = IF o = h THEN g ELSE grade[o]
  BY DEF Become, TypeOK
<1>2. ScheduleFromLog'
  BY DEF LogInv, ScheduleFromLog
<1>3. ReadFromLog'
  BY <1>1 DEF LogInv, ReadFromLog
<1>4. HeldIsPresent'
  BY <1>1 DEF LogInv, HeldIsPresent, HoldsCard
<1>5. QED
  BY <1>2, <1>3, <1>4 DEF LogInv

LEMMA IdleLog ==
  ASSUME TypeOK, LogInv, NEW h \in Handlers, Become(h, Idle), UNCHANGED <<deck, log, present>>
  PROVE  LogInv'
<1>1. Idle.pc = "idle"
  BY DEF Idle
<1>2. QED
  BY <1>1, BecomeLog

LEMMA LogStep == TypeOK /\ LogInv /\ [Next]_vars => LogInv'
<1> SUFFICES ASSUME TypeOK, LogInv, [Next]_vars PROVE LogInv'
  OBVIOUS
<1>0. \A h \in Handlers : grade[h] \in Grade
  BY DEF TypeOK
<1>1. ASSUME NEW h \in Handlers, Ask(h) PROVE LogInv'
  <2>1. PICK c \in Cards, r \in Ratings :
          Become(h, [Idle EXCEPT !.pc = "load", !.card = c, !.rating = r])
    BY <1>1 DEF Ask
  <2> DEFINE g == [Idle EXCEPT !.pc = "load", !.card = c, !.rating = r]
  <2>2. g.pc = "load"
    BY DEF Idle
  <2> HIDE DEF g
  <2>3. QED
    BY <1>1, <2>1, <2>2, BecomeLog DEF g, Ask, db
<1>2. ASSUME NEW h \in Handlers, Load(h) PROVE LogInv'
  <2> DEFINE g == [grade[h] EXCEPT !.pc = "update", !.state = deck[grade[h].card]]
  <2>1. g.pc = "update" /\ g.card = grade[h].card /\ g.state = deck[grade[h].card]
        /\ grade[h].card \in Cards
    BY <1>0 DEF Grade
  <2>2. Embeds(deck[grade[h].card], log[grade[h].card])
    BY <2>1 DEF LogInv, ScheduleFromLog
  <2> HIDE DEF g
  <2>3. Become(h, Idle) \/ Become(h, g)
    BY <1>2 DEF Load, g
  <2>4. QED
    BY <1>2, <2>1, <2>2, <2>3, BecomeLog, IdleLog DEF Load, db
<1>3. ASSUME NEW h \in Handlers, Reschedule(h) PROVE LogInv'
  <2> DEFINE g == [grade[h] EXCEPT !.pc = "score"]
  <2>1. g.pc = "score" /\ g.card = grade[h].card /\ g.state = grade[h].state
    BY <1>0 DEF Grade
  <2>2. present => Embeds(grade[h].state, log[grade[h].card])
    BY <1>3 DEF Reschedule, At, LogInv, ReadFromLog
  <2> HIDE DEF g
  <2>3. Become(h, Idle) \/ (present /\ Become(h, g))
    BY <1>3 DEF Reschedule, Goto, g
  <2>4. QED
    BY <1>3, <2>1, <2>2, <2>3, BecomeLog, IdleLog DEF Reschedule, db
<1>4. ASSUME NEW h \in Handlers, ReadScore(h) PROVE LogInv'
  <2> DEFINE r     == IF score = NoScore THEN 0 ELSE score
             n     == RegisterReview(r, grade[h].rating, grade[h].card)
             stage == IF n = r THEN "commit" ELSE "upsert"
  <2>1. stage \in {"upsert", "commit"} /\ Become(h, [grade[h] EXCEPT !.pc = stage, !.read = r, !.new = n])
    BY <1>4 DEF ReadScore
  <2> HIDE DEF r, n, stage
  <2> DEFINE g == [grade[h] EXCEPT !.pc = stage, !.read = r, !.new = n]
  <2>2. g.pc = stage /\ g.card = grade[h].card /\ g.state = grade[h].state
    BY <1>0 DEF Grade
  <2>3. present /\ Embeds(grade[h].state, log[grade[h].card])
    BY <1>4 DEF ReadScore, At, HoldsCard, LogInv, HeldIsPresent, ReadFromLog
  <2> HIDE DEF g
  <2>4. QED
    BY <1>4, <2>1, <2>2, <2>3, BecomeLog DEF g, ReadScore, db
<1>5. ASSUME NEW h \in Handlers, Upsert(h) PROVE LogInv'
  <2> DEFINE g == [grade[h] EXCEPT !.pc = "commit"]
  <2>1. g.pc = "commit" /\ g.card = grade[h].card /\ g.state = grade[h].state
    BY <1>0 DEF Grade
  <2>2. present /\ Embeds(grade[h].state, log[grade[h].card])
    BY <1>5 DEF Upsert, At, HoldsCard, LogInv, HeldIsPresent, ReadFromLog
  <2> HIDE DEF g
  <2>3. Become(h, g)
    BY <1>5 DEF Upsert, Goto, g
  <2>4. QED
    BY <1>5, <2>1, <2>2, <2>3, BecomeLog DEF Upsert, db
<1>6. ASSUME NEW h \in Handlers, Commit(h) PROVE LogInv'
  <2> DEFINE c == grade[h].card
             r == grade[h].rating
             s == grade[h].state
  <2>1. c \in Cards /\ r \in Ratings /\ s \in Seq(Ratings) /\ log[c] \in Seq(Ratings)
    BY <1>0 DEF Grade, TypeOK
  <2>2. present /\ Embeds(s, log[c])
    BY <1>6 DEF Commit, UpdateSchedule, AddReview, ApplyRating, At, HoldsCard, LogInv, HeldIsPresent, ReadFromLog
  <2>3. /\ deck'[c] = Append(s, r) /\ log'[c] = Append(log[c], r)
        /\ \A d \in Cards \ {c} : deck'[d] = deck[d] /\ log'[d] = log[d]
    <3>1. /\ deck' = [deck EXCEPT ![c] = Append(s, r)]
          /\ log' = [log EXCEPT ![c] = Append(log[c], r)]
      BY <1>6 DEF Commit, UpdateSchedule, AddReview, ApplyRating
    <3>2. deck \in [Cards -> Seq(Ratings)] /\ log \in [Cards -> Seq(Ratings)]
      BY DEF TypeOK
    <3> HIDE DEF c, r, s
    <3>3. QED
      BY <2>1, <3>1, <3>2
  <2>4. present'
    BY <1>6, <2>2 DEF Commit, UpdateSchedule, AddReview, ApplyRating
  <2>5. \A o \in Handlers : \/ grade'[o] = Idle
                            \/ grade'[o] = grade[o]
                            \/ grade'[o] = Tell(c, grade[o])
    BY <1>6 DEF Commit, UpdateSchedule, AddReview, ApplyRating
  <2>6. Idle.pc = "idle"
    BY DEF Idle
  <2> HIDE DEF c, r, s
  <2>7. ScheduleFromLog'
    <3>1. Embeds(deck'[c], log'[c])
      BY <2>1, <2>2, <2>3, EmbedsBoth
    <3>2. \A d \in Cards \ {c} : Embeds(deck'[d], log'[d])
      BY <2>3 DEF LogInv, ScheduleFromLog
    <3>3. QED
      BY <3>1, <3>2 DEF ScheduleFromLog
  <2>8. ASSUME NEW o \in Handlers, grade[o].pc \in {"update", "score", "upsert", "commit"}
        PROVE  Embeds(grade[o].state, log'[grade[o].card])
    <3>1. Embeds(grade[o].state, log[grade[o].card])
      BY <2>2, <2>8 DEF LogInv, ReadFromLog
    <3>2. grade[o].state \in Seq(Ratings) /\ grade[o].card \in Cards
      BY <1>0 DEF Grade
    <3>3. QED
      BY <2>1, <2>3, <3>1, <3>2, EmbedsGrows
  <2>9. ReadFromLog'
    BY <1>0, <2>5, <2>6, <2>8, TellKeeps DEF ReadFromLog
  <2>10. HeldIsPresent'
    BY <2>4 DEF HeldIsPresent
  <2>11. QED
    BY <2>7, <2>9, <2>10 DEF LogInv
<1>7. ASSUME NEW h \in Handlers, Fail(h) PROVE LogInv'
  BY <1>7, IdleLog DEF Fail, db
<1>8. ASSUME NEW s \in Overrides, Override(s) PROVE LogInv'
  <2>1. \A o \in Handlers : grade'[o] = Tell("override", grade[o])
    BY <1>8 DEF Override
  <2>2. UNCHANGED <<deck, log, present>>
    BY <1>8 DEF Override
  <2>3. ScheduleFromLog'
    BY <2>2 DEF LogInv, ScheduleFromLog
  <2>4. ReadFromLog'
    BY <1>0, <2>1, <2>2, TellKeeps DEF LogInv, ReadFromLog
  <2>5. HeldIsPresent'
    BY <1>0, <2>1, <2>2, TellKeeps DEF LogInv, HeldIsPresent, HoldsCard
  <2>6. QED
    BY <2>3, <2>4, <2>5 DEF LogInv
<1>9. CASE RemoveLanguage
  <2>1. ScheduleFromLog'
    <3>1. \A c \in Cards : deck'[c] = <<>> /\ log'[c] = <<>>
      BY <1>9 DEF RemoveLanguage
    <3>2. <<>> \in Seq(Ratings)
      OBVIOUS
    <3>3. QED
      BY <3>1, <3>2, EmbedsEmpty DEF ScheduleFromLog
  <2>2. ReadFromLog'
    BY <1>9 DEF RemoveLanguage, ReadFromLog
  <2>3. \A h \in Handlers : ~HoldsCard(h)
    BY <1>0, <1>9 DEF RemoveLanguage, CardLocked, Grade
  <2>4. HeldIsPresent'
    BY <1>9, <2>3 DEF RemoveLanguage, HeldIsPresent, HoldsCard
  <2>5. QED
    BY <2>1, <2>2, <2>4 DEF LogInv
<1>10. CASE UNCHANGED vars
  BY <1>10 DEF vars, LogInv, ScheduleFromLog, ReadFromLog, HeldIsPresent, HoldsCard
<1>11. QED
  BY <1>1, <1>2, <1>3, <1>4, <1>5, <1>6, <1>7, <1>8, <1>9, <1>10 DEF Next, Advance

(* However grades, overrides and the removal of the language overlap, a    *)
(* schedule is computed from logged grades, each applied at most once and  *)
(* in the order of the log.                                                *)
THEOREM SchedulesFollowLog == Spec => []ScheduleFromLog
<1>1. Init => LogInv
  <2> SUFFICES ASSUME Init PROVE LogInv
    OBVIOUS
  <2>1. <<>> \in Seq(Ratings)
    OBVIOUS
  <2>2. ScheduleFromLog
    BY <2>1, EmbedsEmpty DEF Init, ScheduleFromLog
  <2>3. ReadFromLog /\ HeldIsPresent
    BY DEF Init, Idle, ReadFromLog, HeldIsPresent, HoldsCard
  <2>4. QED
    BY <2>2, <2>3 DEF LogInv
<1>2. LogInv => ScheduleFromLog
  BY DEF LogInv
<1>3. QED
  BY <1>1, <1>2, LogStep, GradingType, PTL DEF Spec

-----------------------------------------------------------------------------
(***************************************************************************)
(* The walk of the page these grades come from (ReviewSession): neither a  *)
(* name nor a step of it is shared with the above; the theorem about it is *)
(* for any deck, limits, requests in flight and number of arrivals.        *)
(***************************************************************************)

(* Every set of numbers has a least one: induction, without a predicate.   *)
Below == {p \in Nat \X Nat : p[1] < p[2]}

LEMMA BelowIsWellFounded == IsWellFoundedOn(Below, Nat)
<1>1. Below = OpToRel(<, Nat)
  BY DEF Below, OpToRel
<1>2. QED
  BY <1>1, NatLessThanWellFounded

LEMMA LeastNumber ==
  ASSUME NEW T, T \subseteq Nat, T # {}
  PROVE  \E x \in T : \A y \in T : x <= y
<1>1. PICK x \in T : \A y \in T : ~(<<y, x>> \in Below)
  BY BelowIsWellFounded, WFMin
<1>2. ASSUME NEW y \in T PROVE x <= y
  <2>1. x \in Nat /\ y \in Nat
    OBVIOUS
  <2>2. <<y, x>> \notin Below
    BY <1>1
  <2>3. QED
    BY <2>1, <2>2 DEF Below
<1>3. QED
  BY <1>2

(* What is so at 0 and goes from each number below n to the next is so     *)
(* up to n.                                                                *)
LEMMA UpTo ==
  ASSUME NEW n \in Nat, NEW T, 0 \in T, \A i \in 1 .. n : i - 1 \in T => i \in T
  PROVE  0 .. n \subseteq T
<1> SUFFICES ASSUME ~(0 .. n \subseteq T) PROVE FALSE
  OBVIOUS
<1> DEFINE U == (0 .. n) \ T
<1>1. PICK x \in U : \A y \in U : x <= y
  <2>1. U \subseteq Nat /\ U # {}
    OBVIOUS
  <2> HIDE DEF U
  <2>2. QED
    BY <2>1, LeastNumber
<1>2. x \in 1 .. n /\ x - 1 \in 0 .. n /\ ~(x <= x - 1)
  BY <1>1
<1>3. QED
  BY <1>1, <1>2

-----------------------------------------------------------------------------
(* What Only keeps of the first i elements of a queue.                     *)
Kept(s, S, n, kept) ==
  kept = [i \in 0 .. n |-> IF i = 0 THEN <<>>
                           ELSE IF s[i] \in S THEN Append(kept[i - 1], s[i]) ELSE kept[i - 1]]

LEMMA KeptIsThere ==
  ASSUME NEW s, NEW S, NEW n \in Nat
  PROVE  \E kept : Kept(s, S, n, kept)
<1> DEFINE T == {i \in 0 .. n : \E kept : Kept(s, S, i, kept)}
<1>1. 0 \in T
  <2>1. Kept(s, S, 0, [i \in 0 .. 0 |-> <<>>])
    BY DEF Kept
  <2>2. QED
    BY <2>1
<1>2. ASSUME NEW i \in 1 .. n, i - 1 \in T PROVE i \in T
  <2>1. PICK f : Kept(s, S, i - 1, f)
    BY <1>2
  <2> DEFINE next == IF s[i] \in S THEN Append(f[i - 1], s[i]) ELSE f[i - 1]
             g == [j \in 0 .. i |-> IF j = i THEN next ELSE f[j]]
  <2>2. \A j \in 0 .. i - 1 : g[j] = f[j]
    OBVIOUS
  <2>3. \A j \in 0 .. i - 1 : f[j] = IF j = 0 THEN <<>>
                                      ELSE IF s[j] \in S THEN Append(f[j - 1], s[j]) ELSE f[j - 1]
    BY <2>1 DEF Kept
  <2>4. ASSUME NEW j \in 0 .. i
        PROVE  g[j] = IF j = 0 THEN <<>>
                      ELSE IF s[j] \in S THEN Append(g[j - 1], s[j]) ELSE g[j - 1]
    <3>1. CASE j = i
      <4>1. g[j] = next /\ g[j - 1] = f[i - 1] /\ j # 0
        BY <3>1
      <4>2. QED
        BY <3>1, <4>1
    <3>2. CASE j # i
      <4>1. j \in 0 .. i - 1 /\ (j # 0 => j - 1 \in 0 .. i - 1)
        BY <3>2
      <4> HIDE DEF g, next
      <4>2. QED
        BY <2>2, <2>3, <4>1
    <3>3. QED
      BY <3>1, <3>2
  <2>5. g = [j \in 0 .. i |-> g[j]]
    OBVIOUS
  <2> HIDE DEF g
  <2>6. Kept(s, S, i, g)
    BY <2>4, <2>5 DEF Kept
  <2>7. QED
    BY <2>6
<1> HIDE DEF T
<1>3. 0 .. n \subseteq T
  BY <1>1, <1>2, UpTo
<1>4. n \in T
  BY <1>3
<1>5. QED
  BY <1>4 DEF T

LEMMA KeptSteps ==
  ASSUME NEW s, NEW S, NEW n \in Nat, NEW kept, Kept(s, S, n, kept)
  PROVE  /\ kept[0] = <<>>
         /\ \A i \in 1 .. n :
              kept[i] = IF s[i] \in S THEN Append(kept[i - 1], s[i]) ELSE kept[i - 1]
<1>1. \A i \in 0 .. n : kept[i] = IF i = 0 THEN <<>>
                                  ELSE IF s[i] \in S THEN Append(kept[i - 1], s[i]) ELSE kept[i - 1]
  BY DEF Kept
<1>2. 0 \in 0 .. n /\ \A i \in 1 .. n : i \in 0 .. n /\ i # 0
  OBVIOUS
<1>3. QED
  BY <1>1, <1>2

LEMMA OnlyKeeps ==
  ASSUME NEW s \in Seq(Deck), NEW S
  PROVE  \E kept : /\ kept[0] = <<>>
                   /\ \A i \in 1 .. Len(s) :
                        kept[i] = IF s[i] \in S THEN Append(kept[i - 1], s[i]) ELSE kept[i - 1]
                   /\ Only(s, S) = kept[Len(s)]
<1> DEFINE n == Len(s)
           kept == CHOOSE f : Kept(s, S, n, f)
<1>1. n \in Nat
  OBVIOUS
<1>2. Only(s, S) = kept[n]
  BY DEF Only, Kept
<1> HIDE DEF n
<1>3. Kept(s, S, n, kept)
  BY <1>1, KeptIsThere
<1> HIDE DEF kept
<1>4. /\ kept[0] = <<>>
      /\ \A i \in 1 .. n : kept[i] = IF s[i] \in S THEN Append(kept[i - 1], s[i]) ELSE kept[i - 1]
  BY <1>1, <1>3, KeptSteps
<1>5. QED
  BY <1>2, <1>4 DEF n

(* What Only keeps is in S, and of a queue without repeats has none.       *)
LEMMA OnlyBatches ==
  ASSUME NEW s \in Batches, NEW S
  PROVE  /\ Only(s, S) \in Batches
         /\ \A m \in DOMAIN Only(s, S) : Only(s, S)[m] \in S
<1>1. s \in Seq(Deck) /\ Len(s) \in Nat
  BY DEF Batches
<1>2. PICK kept : /\ kept[0] = <<>>
                  /\ \A i \in 1 .. Len(s) :
                       kept[i] = IF s[i] \in S THEN Append(kept[i - 1], s[i]) ELSE kept[i - 1]
                  /\ Only(s, S) = kept[Len(s)]
  BY <1>1, OnlyKeeps
<1> DEFINE From(i, r) == /\ r \in Batches
                         /\ \A m \in 1 .. Len(r) : r[m] \in S /\ \E j \in 1 .. i : s[j] = r[m]
           T == {i \in 0 .. Len(s) : From(i, kept[i])}
<1>4. 0 \in T
  <2>1. <<>> \in Batches /\ Len(<<>>) = 0
    BY DEF Batches
  <2>2. From(0, <<>>)
    BY <2>1
  <2>3. QED
    BY <1>1, <1>2, <2>2
<1>5. ASSUME NEW i \in 1 .. Len(s), i - 1 \in T PROVE i \in T
  <2> DEFINE r == kept[i - 1]
  <2>1. From(i - 1, r) /\ i \in Nat /\ s[i] \in Deck
    BY <1>1, <1>5
  <2> HIDE DEF r
  <2>2. r \in Seq(Deck) /\ Len(r) \in Nat /\ DOMAIN r = 1 .. Len(r)
    BY <2>1 DEF Batches
  <2>3. From(i, r)
    BY <2>1
  <2>4. CASE s[i] \in S
    <3> DEFINE a == Append(r, s[i])
    <3>1. /\ a \in Seq(Deck) /\ Len(a) = Len(r) + 1 /\ DOMAIN a = 1 .. Len(r) + 1
          /\ a[Len(r) + 1] = s[i] /\ \A m \in 1 .. Len(r) : a[m] = r[m]
      BY <2>1, <2>2, AppendProperties
    <3> HIDE DEF a
    <3>2. \A m \in 1 .. Len(r) : r[m] # s[i]
      <4> SUFFICES ASSUME NEW m \in 1 .. Len(r), r[m] = s[i] PROVE FALSE
        OBVIOUS
      <4>1. PICK j \in 1 .. i - 1 : s[j] = r[m]
        BY <2>1
      <4>2. QED
        BY <1>1, <4>1 DEF Batches
    <3>3. \A m, k \in DOMAIN a : a[m] = a[k] => m = k
      BY <2>1, <2>2, <3>1, <3>2 DEF Batches
    <3>4. \A m \in 1 .. Len(a) : a[m] \in S /\ \E j \in 1 .. i : s[j] = a[m]
      BY <2>2, <2>3, <2>4, <3>1
    <3>5. From(i, a)
      BY <3>1, <3>3, <3>4 DEF Batches
    <3>6. kept[i] = a
      BY <1>2, <2>4 DEF a, r
    <3> HIDE DEF From
    <3>7. From(i, kept[i])
      BY <3>5, <3>6
    <3>8. QED
      BY <1>1, <3>7
  <2>5. CASE s[i] \notin S
    <3>1. kept[i] = r
      BY <1>2, <2>5 DEF r
    <3> HIDE DEF From
    <3>2. From(i, kept[i])
      BY <2>3, <3>1
    <3>3. QED
      BY <1>1, <3>2
  <2>6. QED
    BY <2>4, <2>5
<1> HIDE DEF T
<1>6. 0 .. Len(s) \subseteq T
  BY <1>1, <1>4, <1>5, UpTo
<1>7. From(Len(s), Only(s, S))
  BY <1>1, <1>2, <1>6 DEF T
<1>8. QED
  BY <1>7 DEF Batches

(* The first cards of a batch, and two batches one after the other.        *)
LEMMA FirstBatches ==
  ASSUME NEW s \in Batches, NEW n \in Nat
  PROVE  /\ FirstOf(s, n) \in Batches
         /\ \A i \in DOMAIN FirstOf(s, n) : i \in DOMAIN s /\ FirstOf(s, n)[i] = s[i]
<1>1. s \in Seq(Deck) /\ Len(s) \in Nat /\ DOMAIN s = 1 .. Len(s)
  BY DEF Batches
<1>2. CASE Len(s) <= n
  BY <1>1, <1>2 DEF FirstOf
<1>3. CASE ~(Len(s) <= n)
  <2> DEFINE r == SubSeq(s, 1, n)
  <2>1. r \in Seq(Deck) /\ DOMAIN r = 1 .. n /\ \A i \in 1 .. n : r[i] = s[i] /\ i \in 1 .. Len(s)
    BY <1>1, <1>3
  <2>2. FirstOf(s, n) = r
    BY <1>3 DEF FirstOf
  <2> HIDE DEF r
  <2>3. QED
    BY <1>1, <2>1, <2>2 DEF Batches
<1>4. QED
  BY <1>2, <1>3

LEMMA JoinedBatches ==
  ASSUME NEW s \in Batches, NEW t \in Batches,
         \A i \in DOMAIN s, j \in DOMAIN t : s[i] # t[j]
  PROVE  s \o t \in Batches
<1>1. /\ s \in Seq(Deck) /\ Len(s) \in Nat /\ DOMAIN s = 1 .. Len(s)
      /\ t \in Seq(Deck) /\ Len(t) \in Nat /\ DOMAIN t = 1 .. Len(t)
  BY DEF Batches
<1> DEFINE r == s \o t
<1>2. /\ r \in Seq(Deck) /\ DOMAIN r = 1 .. Len(s) + Len(t)
      /\ \A i \in 1 .. Len(s) + Len(t) :
           r[i] = IF i <= Len(s) THEN s[i] ELSE t[i - Len(s)]
  BY <1>1, ConcatProperties
<1> HIDE DEF r
<1>3. ASSUME NEW i \in DOMAIN r, NEW j \in DOMAIN r, r[i] = r[j] PROVE i = j
  <2>1. \A k \in DOMAIN r : \/ k \in DOMAIN s /\ r[k] = s[k]
                            \/ ~(k <= Len(s)) /\ k - Len(s) \in DOMAIN t /\ r[k] = t[k - Len(s)]
    BY <1>1, <1>2
  <2>2. CASE i \in DOMAIN s /\ r[i] = s[i] /\ j \in DOMAIN s /\ r[j] = s[j]
    BY <1>3, <2>2 DEF Batches
  <2>3. CASE /\ i - Len(s) \in DOMAIN t /\ r[i] = t[i - Len(s)]
             /\ j - Len(s) \in DOMAIN t /\ r[j] = t[j - Len(s)]
    <3>1. i - Len(s) = j - Len(s)
      BY <1>3, <2>3 DEF Batches
    <3>2. QED
      BY <1>1, <1>2, <3>1
  <2>4. QED
    BY <1>3, <2>1, <2>2, <2>3
<1>4. QED
  BY <1>2, <1>3 DEF Batches, r

(* What the server answers is a batch, whatever the limits.                *)
LEMMA BatchIsOne ==
  ASSUME queue \in Batches
  PROVE  Batch \in Batches
<1>1. Limits.new \in Nat /\ Limits.total \in Nat
  BY SessionAssumption DEF Limits, ResolveReviewLimit
<1> DEFINE fresh == FirstOf(NewCards, Limits.new)
<1>2. /\ SeenCards \in Batches /\ \A i \in DOMAIN SeenCards : SeenCards[i] \in reviewed
      /\ NewCards \in Batches /\ \A i \in DOMAIN NewCards : NewCards[i] \in Deck \ reviewed
  BY OnlyBatches DEF SeenCards, NewCards
<1>3. fresh \in Batches /\ \A i \in DOMAIN fresh : fresh[i] \in Deck \ reviewed
  BY <1>1, <1>2, FirstBatches
<1> HIDE DEF fresh
<1>4. SeenCards \o fresh \in Batches
  BY <1>2, <1>3, JoinedBatches
<1>5. Batch = FirstOf(SeenCards \o fresh, Limits.total)
  BY DEF Batch, SelectDueBatch, fresh
<1>6. QED
  BY <1>1, <1>4, <1>5, FirstBatches

LEMMA QueueGrows ==
  ASSUME queue \in Batches, NEW c \in Deck, c \notin Elements(queue)
  PROVE  Append(queue, c) \in Batches
<1>1. queue \in Seq(Deck) /\ Len(queue) \in Nat /\ DOMAIN queue = 1 .. Len(queue)
  BY DEF Batches
<1> DEFINE a == Append(queue, c)
<1>2. /\ a \in Seq(Deck) /\ DOMAIN a = 1 .. Len(queue) + 1
      /\ a[Len(queue) + 1] = c /\ \A m \in 1 .. Len(queue) : a[m] = queue[m]
  BY <1>1, AppendProperties
<1> HIDE DEF a
<1>3. \A m \in 1 .. Len(queue) : queue[m] # c
  BY <1>1 DEF Elements
<1>4. ASSUME NEW i \in DOMAIN a, NEW j \in DOMAIN a, a[i] = a[j] PROVE i = j
  <2>1. CASE i \in 1 .. Len(queue) /\ j \in 1 .. Len(queue)
    BY <1>1, <1>2, <1>4, <2>1 DEF Batches
  <2>2. CASE i = Len(queue) + 1 \/ j = Len(queue) + 1
    BY <1>1, <1>2, <1>3, <1>4, <2>2
  <2>3. QED
    BY <1>1, <1>2, <2>1, <2>2
<1>5. QED
  BY <1>2, <1>4 DEF Batches, a

-----------------------------------------------------------------------------
(* A walk that was not moved is at a position of its batch, and what is    *)
(* done is what lies before; the one grade that is still the page's is of  *)
(* the card it shows.                                                      *)
Done(data, n) == {data[i] : i \in 1 .. n}

WalkInOrder ==
  /\ page.open \/ page = Closed
  /\ page.index > 0 => cache.data # NoData
  /\ ~page.moved => /\ cache.data # NoData => page.index <= Len(cache.data)
                    /\ page.done = Done(cache.data, page.index)

GradeInOrder ==
  \A p \in Posts : post[p].mine =>
    /\ page.open /\ cache.data # NoData /\ post[p].pc # "none"
    /\ \A q \in Posts : post[q].mine => p = q
    /\ ~page.moved => page.index < Len(cache.data) /\ post[p].card = Current

CacheType == [data : Batches \cup {NoData}, stale : BOOLEAN, error : BOOLEAN]
FetchType == [pc : {"idle", "asked", "answered"}, batch : Batches]
PageType  == [open : BOOLEAN, index : Nat, revealed : BOOLEAN, moved : BOOLEAN, done : SUBSET Deck]
PostType  == [pc : {"none", "sent", "ok", "failed"}, card : Deck, mine : BOOLEAN]

Typed == /\ queue \in Batches /\ reviewed \subseteq Deck /\ arrivals \in 0 .. MaxDue
         /\ stored \in Settings /\ cache \in CacheType /\ fetch \in FetchType
         /\ page \in PageType /\ post \in [Posts -> PostType]

TabInv == Typed /\ WalkInOrder /\ GradeInOrder

LEMMA TabInvTypes == TabInv => TabTypeOK
<1>1. queue \in Batches => queue \in Seq(Deck)
  BY DEF Batches
<1>2. GradeInOrder => (IsPending => page.open)
  BY DEF GradeInOrder, IsPending
<1>3. QED
  BY <1>1, <1>2 DEF TabInv, TabTypeOK, Typed, CacheType, FetchType, PageType, PostType

LEMMA EmptyBatch == <<>> \in Batches /\ NoData \notin Batches
<1>1. NoData \notin Seq(Deck)
  <2> SUFFICES ASSUME NoData \in Seq(Deck) PROVE FALSE
    OBVIOUS
  <2>1. NoData[1] = "no data" /\ Len(NoData) = 1
    BY DEF NoData
  <2>2. \A s \in Seq(Deck) : Len(s) = 1 => s[1] \in Deck
    BY ElementOfSeq
  <2>3. QED
    BY <2>1, <2>2, SessionAssumption
<1>2. QED
  BY <1>1 DEF Batches

LEMMA NoPostTyped == NoPost \in PostType /\ ~NoPost.mine /\ NoPost.pc = "none"
BY SessionAssumption DEF NoPost, PostType

LEMMA ClosedTyped ==
  /\ Closed \in PageType /\ ~Closed.open /\ Closed.index = 0 /\ Closed.done = {} /\ ~Closed.moved
BY DEF Closed, PageType

(* A step that leaves the page, its grades and the data alone.             *)
LEMMA Standing ==
  ASSUME TabInv, Typed', UNCHANGED <<page, post>>, cache'.data = cache.data
  PROVE  TabInv'
<1>1. WalkInOrder' /\ GradeInOrder'
  BY DEF TabInv, WalkInOrder, GradeInOrder, Done, Current
<1>2. QED
  BY <1>1 DEF TabInv

LEMMA StartFetchType ==
  ASSUME Typed, StartFetch
  PROVE  fetch' \in FetchType /\ cache' \in CacheType /\ cache'.data = cache.data
<1> DEFINE e == cache.error /\ cache.data # NoData
<1>1. cache' = [cache EXCEPT !.error = e] /\ fetch' = [pc |-> "asked", batch |-> <<>>]
  BY DEF StartFetch
<1>2. e \in BOOLEAN
  OBVIOUS
<1> HIDE DEF e
<1>3. QED
  BY <1>1, <1>2, EmptyBatch DEF Typed, FetchType, CacheType

LEMMA TabInitially == TabInit => TabInv
<1> SUFFICES ASSUME TabInit PROVE TabInv
  OBVIOUS
<1>1. /\ queue = <<>> /\ reviewed = {} /\ arrivals = 0 /\ stored \in Settings
      /\ cache = [data |-> NoData, stale |-> TRUE, error |-> FALSE]
      /\ fetch = [pc |-> "idle", batch |-> <<>>]
      /\ page = Closed /\ post = [p \in Posts |-> NoPost]
  BY DEF TabInit
<1>2. cache \in CacheType /\ cache.data = NoData /\ fetch \in FetchType
  BY <1>1, EmptyBatch DEF CacheType, FetchType
<1>3. post \in [Posts -> PostType] /\ \A p \in Posts : ~post[p].mine
  BY <1>1, NoPostTyped
<1>4. 0 \in 0 .. MaxDue
  <2>1. MaxDue \in Nat
    BY SessionAssumption
  <2>2. QED
    BY <2>1
<1>5. Typed
  BY <1>1, <1>2, <1>3, <1>4, EmptyBatch, ClosedTyped DEF Typed
<1>6. WalkInOrder /\ GradeInOrder
  BY <1>1, <1>2, <1>3, ClosedTyped DEF WalkInOrder, GradeInOrder, Done
<1>7. QED
  BY <1>5, <1>6 DEF TabInv

LEMMA SaveLimitsStep == TabInv /\ SaveLimits => TabInv'
<1> SUFFICES ASSUME TabInv, SaveLimits PROVE TabInv'
  OBVIOUS
<1>1. Typed' /\ UNCHANGED <<page, post, cache>>
  BY DEF TabInv, Typed, SaveLimits
<1>2. QED
  BY <1>1, Standing

LEMMA BecomeDueStep == ASSUME TabInv, NEW c \in Deck, BecomeDue(c) PROVE TabInv'
<1>1. queue' \in Batches
  BY QueueGrows DEF TabInv, Typed, BecomeDue
<1>2. cache' \in CacheType /\ cache'.data = cache.data
  BY DEF TabInv, Typed, BecomeDue, CacheType
<1>3. arrivals' \in 0 .. MaxDue
  <2>1. arrivals \in 0 .. MaxDue /\ arrivals < MaxDue /\ arrivals' = arrivals + 1
    BY DEF TabInv, Typed, BecomeDue
  <2>2. MaxDue \in Nat
    BY SessionAssumption
  <2>3. QED
    BY <2>1, <2>2
<1>4. Typed' /\ UNCHANGED <<page, post>>
  BY <1>1, <1>2, <1>3 DEF TabInv, Typed, BecomeDue
<1>5. QED
  BY <1>2, <1>4, Standing

LEMMA FetchSteps ==
  ASSUME TabInv, GoStale \/ Refetch \/ ServerAnswers \/ FetchFails \/ Retry
  PROVE  TabInv'
<1>1. Typed
  BY DEF TabInv
<1>2. Batch \in Batches /\ <<>> \in Batches
  BY <1>1, BatchIsOne, EmptyBatch DEF Typed
<1>3. cache' \in CacheType /\ fetch' \in FetchType /\ cache'.data = cache.data
  <2>1. CASE Refetch \/ Retry
    BY <1>1, <2>1, StartFetchType DEF Refetch, Retry
  <2>2. CASE GoStale
    BY <1>1, <2>2 DEF GoStale, Typed, CacheType
  <2>3. CASE ServerAnswers
    BY <1>1, <1>2, <2>3 DEF ServerAnswers, Typed, CacheType, FetchType
  <2>4. CASE FetchFails
    BY <1>1, <1>2, <2>4 DEF FetchFails, Typed, CacheType, FetchType
  <2>5. QED
    BY <2>1, <2>2, <2>3, <2>4
<1>4. UNCHANGED <<server, page, post>>
  BY DEF GoStale, Refetch, ServerAnswers, FetchFails, Retry
<1>5. Typed'
  BY <1>1, <1>3, <1>4 DEF Typed, server
<1>6. QED
  BY <1>3, <1>4, <1>5, Standing

(* A page that is left has no grade of its own on the way.                 *)
LEMMA CollectStep == ASSUME TabInv, Collect PROVE TabInv'
<1>1. cache' = [data |-> NoData, stale |-> TRUE, error |-> FALSE]
      /\ UNCHANGED <<server, fetch, page, post>> /\ ~page.open
  BY DEF Collect
<1>2. Typed'
  BY <1>1 DEF TabInv, Typed, CacheType, server
<1>3. page = Closed
  BY <1>1 DEF TabInv, WalkInOrder
<1>4. WalkInOrder'
  BY <1>1, <1>3, ClosedTyped DEF WalkInOrder, Done
<1>5. GradeInOrder'
  BY <1>1 DEF TabInv, GradeInOrder
<1>6. QED
  BY <1>2, <1>4, <1>5 DEF TabInv

(* Data that changes under a walk moves it.                                *)
LEMMA FetchArrivesStep == ASSUME TabInv, FetchArrives PROVE TabInv'
<1> DEFINE moved == page.moved \/ (Walking /\ cache.data # fetch.batch)
<1>1. /\ page \in PageType /\ cache \in CacheType /\ fetch \in FetchType
      /\ post \in [Posts -> PostType]
  BY DEF TabInv, Typed
<1>2. /\ cache' = [data |-> fetch.batch, stale |-> FALSE, error |-> FALSE]
      /\ fetch' = [pc |-> "idle", batch |-> <<>>]
      /\ page' = [page EXCEPT !.moved = moved]
      /\ UNCHANGED <<server, post>>
  BY DEF FetchArrives
<1>3. /\ page' \in PageType /\ page'.moved = moved /\ page'.open = page.open
      /\ page'.index = page.index /\ page'.done = page.done
      /\ cache'.data = fetch.batch /\ fetch.batch \in Batches /\ fetch.batch # NoData
  <2>1. moved \in BOOLEAN
    BY <1>1 DEF PageType, Walking, IsPending, PostType
  <2> HIDE DEF moved
  <2>2. QED
    BY <1>1, <1>2, <2>1, EmptyBatch DEF PageType, FetchType
<1>4. Typed'
  BY <1>1, <1>2, <1>3, EmptyBatch DEF TabInv, Typed, server, CacheType, FetchType
<1>5. CASE ~moved /\ Walking
  <2>1. cache'.data = cache.data /\ page' = page /\ post' = post
    BY <1>1, <1>2, <1>3, <1>5 DEF PageType
  <2>2. QED
    BY <1>4, <2>1, Standing
<1>6. CASE ~moved /\ ~Walking
  <2>1. (page.open => page.index = 0) /\ ~page.moved /\ page.index \in Nat
    BY <1>1, <1>6 DEF Walking, PageType
  <2>2. page.index = 0
    BY <2>1, ClosedTyped DEF TabInv, WalkInOrder
  <2>3. \A p \in Posts : ~post[p].mine
    BY <1>6 DEF Walking, IsPending, TabInv, GradeInOrder
  <2>4. page.done = {}
    BY <2>1, <2>2 DEF TabInv, WalkInOrder, Done
  <2>5. Len(fetch.batch) \in Nat
    BY <1>3 DEF Batches
  <2>6. page'.open \/ page' = Closed
    BY <1>1, <1>2, <1>3, <1>6, <2>1 DEF TabInv, WalkInOrder, PageType, moved
  <2>7. WalkInOrder'
    BY <1>3, <2>2, <2>4, <2>5, <2>6 DEF WalkInOrder, Done
  <2>8. GradeInOrder'
    BY <1>2, <2>3 DEF GradeInOrder
  <2>9. QED
    BY <1>4, <2>7, <2>8 DEF TabInv
<1>7. CASE moved
  <2>1. page'.moved /\ (page'.open \/ page' = Closed)
    BY <1>1, <1>2, <1>3, <1>7, ClosedTyped DEF TabInv, WalkInOrder, Walking, PageType
  <2>2. WalkInOrder'
    BY <1>3, <2>1 DEF WalkInOrder
  <2>3. GradeInOrder'
    BY <1>2, <1>3, <2>1 DEF TabInv, GradeInOrder
  <2>4. QED
    BY <1>4, <2>2, <2>3 DEF TabInv
<1>8. QED
  BY <1>5, <1>6, <1>7

(* A page that is opened, or starts over, is at the start of its walk.     *)
LEMMA OpenedTyped ==
  ASSUME NEW m \in BOOLEAN
  PROVE  LET new == [Closed EXCEPT !.open = TRUE, !.moved = m]
         IN  new \in PageType /\ new.open /\ new.index = 0 /\ new.done = {} /\ new.moved = m
BY DEF Closed, PageType

LEMMA AtTheStart ==
  ASSUME TabInv, Typed', cache'.data = cache.data, page'.open, page'.index = 0,
         page'.done = {}, post' = post, \A p \in Posts : post[p].mine => page'.moved /\ page.open
  PROVE  TabInv'
<1>1. WalkInOrder'
  <2>1. cache'.data # NoData => cache'.data \in Batches
    BY DEF Typed, CacheType
  <2>2. cache'.data \in Batches => Len(cache'.data) \in Nat
    BY DEF Batches
  <2>3. Done(cache'.data, 0) = {}
    BY DEF Done
  <2>4. QED
    BY <2>1, <2>2, <2>3 DEF WalkInOrder
<1>2. GradeInOrder'
  BY DEF TabInv, GradeInOrder
<1>3. QED
  BY <1>1, <1>2 DEF TabInv

LEMMA OpenStep == ASSUME TabInv, Open PROVE TabInv'
<1>1. ~page.open /\ page' = [Closed EXCEPT !.open = TRUE] /\ UNCHANGED <<server, post>>
  BY DEF Open
<1>2. page' \in PageType /\ page'.open /\ page'.index = 0 /\ page'.done = {}
  BY <1>1 DEF Closed, PageType
<1>3. cache' \in CacheType /\ fetch' \in FetchType /\ cache'.data = cache.data
  BY StartFetchType DEF TabInv, Typed, Open, FetchIfStale
<1>4. Typed'
  BY <1>1, <1>2, <1>3 DEF TabInv, Typed, server
<1>5. \A p \in Posts : ~post[p].mine
  BY <1>1 DEF TabInv, GradeInOrder
<1>6. QED
  BY <1>1, <1>2, <1>3, <1>4, <1>5, AtTheStart

LEMMA RestartStep == ASSUME TabInv, Restart PROVE TabInv'
<1> DEFINE m == IsPending
<1>1. /\ page.open /\ page' = [Closed EXCEPT !.open = TRUE, !.moved = m]
      /\ StartFetch /\ UNCHANGED <<server, post>>
  BY DEF Restart, AtTheEnd, Showing
<1>2. m \in BOOLEAN /\ \A p \in Posts : post[p].mine => m
  BY DEF IsPending
<1> HIDE DEF m
<1>3. page' \in PageType /\ page'.open /\ page'.index = 0 /\ page'.done = {} /\ page'.moved = m
  BY <1>1, <1>2, OpenedTyped
<1>4. cache' \in CacheType /\ fetch' \in FetchType /\ cache'.data = cache.data
  BY <1>1, StartFetchType DEF TabInv
<1>5. Typed'
  BY <1>1, <1>3, <1>4 DEF TabInv, Typed, server
<1>6. QED
  BY <1>1, <1>2, <1>3, <1>4, <1>5, AtTheStart

LEMMA CloseStep == ASSUME TabInv, Close PROVE TabInv'
<1>1. /\ page' = Closed /\ UNCHANGED <<server, cache, fetch>>
      /\ post' = [p \in Posts |-> [post[p] EXCEPT !.mine = FALSE]]
  BY DEF Close
<1>2. post' \in [Posts -> PostType] /\ \A p \in Posts : ~post'[p].mine
  BY <1>1 DEF TabInv, Typed, PostType
<1>3. Typed'
  BY <1>1, <1>2, ClosedTyped DEF TabInv, Typed, server
<1>4. GradeInOrder'
  BY <1>2 DEF GradeInOrder
<1>5. WalkInOrder'
  <2>1. cache'.data # NoData => cache'.data \in Batches
    BY <1>3 DEF Typed, CacheType
  <2>2. cache'.data \in Batches => Len(cache'.data) \in Nat
    BY DEF Batches
  <2>3. Done(cache'.data, 0) = {}
    BY DEF Done
  <2>4. QED
    BY <1>1, <2>1, <2>2, <2>3, ClosedTyped DEF WalkInOrder
<1>6. QED
  BY <1>3, <1>4, <1>5 DEF TabInv

LEMMA RevealStep == ASSUME TabInv, Reveal PROVE TabInv'
<1>1. /\ page' = [page EXCEPT !.revealed = TRUE] /\ page.open
      /\ UNCHANGED <<server, cache, fetch, post>>
  BY DEF Reveal, HasCard, Showing
<1>2. /\ page' \in PageType /\ page'.open = page.open /\ page'.index = page.index
      /\ page'.moved = page.moved /\ page'.done = page.done
  BY <1>1 DEF TabInv, Typed, PageType
<1>3. Typed'
  BY <1>1, <1>2 DEF TabInv, Typed, server
<1>4. WalkInOrder'
  BY <1>1, <1>2 DEF TabInv, WalkInOrder
<1>5. GradeInOrder'
  BY <1>1, <1>2 DEF TabInv, GradeInOrder, Current
<1>6. QED
  BY <1>3, <1>4, <1>5 DEF TabInv

(* The card that is shown is one of the language's.                        *)
LEMMA CurrentIsACard ==
  ASSUME TabInv, HasCard
  PROVE  /\ Current \in Deck /\ page.index + 1 \in DOMAIN cache.data
         /\ cache.data \in Batches /\ cache.data # NoData
         /\ page.open /\ page.index < Len(cache.data)
<1>1. page.open /\ cache.data # NoData /\ page.index < Len(cache.data)
  BY DEF HasCard, Showing
<1>2. cache.data \in Batches /\ page.index \in Nat
  BY <1>1 DEF TabInv, Typed, CacheType, PageType
<1>3. cache.data \in Seq(Deck) /\ Len(cache.data) \in Nat
  BY <1>2 DEF Batches
<1>4. page.index + 1 \in 1 .. Len(cache.data)
  BY <1>1, <1>2, <1>3
<1>5. Current \in Deck
  BY <1>3, <1>4, ElementOfSeq DEF Current
<1>6. QED
  BY <1>1, <1>2, <1>3, <1>4, <1>5

LEMMA SubmitGradeStep == ASSUME TabInv, SubmitGrade PROVE TabInv'
<1>1. PICK p \in Posts :
        /\ HasCard /\ ~IsPending
        /\ post' = [post EXCEPT ![p] = [pc |-> "sent", card |-> Current, mine |-> TRUE]]
        /\ UNCHANGED <<server, cache, fetch, page>>
  BY DEF SubmitGrade
<1>2. Current \in Deck /\ page.open /\ page.index < Len(cache.data) /\ cache.data # NoData
  BY <1>1, CurrentIsACard
<1>3. post \in [Posts -> PostType]
  BY DEF TabInv, Typed
<1>4. /\ post' \in [Posts -> PostType]
      /\ post'[p].mine /\ post'[p].pc = "sent" /\ post'[p].card = Current
      /\ \A q \in Posts : q # p => ~post'[q].mine
  BY <1>1, <1>2, <1>3 DEF PostType, IsPending
<1>5. Typed'
  BY <1>1, <1>4 DEF TabInv, Typed, server
<1>6. WalkInOrder'
  BY <1>1 DEF TabInv, WalkInOrder
<1>7. GradeInOrder'
  BY <1>1, <1>2, <1>4 DEF GradeInOrder, Current
<1>8. QED
  BY <1>5, <1>6, <1>7 DEF TabInv

LEMMA ServerGradesStep == ASSUME TabInv, NEW p \in Posts, ServerGrades(p) PROVE TabInv'
<1>1. post \in [Posts -> PostType] /\ queue \in Batches /\ reviewed \subseteq Deck
  BY DEF TabInv, Typed
<1>2. PICK answer \in {"ok", "failed"} : post' = [post EXCEPT ![p].pc = answer]
  BY DEF ServerGrades
<1>3. queue' \in Batches /\ reviewed' \subseteq Deck
  BY <1>1, OnlyBatches DEF ServerGrades, PostType
<1>4. UNCHANGED <<arrivals, stored, cache, fetch, page>>
  BY DEF ServerGrades
<1>5. /\ post' \in [Posts -> PostType]
      /\ \A q \in Posts : /\ post'[q].mine = post[q].mine /\ post'[q].card = post[q].card
                          /\ post[q].pc # "none" => post'[q].pc # "none"
  BY <1>1, <1>2 DEF PostType
<1>6. Typed'
  BY <1>3, <1>4, <1>5 DEF TabInv, Typed
<1>7. WalkInOrder'
  BY <1>4 DEF TabInv, WalkInOrder
<1>8. GradeInOrder'
  BY <1>4, <1>5 DEF TabInv, GradeInOrder, Current
<1>9. QED
  BY <1>6, <1>7, <1>8 DEF TabInv

(* An acknowledged grade of the page's own takes the walk over its card.   *)
LEMMA AnswerStep == ASSUME TabInv, NEW p \in Posts, Answer(p) PROVE TabInv'
<1>1. post \in [Posts -> PostType] /\ page \in PageType /\ cache \in CacheType
  BY DEF TabInv, Typed
<1>2. post' = [post EXCEPT ![p] = NoPost] /\ UNCHANGED <<server, cache, fetch>>
  BY DEF Answer
<1>3. /\ post' \in [Posts -> PostType] /\ ~post'[p].mine
      /\ \A q \in Posts : q # p => post'[q] = post[q]
  BY <1>1, <1>2, NoPostTyped
<1>4. CASE post[p].pc = "ok" /\ post[p].mine
  <2> DEFINE n == page.index
             data == cache.data
  <2>1. page' = [page EXCEPT !.index = n + 1, !.revealed = FALSE,
                             !.done = page.done \cup {post[p].card}]
    BY <1>4 DEF Answer
  <2>2. n \in Nat /\ post[p].card \in Deck /\ page.done \subseteq Deck
    BY <1>1 DEF PageType, PostType
  <2>3. /\ page' \in PageType /\ page'.open = page.open /\ page'.index = n + 1
        /\ page'.moved = page.moved /\ page'.done = page.done \cup {post[p].card}
    <3>1. n + 1 \in Nat /\ page.done \cup {post[p].card} \in SUBSET Deck
      BY <2>2
    <3> HIDE DEF n
    <3>2. QED
      BY <1>1, <2>1, <3>1 DEF PageType
  <2>4. Typed'
    BY <1>2, <1>3, <2>3 DEF TabInv, Typed, server
  <2>5. /\ page.open /\ data # NoData /\ \A q \in Posts : q # p => ~post[q].mine
        /\ ~page.moved => n < Len(data) /\ post[p].card = data[n + 1]
    BY <1>4 DEF TabInv, GradeInOrder, Current
  <2>6. GradeInOrder'
    BY <1>3, <2>5 DEF GradeInOrder
  <2>7. Len(data) \in Nat
    BY <1>1, <2>5 DEF CacheType, Batches
  <2>8. ~page.moved => page.done = Done(data, n)
    BY DEF TabInv, WalkInOrder
  <2>9. Done(data, n + 1) = Done(data, n) \cup {data[n + 1]}
    <3>1. 1 .. n + 1 = (1 .. n) \cup {n + 1}
      BY <2>2
    <3>2. QED
      BY <3>1 DEF Done
  <2>10. WalkInOrder'
    <3>1. cache' = cache
      BY <1>2
    <3>2. ~page'.moved => page'.index <= Len(cache'.data) /\ page'.done = Done(cache'.data, page'.index)
      <4>1. ~page.moved => n + 1 <= Len(data)
        BY <2>2, <2>5, <2>7
      <4>2. ~page.moved => page.done \cup {post[p].card} = Done(data, n + 1)
        BY <2>5, <2>8, <2>9
      <4>3. QED
        BY <2>3, <3>1, <4>1, <4>2
    <3>3. QED
      BY <2>3, <2>5, <3>1, <3>2 DEF WalkInOrder
  <2>11. QED
    BY <2>4, <2>6, <2>10 DEF TabInv
<1>5. CASE ~(post[p].pc = "ok" /\ post[p].mine)
  <2>1. page' = page /\ cache' = cache
    BY <1>2, <1>5 DEF Answer
  <2>2. Typed'
    BY <1>2, <1>3, <2>1 DEF TabInv, Typed, server
  <2>3. WalkInOrder'
    BY <2>1 DEF TabInv, WalkInOrder
  <2>4. GradeInOrder'
    BY <1>3, <2>1 DEF TabInv, GradeInOrder, Current
  <2>5. QED
    BY <2>2, <2>3, <2>4 DEF TabInv
<1>6. QED
  BY <1>4, <1>5

LEMMA TabSteps == TabInv /\ [TabNext]_tabVars => TabInv'
<1> SUFFICES ASSUME TabInv, [TabNext]_tabVars PROVE TabInv'
  OBVIOUS
<1>1. CASE \E c \in Deck : BecomeDue(c)
  BY <1>1, BecomeDueStep
<1>2. CASE SaveLimits
  BY <1>2, SaveLimitsStep
<1>3. CASE GoStale \/ Refetch \/ ServerAnswers \/ FetchFails \/ Retry
  BY <1>3, FetchSteps
<1>4. CASE Collect \/ FetchArrives
  BY <1>4, CollectStep, FetchArrivesStep
<1>5. CASE Open \/ Close \/ Restart
  BY <1>5, OpenStep, CloseStep, RestartStep
<1>6. CASE Reveal \/ SubmitGrade
  BY <1>6, RevealStep, SubmitGradeStep
<1>7. CASE \E p \in Posts : ServerGrades(p) \/ Answer(p)
  BY <1>7, ServerGradesStep, AnswerStep
<1>8. CASE UNCHANGED tabVars
  <2>1. Typed' /\ UNCHANGED <<page, post, cache>>
    BY <1>8 DEF tabVars, TabInv, Typed
  <2>2. QED
    BY <2>1, Standing
<1>9. QED
  BY <1>1, <1>2, <1>3, <1>4, <1>5, <1>6, <1>7, <1>8 DEF TabNext

(* What lies behind an unmoved walk is done, because nothing else is: the  *)
(* pages' position and what was acknowledged move together, and a fetch    *)
(* that changes the batch between them, or a restart under a grade that is *)
(* on its way, makes the walk a moved one.                                 *)
THEOREM TabInvariant == TabSpec => []TabInv
<1>1. QED
  BY TabInitially, TabSteps, PTL DEF TabSpec

LEMMA BehindIsGraded == TabInv => WalkedIsGraded
<1> SUFFICES ASSUME TabInv, page.open, ~page.moved, cache.data # NoData,
                    NEW i \in 1 .. page.index
             PROVE  i \in DOMAIN cache.data /\ cache.data[i] \in page.done
  BY DEF WalkedIsGraded
<1>1. page.index <= Len(cache.data) /\ page.done = Done(cache.data, page.index)
  BY DEF TabInv, WalkInOrder
<1>2. page.index \in Nat /\ cache.data \in Batches
  BY DEF TabInv, Typed, PageType, CacheType
<1>3. DOMAIN cache.data = 1 .. Len(cache.data) /\ Len(cache.data) \in Nat
  BY <1>2 DEF Batches
<1>4. QED
  BY <1>1, <1>2, <1>3 DEF Done

(* Only the card that is shown is sent, and none before it is the same.    *)
LEMMA SentAnew ==
  ASSUME TabInv, [TabNext]_tabVars, NEW p \in Posts,
         post[p].pc = "none", post'[p].pc = "sent", ~page.moved
  PROVE  post'[p].card \notin page.done
<1>1. post \in [Posts -> PostType]
  BY DEF TabInv, Typed
<1>2. SubmitGrade
  <2>1. CASE UNCHANGED post
    BY <2>1
  <2>2. CASE Close
    BY <1>1, <2>2 DEF Close, PostType
  <2>3. CASE \E q \in Posts : ServerGrades(q)
    BY <1>1, <2>3 DEF ServerGrades, PostType
  <2>4. CASE \E q \in Posts : Answer(q)
    BY <1>1, <2>4, NoPostTyped DEF Answer
  <2>5. QED
    BY <2>1, <2>2, <2>3, <2>4
       DEF TabNext, tabVars, BecomeDue, SaveLimits, GoStale, Refetch, Collect, ServerAnswers,
           FetchArrives, FetchFails, Open, Retry, Reveal, Restart
<1>3. HasCard /\ post'[p].card = Current
  BY <1>1, <1>2 DEF SubmitGrade
<1>4. /\ page.index + 1 \in DOMAIN cache.data /\ cache.data \in Batches
      /\ page.index \in Nat /\ page.done = Done(cache.data, page.index)
      /\ DOMAIN cache.data = 1 .. Len(cache.data)
  BY <1>3, CurrentIsACard DEF TabInv, Typed, PageType, WalkInOrder, Batches
<1>5. \A i \in 1 .. page.index : cache.data[i] # cache.data[page.index + 1]
  <2>1. \A i \in 1 .. page.index : i \in DOMAIN cache.data /\ i # page.index + 1
    BY <1>4
  <2>2. QED
    BY <1>4, <2>1 DEF Batches
<1>6. QED
  BY <1>3, <1>4, <1>5 DEF Done, Current

(* A walk over a batch that stands neither skips nor repeats a card, for   *)
(* every deck, limits and number of requests in flight: every card behind  *)
(* the position was acknowledged (onSuccess in Review.tsx is all that      *)
(* advances it) and none of them is sent again.                            *)
THEOREM WalkFaithful == TabSpec => WalkIsFaithful
<1>1. TabInv => TabTypeOK /\ WalkedIsGraded
  BY TabInvTypes, BehindIsGraded
<1>2. TabInv /\ [TabNext]_tabVars =>
        [\A p \in Posts : post[p].pc = "none" /\ post'[p].pc = "sent" /\ ~page.moved =>
           post'[p].card \notin page.done]_tabVars
  BY SentAnew
<1>3. QED
  BY <1>1, <1>2, TabInvariant, PTL DEF TabSpec, WalkIsFaithful, NoRepeatInWalk
=============================================================================
