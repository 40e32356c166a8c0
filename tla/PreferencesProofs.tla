------------------------- MODULE PreferencesProofs -------------------------
(* Theorems about settings and languages, for any number of requests in    *)
(* hand and in all, any keys, bounds and bodies, and any names with any    *)
(* idea of which of them are the same up to case.                          *)
EXTENDS Preferences, SequenceTheorems, WellFoundedInduction, TLAPS

-----------------------------------------------------------------------------
(* What a form says last of a key, and what is left of that when its head  *)
(* is written.                                                             *)
Below == {p \in Nat \X Nat : p[1] < p[2]}

LEMMA BelowIsWellFounded == IsWellFoundedOn(Below, Nat)
<1>1. Below = OpToRel(<, Nat)
  BY DEF Below, OpToRel
<1>2. QED
  BY <1>1, NatLessThanWellFounded

LEMMA LeastNumber ==
  ASSUME NEW T, T \subseteq Nat, T # {}
  PROVE  \E x \in T : \A y \in T : x <= y
<1>1. PICK x \in T : \A y \in T : ~(<<y, x>> \in Below)
  BY BelowIsWellFounded, WFMin
<1>2. ASSUME NEW y \in T PROVE x <= y
  <2>1. x \in Nat /\ y \in Nat
    OBVIOUS
  <2>2. <<y, x>> \notin Below
    BY <1>1
  <2>3. QED
    BY <2>1, <2>2 DEF Below
<1>3. QED
  BY <1>2

Body == Seq(Keys \X Values)
IsLast(b, k, n) == n \in 1 .. Len(b) /\ b[n][1] = k /\ \A m \in n + 1 .. Len(b) : b[m][1] # k

LEMMA LastIsThere ==
  ASSUME NEW b \in Body, NEW k \in KeysOf(b)
  PROVE  \E n : IsLast(b, k, n)
<1> DEFINE T == {d \in Nat : \E n \in 1 .. Len(b) : n + d = Len(b) /\ b[n][1] = k}
<1>1. Len(b) \in Nat
  BY DEF Body
<1>2. PICK n \in 1 .. Len(b) : b[n][1] = k
  BY DEF KeysOf
<1>3. Len(b) - n \in T
  BY <1>1, <1>2
<1>4. PICK d \in T : \A e \in T : d <= e
  <2> HIDE DEF T
  <2>1. T \subseteq Nat
    BY DEF T
  <2>2. QED
    BY <1>3, <2>1, LeastNumber
<1>5. PICK l \in 1 .. Len(b) : l + d = Len(b) /\ b[l][1] = k
  BY <1>4
<1>6. ASSUME NEW m \in l + 1 .. Len(b), b[m][1] = k PROVE FALSE
  <2>1. m \in 1 .. Len(b) /\ l < m
    BY <1>1
  <2>2. Len(b) - m \in Nat /\ m + (Len(b) - m) = Len(b)
    BY <1>1, <2>1
  <2>3. Len(b) - m \in T
    BY <1>6, <2>1, <2>2
  <2>4. d \in Nat /\ l + d = Len(b)
    BY <1>5
  <2>5. d <= Len(b) - m
    BY <1>4, <2>3
  <2>6. QED
    BY <1>1, <2>1, <2>4, <2>5
<1>7. QED
  BY <1>5, <1>6 DEF IsLast

LEMMA LastIsOne ==
  ASSUME NEW b \in Body, NEW k, NEW n, IsLast(b, k, n)
  PROVE  LastOf(b, k) = b[n][2]
<1>1. ASSUME NEW l, IsLast(b, k, l) PROVE l = n
  BY <1>1 DEF IsLast, Body
<1> DEFINE c == CHOOSE x \in 1 .. Len(b) : /\ b[x][1] = k
                                          /\ \A m \in x + 1 .. Len(b) : b[m][1] # k
<1>2. IsLast(b, k, c)
  BY DEF IsLast
<1>3. QED
  BY <1>1, <1>2 DEF LastOf

LEMMA WriteHead ==
  ASSUME NEW b \in Body, b # <<>>
  PROVE  /\ Head(b) \in Keys \X Values /\ Tail(b) \in Body /\ Len(b) > 0
         /\ KeysOf(b) = {Head(b)[1]} \cup KeysOf(Tail(b))
         /\ \A k \in KeysOf(Tail(b)) : LastOf(b, k) = LastOf(Tail(b), k)
         /\ Head(b)[1] \notin KeysOf(Tail(b)) => LastOf(b, Head(b)[1]) = Head(b)[2]
<1> DEFINE t == Tail(b)
<1>1. /\ Head(b) \in Keys \X Values /\ t \in Body
      /\ Len(t) = Len(b) - 1 /\ \A i \in 1 .. Len(t) : t[i] = b[i + 1]
  BY HeadTailProperties DEF Body
<1>2. Len(b) \in Nat \ {0} /\ Head(b) = b[1]
  BY EmptySeq DEF Body
<1> HIDE DEF t
<1>3. KeysOf(b) = {Head(b)[1]} \cup KeysOf(t)
  <2>1. ASSUME NEW n \in 1 .. Len(b) PROVE b[n][1] \in {Head(b)[1]} \cup KeysOf(t)
    <3>1. CASE n = 1
      BY <3>1, <1>2
    <3>2. CASE n # 1
      <4>1. n - 1 \in 1 .. Len(t) /\ t[n - 1] = b[n - 1 + 1] /\ n - 1 + 1 = n
        BY <3>2, <1>1, <1>2
      <4>2. QED
        BY <4>1 DEF KeysOf
    <3>3. QED
      BY <3>1, <3>2
  <2>2. ASSUME NEW n \in 1 .. Len(t) PROVE t[n][1] \in KeysOf(b)
    <3>1. n + 1 \in 1 .. Len(b) /\ t[n] = b[n + 1]
      BY <1>1, <1>2
    <3>2. QED
      BY <3>1 DEF KeysOf
  <2>3. Head(b)[1] \in KeysOf(b)
    BY <1>2 DEF KeysOf
  <2>4. QED
    BY <2>1, <2>2, <2>3 DEF KeysOf
<1>4. ASSUME NEW k \in KeysOf(t) PROVE LastOf(b, k) = LastOf(t, k)
  <2>1. PICK n : IsLast(t, k, n)
    BY <1>1, LastIsThere
  <2>2. n \in 1 .. Len(t) /\ n + 1 \in 1 .. Len(b) /\ t[n] = b[n + 1] /\ t[n][1] = k
    BY <2>1, <1>1, <1>2 DEF IsLast
  <2>3. ASSUME NEW m \in n + 1 + 1 .. Len(b) PROVE b[m][1] # k
    <3>1. m - 1 \in n + 1 .. Len(t) /\ t[m - 1] = b[m - 1 + 1] /\ m - 1 + 1 = m
      BY <2>2, <1>1, <1>2
    <3>2. QED
      BY <3>1, <2>1 DEF IsLast
  <2>4. IsLast(b, k, n + 1)
    BY <2>2, <2>3 DEF IsLast
  <2>5. QED
    BY <1>1, <2>1, <2>2, <2>4, LastIsOne
<1>5. ASSUME Head(b)[1] \notin KeysOf(t) PROVE LastOf(b, Head(b)[1]) = Head(b)[2]
  <2>1. ASSUME NEW m \in 2 .. Len(b) PROVE b[m][1] # Head(b)[1]
    <3>1. m - 1 \in 1 .. Len(t) /\ t[m - 1] = b[m - 1 + 1] /\ m - 1 + 1 = m
      BY <1>1, <1>2
    <3>2. QED
      BY <3>1, <1>5 DEF KeysOf
  <2>2. IsLast(b, Head(b)[1], 1)
    BY <1>2, <2>1 DEF IsLast
  <2>3. QED
    BY <1>2, <2>2, LastIsOne
<1>6. QED
  BY <1>1, <1>2, <1>3, <1>4, <1>5 DEF t

-----------------------------------------------------------------------------
(* How a step changes the requests: one goes on, ends or comes, the others *)
(* are as they were, but may have been overtaken.                          *)
Same(h)   == /\ job'[h].kind = job[h].kind /\ job'[h].no = job[h].no
             /\ job'[h].whole = job[h].whole
             /\ job'[h].name = job[h].name /\ job'[h].known = job[h].known
             /\ job[h].overtaken => job'[h].overtaken
Form(h)   == job'[h].body = job[h].body /\ job'[h].puts = job[h].puts
Alike(h)  == Same(h) /\ Form(h) /\ job'[h].pc = job[h].pc /\ job'[h].id = job[h].id
Others(h) == \A o \in Handlers \ {h} : Alike(o)
Typed     == job \in [Handlers -> Jobs]

LEMMA IdleType == Idle \in Jobs
<1>1. << >> \in Seq(Keys \X Values)
  BY EmptySeq
<1>2. [k \in Keys |-> Untouched] \in [Keys -> Values \cup {Untouched}]
  OBVIOUS
<1> DEFINE none == [k \in Keys |-> Untouched]
<1> HIDE DEF none
<1>3. Idle = [pc |-> "idle", kind |-> "none", no |-> 0, whole |-> FALSE, body |-> <<>>, puts |-> none,
              id |-> 0, name |-> NoRow, known |-> {}, overtaken |-> FALSE]
  BY DEF Idle, none
<1>4. none \in [Keys -> Values \cup {Untouched}]
  BY <1>2 DEF none
<1>5. "idle" \in Stages /\ "none" \in Kinds /\ 0 \in 0 .. MaxRequests /\ {} \in SUBSET Ids
      /\ NoRow \in Names \cup {NoRow} /\ FALSE \in BOOLEAN
  BY PreferencesAssumption DEF Stages, Kinds
<1>6. QED
  BY <1>1, <1>3, <1>4, <1>5 DEF Jobs

LEMMA IdleFields ==
  /\ Idle.pc = "idle" /\ Idle.kind = "none" /\ Idle.no = 0 /\ Idle.whole = FALSE /\ Idle.body = <<>>
  /\ \A k \in Keys : Idle.puts[k] = Untouched
  /\ Idle.id = 0 /\ Idle.name = NoRow /\ Idle.known = {} /\ Idle.overtaken = FALSE
BY DEF Idle

LEMMA BecomeStep ==
  ASSUME Typed, NEW h \in Handlers, NEW r \in Jobs, Become(h, r)
  PROVE  Typed' /\ job'[h] = r /\ Others(h)
BY DEF Typed, Become, Others, Alike, Same, Form

LEMMA EndStep ==
  ASSUME Typed, NEW h \in Handlers, End(h)
  PROVE  Typed' /\ job'[h] = Idle /\ Others(h)
BY IdleType, BecomeStep DEF End

LEMMA GotoStep ==
  ASSUME Typed, NEW h \in Handlers, NEW stage \in Stages, Goto(h, stage)
  PROVE  Typed' /\ job'[h].pc = stage /\ job'[h].id = job[h].id /\ Same(h) /\ Form(h) /\ Others(h)
<1>1. job[h] \in Jobs
  BY DEF Typed
<1> DEFINE r == [job[h] EXCEPT !.pc = stage]
<1>2. r \in Jobs /\ r.pc = stage /\ r.id = job[h].id /\ r.kind = job[h].kind /\ r.no = job[h].no
      /\ r.whole = job[h].whole /\ r.name = job[h].name /\ r.known = job[h].known
      /\ r.overtaken = job[h].overtaken /\ r.body = job[h].body /\ r.puts = job[h].puts
  BY <1>1 DEF Jobs
<1>3. Become(h, r)
  BY DEF Goto
<1> HIDE DEF r
<1>4. QED
  BY <1>2, <1>3, BecomeStep DEF Same, Form

LEMMA ClaimStep ==
  ASSUME Typed, NEW h \in Handlers, NEW i \in Ids,
         Become(h, [job[h] EXCEPT !.pc = "commit", !.id = i])
  PROVE  Typed' /\ job'[h].pc = "commit" /\ job'[h].id = i /\ Same(h) /\ Form(h) /\ Others(h)
<1>1. job[h] \in Jobs /\ "commit" \in Stages /\ i \in 0 .. MaxRequests
  BY PreferencesAssumption DEF Typed, Stages, Ids
<1> DEFINE r == [job[h] EXCEPT !.pc = "commit", !.id = i]
<1>2. r \in Jobs /\ r.pc = "commit" /\ r.id = i /\ r.kind = job[h].kind /\ r.no = job[h].no
      /\ r.whole = job[h].whole /\ r.name = job[h].name /\ r.known = job[h].known
      /\ r.overtaken = job[h].overtaken /\ r.body = job[h].body /\ r.puts = job[h].puts
  BY <1>1 DEF Jobs
<1>3. Become(h, r)
  OBVIOUS
<1> HIDE DEF r
<1>4. QED
  BY <1>2, <1>3, BecomeStep DEF Same, Form

LEMMA WriteStep ==
  ASSUME Typed, NEW h \in Handlers, NEW k \in Keys, NEW v \in Values \cup {Untouched},
         job[h].body # <<>>,
         Become(h, [job[h] EXCEPT !.body = Tail(@), !.puts[k] = v])
  PROVE  /\ Typed' /\ job'[h].pc = job[h].pc /\ job'[h].id = job[h].id /\ Same(h) /\ Others(h)
         /\ job'[h].body = Tail(job[h].body)
         /\ job'[h].puts[k] = v /\ \A q \in Keys \ {k} : job'[h].puts[q] = job[h].puts[q]
<1>1. job[h] \in Jobs
  BY DEF Typed
<1>2. job[h].body \in Body /\ job[h].puts \in [Keys -> Values \cup {Untouched}]
  BY <1>1 DEF Jobs, Body
<1>3. Tail(job[h].body) \in Body
  BY <1>2, WriteHead
<1>4. /\ [job[h].puts EXCEPT ![k] = v] \in [Keys -> Values \cup {Untouched}]
      /\ [job[h].puts EXCEPT ![k] = v][k] = v
      /\ \A q \in Keys \ {k} : [job[h].puts EXCEPT ![k] = v][q] = job[h].puts[q]
  BY <1>2
<1> DEFINE b == Tail(job[h].body)
<1> DEFINE p == [job[h].puts EXCEPT ![k] = v]
<1>5. Become(h, [job[h] EXCEPT !.body = b, !.puts = p])
  BY <1>1 DEF Jobs
<1> HIDE DEF b, p
<1> DEFINE r == [job[h] EXCEPT !.body = b, !.puts = p]
<1>6. b \in Seq(Keys \X Values) /\ p \in [Keys -> Values \cup {Untouched}]
  BY <1>3, <1>4 DEF b, p, Body
<1>7. r \in Jobs /\ r.pc = job[h].pc /\ r.id = job[h].id /\ r.kind = job[h].kind /\ r.no = job[h].no
      /\ r.whole = job[h].whole /\ r.name = job[h].name /\ r.known = job[h].known
      /\ r.overtaken = job[h].overtaken /\ r.body = b /\ r.puts = p
  BY <1>1, <1>6 DEF Jobs
<1> HIDE DEF r
<1>8. Become(h, r)
  BY <1>5 DEF r
<1>9. Typed' /\ job'[h] = r /\ Others(h)
  BY <1>7, <1>8, BecomeStep
<1>10. QED
  BY <1>4, <1>7, <1>9 DEF Same, b, p

LEMMA OvertakeStep ==
  ASSUME Typed, NEW h \in Handlers, NEW next \in Jobs, Overtake(h, next)
  PROVE  /\ Typed' /\ job'[h] = next /\ Others(h)
         /\ \A o \in Handlers \ {h} : job[o].pc \in {"idle", "check", "lookup"} \/ job'[o].overtaken
<1>1. job'[h] = next /\ job' = [g \in Handlers |-> job'[g]]
  BY DEF Overtake
<1>2. ASSUME NEW o \in Handlers \ {h}
      PROVE  job'[o] \in Jobs /\ Alike(o) /\ (job[o].pc \in {"idle", "check", "lookup"} \/ job'[o].overtaken)
  <2>1. job[o] \in Jobs
    BY DEF Typed
  <2>2. CASE job[o].pc \in {"idle", "check", "lookup"}
    <3>1. job'[o] = job[o]
      BY <2>2 DEF Overtake
    <3>2. QED
      BY <2>1, <2>2, <3>1 DEF Alike, Same, Form
  <2>3. CASE job[o].pc \notin {"idle", "check", "lookup"}
    <3>1. job'[o] = [job[o] EXCEPT !.overtaken = TRUE]
      BY <2>3 DEF Overtake
    <3> DEFINE r == [job[o] EXCEPT !.overtaken = TRUE]
    <3>2. r \in Jobs /\ r.pc = job[o].pc /\ r.id = job[o].id /\ r.kind = job[o].kind /\ r.no = job[o].no
          /\ r.whole = job[o].whole /\ r.name = job[o].name /\ r.known = job[o].known
          /\ r.overtaken = TRUE /\ r.body = job[o].body /\ r.puts = job[o].puts
      BY <2>1 DEF Jobs
    <3> HIDE DEF r
    <3>3. job'[o] = r
      BY <3>1 DEF r
    <3>4. QED
      BY <3>2, <3>3 DEF Alike, Same, Form
  <2>4. QED
    BY <2>2, <2>3
<1>3. \A o \in Handlers : job'[o] \in Jobs
  BY <1>1, <1>2
<1>4. Typed'
  BY <1>1, <1>3 DEF Typed
<1>5. QED
  BY <1>1, <1>2, <1>4 DEF Others

-----------------------------------------------------------------------------
(* The inductive invariant.  Of a request about languages: its kind fits   *)
(* its stage, it speaks of numbers that were handed out, one that adds has *)
(* a number that was not known when it was asked for, and a row it has     *)
(* locked is there.                                                        *)
Numbered == {i \in Ids : i < nextId}

Fit(h) ==
  /\ job[h].pc \in {"lookup", "name"} => job[h].kind \in {"add", "rename"}
  /\ job[h].pc \in {"find", "row"} => job[h].kind \in {"rename", "remove"}
  /\ job[h].pc = "commit" => job[h].kind \in {"add", "rename", "remove"}
  /\ job[h].pc = "band" => job[h].kind = "add"
  /\ job[h].kind \in {"add", "rename"} => job[h].name \in Names
  /\ job[h].kind \in {"rename", "remove"} => job[h].id \in Numbered
  /\ job[h].kind = "add" => job[h].known \subseteq Numbered
  /\ job[h].kind = "add" /\ job[h].pc \in {"lookup", "name"} => job[h].id = 0
  /\ job[h].kind = "add" /\ job[h].pc \in {"commit", "band"} => job[h].id \in Numbered \ job[h].known
  /\ \A i \in Ids : HoldsRow(h, i) => i \in Rows

(* Whoever has looked the name up and was not overtaken meets no other row *)
(* of it but those whose naming was, unless that of its own row was.       *)
SeenBy(h) ==
  /\ job[h].pc \in {"find", "row", "name", "commit"} /\ job[h].kind \in {"add", "rename"}
  /\ ~job[h].overtaken /\ (job[h].kind = "add" \/ job[h].id \in Rows)
  => \A i \in Rows \ {job[h].id} :
       Folded(name[i]) = Folded(job[h].name) => i \in late \/ (job[h].kind = "rename" /\ job[h].id \in late)

(* A row is locked by one transaction at a time.                           *)
OneHolder == \A h, g \in Handlers : h # g => \A i \in Ids : ~(HoldsRow(h, i) /\ HoldsRow(g, i))

LanguagesInv == /\ \A h \in Handlers : Fit(h) /\ SeenBy(h)
                /\ OneHolder /\ NoTwins /\ Rows \subseteq Numbered

(* Of a save: nothing is written before the check; what it leaves behind   *)
(* is in order, unless it was overtaken; a form has both limits to come or *)
(* written.                                                                *)
Effective(h, k) == IF k \in KeysOf(job[h].body) THEN LastOf(job[h].body, k)
                   ELSE IF HoldsKey(h, k) THEN job[h].puts[k] ELSE settings[k]
Touches(h) == \E k \in Limits : k \in KeysOf(job[h].body) \/ HoldsKey(h, k)

NotWritten(h) == job[h].pc = "check" => \A k \in Limits : ~HoldsKey(h, k)
InOrder(h)    == job[h].pc = "write" /\ ~job[h].overtaken /\ Touches(h)
                 => Ordered(Effective(h, "new"), Effective(h, "total"))
WholeForm(h)  == job[h].whole =>
                 \A k \in Limits : IF k \in KeysOf(job[h].body) THEN LastOf(job[h].body, k) # Unset
                                                               ELSE HoldsKey(h, k)

SettingsInv == /\ \A h \in Handlers : NotWritten(h) /\ InOrder(h) /\ WholeForm(h)
               /\ LimitsOrdered /\ SavesAreWhole

PreferencesInv == TypeOK /\ LanguagesInv /\ SettingsInv

LEMMA InvTyped == PreferencesInv => Typed
  BY DEF PreferencesInv, TypeOK, Typed

-----------------------------------------------------------------------------
(* A step that leaves the names alone asks nothing of the other requests.  *)
LEMMA LanguagesStep ==
  ASSUME TypeOK, LanguagesInv, NEW h \in Handlers, Others(h), UNCHANGED <<name, late>>,
         nextId' \in {nextId, nextId + 1}, Fit(h)', SeenBy(h)',
         \A i \in Ids : HoldsRow(h, i)' => HoldsRow(h, i) \/ \A g \in Handlers \ {h} : ~HoldsRow(g, i)
  PROVE  LanguagesInv'
<1>1. Rows' = Rows /\ Numbered \subseteq Numbered'
  BY DEF Rows, Numbered, TypeOK, Ids
<1>2. ASSUME NEW o \in Handlers \ {h}, NEW i \in Ids PROVE HoldsRow(o, i)' = HoldsRow(o, i)
  BY DEF Others, Alike, Same, HoldsRow, At
<1>3. ASSUME NEW o \in Handlers \ {h} PROVE Fit(o)' /\ SeenBy(o)'
  <2>1. Fit(o) /\ SeenBy(o) /\ Alike(o)
    BY DEF LanguagesInv, Others
  <2>2. Fit(o)'
    BY <1>1, <1>2, <2>1 DEF Fit, Alike, Same
  <2>3. SeenBy(o)'
    BY <1>1, <2>1 DEF SeenBy, Alike, Same
  <2>4. QED
    BY <2>2, <2>3
<1>4. OneHolder'
  BY <1>2 DEF OneHolder, LanguagesInv
<1>5. NoTwins' /\ (Rows \subseteq Numbered)'
  BY <1>1 DEF LanguagesInv, NoTwins
<1>6. QED
  BY <1>3, <1>4, <1>5 DEF LanguagesInv

LEMMA SettingsStep ==
  ASSUME SettingsInv, NEW h \in Handlers, Others(h), UNCHANGED <<settings, skewed, savedBy>>,
         NotWritten(h)', InOrder(h)', WholeForm(h)'
  PROVE  SettingsInv'
<1>1. ASSUME NEW o \in Handlers \ {h} PROVE NotWritten(o)' /\ InOrder(o)' /\ WholeForm(o)'
  <2>1. NotWritten(o) /\ InOrder(o) /\ WholeForm(o) /\ Alike(o)
    BY DEF SettingsInv, Others
  <2>2. \A k : HoldsKey(o, k)' = HoldsKey(o, k) /\ Effective(o, k)' = Effective(o, k)
    BY <2>1 DEF HoldsKey, Effective, Alike, Form
  <2>3. Touches(o)' = Touches(o)
    BY <2>1, <2>2 DEF Touches, Alike, Form
  <2>4. QED
    BY <2>1, <2>2, <2>3 DEF NotWritten, InOrder, WholeForm, Alike, Same, Form
<1>2. QED
  BY <1>1 DEF SettingsInv, LimitsOrdered, SavesAreWhole

(* A step that only moves a request.                                       *)
LEMMA QuietStep ==
  ASSUME PreferencesInv, NEW h \in Handlers, Others(h), Typed', UNCHANGED <<service, tables, history>>,
         asked' \in 0 .. MaxRequests, Fit(h)', SeenBy(h)',
         \A i \in Ids : HoldsRow(h, i)' => HoldsRow(h, i) \/ \A g \in Handlers \ {h} : ~HoldsRow(g, i),
         NotWritten(h)', InOrder(h)', WholeForm(h)'
  PROVE  PreferencesInv'
<1>1. TypeOK'
  BY DEF PreferencesInv, TypeOK, Typed, tables, history, Rows
<1>2. LanguagesInv'
  BY LanguagesStep DEF PreferencesInv, tables, history
<1>3. SettingsInv'
  BY SettingsStep DEF PreferencesInv, tables, history
<1>4. QED
  BY <1>1, <1>2, <1>3 DEF PreferencesInv

(* An idle handler owes nothing.                                           *)
LEMMA IdleOwesNothing ==
  ASSUME NEW h \in Handlers, job'[h] = Idle
  PROVE  /\ Fit(h)' /\ SeenBy(h)' /\ \A i \in Ids : ~HoldsRow(h, i)'
         /\ NotWritten(h)' /\ InOrder(h)' /\ WholeForm(h)'
BY IdleFields DEF Fit, SeenBy, HoldsRow, At, NotWritten, InOrder, WholeForm

(* Nor does a request that has no save to do owe anything to the settings. *)
LEMMA NoSaveToDo ==
  ASSUME SettingsInv, NEW h \in Handlers, Same(h), Form(h), job'[h].pc \notin {"check", "write"}
  PROVE  NotWritten(h)' /\ InOrder(h)' /\ WholeForm(h)'
BY DEF SettingsInv, NotWritten, InOrder, WholeForm, HoldsKey, Same, Form

LEMMA EndKeeps ==
  ASSUME PreferencesInv, NEW h \in Handlers, End(h), UNCHANGED <<service, tables, asked, history>>
  PROVE  PreferencesInv'
<1>1. Typed' /\ job'[h] = Idle /\ Others(h)
  BY InvTyped, EndStep
<1>2. asked' \in 0 .. MaxRequests
  BY DEF PreferencesInv, TypeOK
<1>3. QED
  BY <1>1, <1>2, IdleOwesNothing, QuietStep

-----------------------------------------------------------------------------
(* Requests come.                                                          *)
LEMMA SaveComes ==
  ASSUME PreferencesInv, NEW h \in Handlers, NEW body \in Saves, AskToSave(h, body)
  PROVE  PreferencesInv'
<1>1. body \in Body /\ asked + 1 \in 0 .. MaxRequests
  BY PreferencesAssumption DEF Body, PreferencesInv, TypeOK, AskToSave, Start
<1> DEFINE pc == IF KeysOf(body) \cap Limits = {} THEN "write" ELSE "check"
           whole == \A k \in Limits : k \in KeysOf(body) /\ LastOf(body, k) # Unset
           r == [Idle EXCEPT !.pc = pc, !.kind = "save", !.no = asked + 1, !.body = body, !.whole = whole]
<1>2. pc \in Stages /\ whole \in BOOLEAN /\ "save" \in Kinds /\ Start(h, r)
  BY DEF Stages, Kinds, AskToSave
<1>3. Touches(h)' /\ job'[h].body = body => pc = "check" \/ \E k \in Limits : HoldsKey(h, k)'
  BY DEF Touches
<1> HIDE DEF pc, whole
<1>4. /\ r \in Jobs /\ r.pc = pc /\ r.kind = "save" /\ r.body = body /\ r.whole = whole /\ r.overtaken = FALSE
      /\ \A k \in Keys : r.puts[k] = Untouched
  BY <1>1, <1>2, IdleType, IdleFields DEF Jobs, Body
<1> HIDE DEF r
<1>5. Typed' /\ job'[h] = r /\ Others(h)
  BY <1>2, <1>4, InvTyped, BecomeStep DEF Start
<1>6. \A k \in Limits : ~HoldsKey(h, k)'
  BY <1>4, <1>5, PreferencesAssumption DEF HoldsKey
<1>7. pc \in {"check", "write"} /\ (whole => \A k \in Limits : k \in KeysOf(body) /\ LastOf(body, k) # Unset)
  BY DEF pc, whole
<1>8. NotWritten(h)' /\ InOrder(h)' /\ WholeForm(h)'
  BY <1>3, <1>4, <1>5, <1>6, <1>7 DEF NotWritten, InOrder, WholeForm
<1>9. Fit(h)' /\ SeenBy(h)' /\ \A i \in Ids : ~HoldsRow(h, i)'
  BY <1>4, <1>5, <1>7 DEF Fit, SeenBy, HoldsRow, At
<1>10. asked' \in 0 .. MaxRequests /\ UNCHANGED <<service, tables, history>>
  BY <1>1, <1>2 DEF Start
<1>11. QED
  BY <1>5, <1>8, <1>9, <1>10, QuietStep

(* A request about languages.                                              *)
LEMMA LanguageComes ==
  ASSUME PreferencesInv, NEW h \in Handlers, NEW r \in Jobs, Start(h, r),
         r.pc \in {"lookup", "find"}, r.kind \in {"add", "rename", "remove"},
         r.kind \in {"add", "rename"} => r.name \in Names,
         r.kind = "remove" <=> r.pc = "find",
         r.kind = "add" => r.id = 0 /\ r.known \subseteq Numbered,
         r.kind # "add" => r.id \in Numbered,
         ~r.whole
  PROVE  PreferencesInv'
<1>1. Typed' /\ job'[h] = r /\ Others(h)
  BY InvTyped, BecomeStep DEF Start
<1>2. asked' \in 0 .. MaxRequests /\ UNCHANGED <<service, tables, history>>
  BY PreferencesAssumption DEF PreferencesInv, TypeOK, Start
<1>3. Numbered' = Numbered
  BY <1>2 DEF Numbered, tables
<1>4. Fit(h)' /\ SeenBy(h)' /\ \A i \in Ids : ~HoldsRow(h, i)'
  BY <1>1, <1>3 DEF Fit, SeenBy, HoldsRow, At
<1>5. NotWritten(h)' /\ InOrder(h)' /\ WholeForm(h)'
  BY <1>1 DEF NotWritten, InOrder, WholeForm
<1>6. QED
  BY <1>1, <1>2, <1>4, <1>5, QuietStep

LEMMA AddComes ==
  ASSUME PreferencesInv, NEW h \in Handlers, NEW n \in Names, AskToAdd(h, n)
  PROVE  PreferencesInv'
<1> DEFINE r == [Idle EXCEPT !.pc = "lookup", !.kind = "add", !.name = n, !.known = Rows]
<1>1. "lookup" \in Stages /\ "add" \in Kinds /\ n \in Names \cup {NoRow} /\ Rows \in SUBSET Ids
  BY DEF Stages, Kinds, Rows
<1>2. /\ r \in Jobs /\ r.pc = "lookup" /\ r.kind = "add" /\ r.name = n /\ r.known = Rows
      /\ r.id = 0 /\ ~r.whole
  BY <1>1, IdleType, IdleFields DEF Jobs
<1>3. Start(h, r) /\ Rows \subseteq Numbered
  BY DEF AskToAdd, PreferencesInv, LanguagesInv
<1> HIDE DEF r
<1>4. QED
  BY <1>2, <1>3, LanguageComes

LEMMA RenameComes ==
  ASSUME PreferencesInv, NEW h \in Handlers, NEW n \in Names, NEW i \in Ids, AskToRename(h, i, n)
  PROVE  PreferencesInv'
<1> DEFINE r == [Idle EXCEPT !.pc = "lookup", !.kind = "rename", !.id = i, !.name = n]
<1>1. "lookup" \in Stages /\ "rename" \in Kinds /\ n \in Names \cup {NoRow} /\ i \in 0 .. MaxRequests
  BY PreferencesAssumption DEF Stages, Kinds, Ids
<1>2. r \in Jobs /\ r.pc = "lookup" /\ r.kind = "rename" /\ r.name = n /\ r.id = i /\ ~r.whole
  BY <1>1, IdleType, IdleFields DEF Jobs
<1>3. Start(h, r) /\ i \in Numbered
  BY DEF AskToRename, Numbered
<1> HIDE DEF r
<1>4. QED
  BY <1>2, <1>3, LanguageComes

LEMMA RemovalComes ==
  ASSUME PreferencesInv, NEW h \in Handlers, NEW i \in Ids, AskToRemove(h, i)
  PROVE  PreferencesInv'
<1> DEFINE r == [Idle EXCEPT !.pc = "find", !.kind = "remove", !.id = i]
<1>1. "find" \in Stages /\ "remove" \in Kinds /\ i \in 0 .. MaxRequests
  BY PreferencesAssumption DEF Stages, Kinds, Ids
<1>2. r \in Jobs /\ r.pc = "find" /\ r.kind = "remove" /\ r.id = i /\ ~r.whole
  BY <1>1, IdleType, IdleFields DEF Jobs
<1>3. Start(h, r) /\ i \in Numbered
  BY DEF AskToRemove, Numbered
<1> HIDE DEF r
<1>4. QED
  BY <1>2, <1>3, LanguageComes

-----------------------------------------------------------------------------
(* Settings are checked, written and committed.                            *)
LEMMA LimitsChecked ==
  ASSUME PreferencesInv, NEW h \in Handlers, CheckLimits(h)
  PROVE  PreferencesInv'
<1>1. CASE ~Ordered(Merged(job[h].body, "new"), Merged(job[h].body, "total"))
  BY <1>1, EndKeeps DEF CheckLimits
<1>2. CASE Ordered(Merged(job[h].body, "new"), Merged(job[h].body, "total"))
  <2>1. Goto(h, "write") /\ "write" \in Stages /\ At(h, "check")
        /\ UNCHANGED <<service, tables, asked, history>>
    BY <1>2 DEF CheckLimits, Stages
  <2>2. Typed' /\ job'[h].pc = "write" /\ job'[h].id = job[h].id /\ Same(h) /\ Form(h) /\ Others(h)
    BY <2>1, InvTyped, GotoStep
  <2>3. Fit(h)' /\ SeenBy(h)' /\ \A i \in Ids : ~HoldsRow(h, i)'
    <3>1. Fit(h) /\ Numbered' = Numbered
      BY <2>1 DEF PreferencesInv, LanguagesInv, Numbered, tables
    <3>2. QED
      BY <2>2, <3>1 DEF Fit, SeenBy, HoldsRow, At, Same
  <2>4. \A k \in Limits : Effective(h, k)' = Merged(job[h].body, k)
    <3>1. \A k \in Limits : ~HoldsKey(h, k)
      BY <2>1 DEF PreferencesInv, SettingsInv, NotWritten, At
    <3>2. QED
      BY <2>1, <2>2, <3>1 DEF Effective, Merged, HoldsKey, Form, tables
  <2>5. NotWritten(h)' /\ InOrder(h)' /\ WholeForm(h)'
    <3>1. WholeForm(h)
      BY DEF PreferencesInv, SettingsInv
    <3>2. "new" \in Limits /\ "total" \in Limits
      BY DEF Limits
    <3>3. InOrder(h)'
      BY <1>2, <2>4, <3>2 DEF InOrder, Ordered
    <3>4. NotWritten(h)' /\ WholeForm(h)'
      BY <2>2, <3>1 DEF NotWritten, WholeForm, HoldsKey, Form, Same
    <3>5. QED
      BY <3>3, <3>4
  <2>6. asked' \in 0 .. MaxRequests
    BY <2>1 DEF PreferencesInv, TypeOK
  <2>7. QED
    BY <2>1, <2>2, <2>3, <2>5, <2>6, QuietStep
<1>3. QED
  BY <1>1, <1>2

LEMMA KeyWritten ==
  ASSUME PreferencesInv, NEW h \in Handlers, Write(h)
  PROVE  PreferencesInv'
<1> DEFINE body == job[h].body
           k == Head(body)[1]
           v == Head(body)[2]
           noop == v = Unset /\ settings[k] = Unset /\ ~HoldsKey(h, k)
           p == IF noop THEN job[h].puts[k] ELSE v
<1>1. Typed /\ job[h] \in Jobs /\ body \in Body /\ job[h].puts \in [Keys -> Values \cup {Untouched}]
  BY InvTyped DEF Typed, Jobs, Body
<1>2. body # <<>> /\ At(h, "write") /\ UNCHANGED <<service, tables, asked, history>>
  BY EmptySeq DEF Write
<1>3. /\ k \in Keys /\ v \in Values /\ Tail(body) \in Body
      /\ KeysOf(body) = {k} \cup KeysOf(Tail(body))
      /\ \A q \in KeysOf(Tail(body)) : LastOf(body, q) = LastOf(Tail(body), q)
      /\ k \notin KeysOf(Tail(body)) => LastOf(body, k) = v
  BY <1>1, <1>2, WriteHead
<1>4. Become(h, [job[h] EXCEPT !.body = Tail(@), !.puts[k] = p]) /\ p \in Values \cup {Untouched}
  BY <1>1, <1>3 DEF Write, Jobs
<1>5. /\ Typed' /\ job'[h].pc = job[h].pc /\ job'[h].id = job[h].id /\ Same(h) /\ Others(h)
      /\ job'[h].body = Tail(body)
      /\ job'[h].puts[k] = p /\ \A q \in Keys \ {k} : job'[h].puts[q] = job[h].puts[q]
  BY <1>1, <1>2, <1>3, <1>4, WriteStep
<1>6. p = Untouched => v = Unset /\ settings[k] = Unset /\ ~HoldsKey(h, k)
  BY <1>3, PreferencesAssumption
<1>7. p # Untouched => p = v
  BY DEF HoldsKey
<1>8. Limits \subseteq Keys
  BY PreferencesAssumption
<1> HIDE DEF body, k, v, p
<1>9. ASSUME NEW q \in Limits PROVE Effective(h, q)' = Effective(h, q)
  <2>1. job[h].body = body /\ settings' = settings
    BY <1>2 DEF body, tables
  <2>2. CASE q \in KeysOf(Tail(body))
    BY <1>3, <1>5, <2>1, <2>2 DEF Effective
  <2>3. CASE q \notin KeysOf(Tail(body)) /\ q # k
    BY <1>3, <1>5, <1>8, <2>1, <2>3 DEF Effective, HoldsKey
  <2>4. CASE q \notin KeysOf(Tail(body)) /\ q = k
    BY <1>3, <1>5, <1>6, <1>7, <2>1, <2>4 DEF Effective, HoldsKey
  <2>5. QED
    BY <2>2, <2>3, <2>4
<1>10. Touches(h)' => Touches(h)
  <2>1. ASSUME NEW q \in Limits, q \in KeysOf(Tail(body)) \/ HoldsKey(h, q)'
        PROVE  q \in KeysOf(body) \/ HoldsKey(h, q)
    BY <1>3, <1>5, <1>8, <2>1 DEF HoldsKey
  <2>2. QED
    BY <1>5, <2>1 DEF Touches, body
<1>11. NotWritten(h)' /\ InOrder(h)' /\ WholeForm(h)'
  <2>1. InOrder(h) /\ WholeForm(h) /\ "new" \in Limits /\ "total" \in Limits
    BY DEF PreferencesInv, SettingsInv, Limits
  <2>2. NotWritten(h)'
    BY <1>2, <1>5 DEF NotWritten, At
  <2>3. InOrder(h)'
    BY <1>5, <1>9, <1>10, <2>1 DEF InOrder, Ordered, Same
  <2>4. ASSUME NEW q \in Limits, job'[h].whole
        PROVE  IF q \in KeysOf(Tail(body)) THEN LastOf(Tail(body), q) # Unset ELSE HoldsKey(h, q)'
    <3>1. IF q \in KeysOf(body) THEN LastOf(body, q) # Unset ELSE HoldsKey(h, q)
      BY <1>5, <2>1, <2>4 DEF WholeForm, Same, body
    <3>2. CASE q \in KeysOf(Tail(body))
      BY <1>3, <3>1, <3>2
    <3>3. CASE q \notin KeysOf(Tail(body)) /\ q # k
      BY <1>3, <1>5, <1>8, <3>1, <3>3 DEF HoldsKey
    <3>4. CASE q \notin KeysOf(Tail(body)) /\ q = k
      BY <1>3, <1>5, <1>6, <3>1, <3>4 DEF HoldsKey
    <3>5. QED
      BY <3>2, <3>3, <3>4
  <2>5. WholeForm(h)'
    BY <1>5, <2>4 DEF WholeForm
  <2>6. QED
    BY <2>2, <2>3, <2>5
<1>12. Fit(h)' /\ SeenBy(h)' /\ \A i \in Ids : ~HoldsRow(h, i)'
  <2>1. Fit(h) /\ Numbered' = Numbered
    BY <1>2 DEF PreferencesInv, LanguagesInv, Numbered, tables
  <2>2. QED
    BY <1>2, <1>5, <2>1 DEF Fit, SeenBy, HoldsRow, At, Same
<1>13. asked' \in 0 .. MaxRequests
  BY <1>2 DEF PreferencesInv, TypeOK
<1>14. QED
  BY <1>2, <1>5, <1>11, <1>12, <1>13, QuietStep

LEMMA SaveCommitted ==
  ASSUME PreferencesInv, NEW h \in Handlers, CommitSave(h)
  PROVE  PreferencesInv'
<1> DEFINE mine == {k \in Keys : HoldsKey(h, k)}
<1>1. /\ At(h, "write") /\ job[h].body = <<>> /\ UNCHANGED <<service, name, level, nextId, asked, late>>
      /\ settings' = [k \in Keys |-> IF k \in mine THEN job[h].puts[k] ELSE settings[k]]
      /\ savedBy' = [k \in Limits |-> IF k \in mine THEN Author(h) ELSE savedBy[k]]
      /\ IF mine \cap Limits = {} THEN End(h) /\ UNCHANGED skewed
                                  ELSE Overtake(h, Idle) /\ skewed' = job[h].overtaken
  BY DEF CommitSave
<1>2. Typed /\ Limits \subseteq Keys /\ KeysOf(job[h].body) = {} /\ "new" \in Limits /\ "total" \in Limits
  BY <1>1, InvTyped, PreferencesAssumption, EmptySeq DEF KeysOf, Limits
<1>3. job[h] \in Jobs
  BY <1>2 DEF Typed
<1>4. Typed' /\ job'[h] = Idle /\ Others(h)
  BY <1>1, <1>2, IdleType, EndStep, OvertakeStep
<1>5. /\ Fit(h)' /\ SeenBy(h)' /\ \A i \in Ids : ~HoldsRow(h, i)'
      /\ NotWritten(h)' /\ InOrder(h)' /\ WholeForm(h)'
  BY <1>4, IdleOwesNothing
<1>6. TypeOK'
  <2>1. settings' \in [Keys -> Values]
    <3>1. ASSUME NEW k \in Keys, k \in mine PROVE job[h].puts[k] \in Values
      BY <1>3, <3>1 DEF HoldsKey, Jobs
    <3>2. settings \in [Keys -> Values]
      BY DEF PreferencesInv, TypeOK
    <3>3. QED
      BY <1>1, <3>1, <3>2
  <2>2. savedBy' \in [Limits -> 0 .. MaxRequests]
    <3>1. Author(h) \in 0 .. MaxRequests
      BY <1>3, PreferencesAssumption DEF Author, Jobs
    <3>2. savedBy \in [Limits -> 0 .. MaxRequests]
      BY DEF PreferencesInv, TypeOK
    <3>3. QED
      BY <1>1, <3>1, <3>2
  <2>3. skewed' \in BOOLEAN
    BY <1>1, <1>3 DEF Jobs, PreferencesInv, TypeOK
  <2>4. QED
    BY <1>1, <1>4, <2>1, <2>2, <2>3 DEF PreferencesInv, TypeOK, Typed, Rows
<1>7. LanguagesInv'
  BY <1>1, <1>4, <1>5, LanguagesStep DEF PreferencesInv
<1>8. \A k \in Limits : settings'[k] = Effective(h, k)
  BY <1>1, <1>2 DEF Effective
<1>9. ASSUME NEW o \in Handlers \ {h} PROVE NotWritten(o)' /\ InOrder(o)' /\ WholeForm(o)'
  <2>1. NotWritten(o) /\ InOrder(o) /\ WholeForm(o) /\ Alike(o)
    BY <1>4 DEF PreferencesInv, SettingsInv, Others
  <2>2. \A k : HoldsKey(o, k)' = HoldsKey(o, k)
    BY <2>1 DEF HoldsKey, Alike, Form
  <2>3. NotWritten(o)' /\ WholeForm(o)'
    BY <2>1, <2>2 DEF NotWritten, WholeForm, Alike, Same, Form
  <2>4. CASE mine \cap Limits = {}
    <3>1. \A k \in Limits : settings'[k] = settings[k]
      BY <1>1, <1>2, <2>4
    <3>2. \A k \in Limits : Effective(o, k)' = Effective(o, k)
      BY <2>1, <2>2, <3>1 DEF Effective, Alike, Form
    <3>3. Touches(o)' = Touches(o)
      BY <2>1, <2>2 DEF Touches, Alike, Form
    <3>4. InOrder(o)'
      BY <1>2, <2>1, <3>2, <3>3 DEF InOrder, Ordered, Alike, Same
    <3>5. QED
      BY <2>3, <3>4
  <2>5. CASE mine \cap Limits # {}
    <3>1. job[o].pc \in {"idle", "check", "lookup"} \/ job'[o].overtaken
      BY <1>1, <1>2, <2>5, IdleType, OvertakeStep
    <3>2. InOrder(o)'
      BY <2>1, <3>1 DEF InOrder, Alike
    <3>3. QED
      BY <2>3, <3>2
  <2>6. QED
    BY <2>4, <2>5
<1>10. LimitsOrdered'
  <2>1. CASE mine \cap Limits = {}
    <3>1. \A k \in Limits : settings'[k] = settings[k]
      BY <1>1, <1>2, <2>1
    <3>2. QED
      BY <1>1, <1>2, <2>1, <3>1 DEF PreferencesInv, SettingsInv, LimitsOrdered, Ordered
  <2>2. CASE mine \cap Limits # {}
    <3>1. Touches(h) /\ InOrder(h) /\ skewed' = job[h].overtaken
      BY <1>1, <2>2 DEF Touches, PreferencesInv, SettingsInv
    <3>2. ~skewed' => Ordered(Effective(h, "new"), Effective(h, "total"))
      BY <1>1, <3>1 DEF InOrder, At
    <3>3. QED
      BY <1>2, <1>8, <3>2 DEF LimitsOrdered, Ordered
  <2>3. QED
    BY <2>1, <2>2
<1>11. SavesAreWhole'
  <2>1. WholeForm(h) /\ SavesAreWhole
    BY DEF PreferencesInv, SettingsInv
  <2>2. CASE job[h].whole
    <3>1. \A k \in Limits : k \in mine
      BY <1>2, <2>1, <2>2 DEF WholeForm
    <3>2. QED
      BY <1>1, <1>2, <3>1 DEF SavesAreWhole
  <2>3. CASE ~job[h].whole
    <3>1. Author(h) = 0
      BY <2>3 DEF Author
    <3>2. QED
      BY <1>1, <1>2, <2>1, <3>1 DEF SavesAreWhole
  <2>4. QED
    BY <1>3, <2>2, <2>3
<1>12. SettingsInv'
  BY <1>5, <1>9, <1>10, <1>11 DEF SettingsInv
<1>13. QED
  BY <1>6, <1>7, <1>12 DEF PreferencesInv

-----------------------------------------------------------------------------
(* Names are looked up, rows are locked, names are claimed and committed.  *)
LEMMA OldestIsThere ==
  ASSUME NEW n, NEW i, Match(n, i)
  PROVE  \E k \in Rows : Oldest(n, k)
<1> DEFINE T == {k \in Ids : Match(n, k)}
<1>1. i \in T
  BY DEF Match, Rows
<1>2. T \subseteq Nat
  BY DEF Ids
<1>3. PICK k \in T : \A m \in T : k <= m
  <2> HIDE DEF T
  <2>1. QED
    BY <1>1, <1>2, LeastNumber
<1>4. QED
  BY <1>3 DEF Oldest, Match

(* Steps that only bring a request on.                                     *)
LEMMA GoesOn ==
  ASSUME PreferencesInv, NEW h \in Handlers, NEW stage \in Stages \ {"check", "write"}, Goto(h, stage),
         UNCHANGED <<service, tables, asked, history>>,
         Fit(h)', SeenBy(h)',
         \A i \in Ids : HoldsRow(h, i)' => HoldsRow(h, i) \/ \A g \in Handlers \ {h} : ~HoldsRow(g, i)
  PROVE  PreferencesInv'
<1>1. Typed' /\ job'[h].pc = stage /\ Same(h) /\ Form(h) /\ Others(h)
  BY InvTyped, GotoStep
<1>2. NotWritten(h)' /\ InOrder(h)' /\ WholeForm(h)'
  BY <1>1, NoSaveToDo DEF PreferencesInv
<1>3. asked' \in 0 .. MaxRequests
  BY DEF PreferencesInv, TypeOK
<1>4. QED
  BY <1>1, <1>2, <1>3, QuietStep

LEMMA LookedUp ==
  ASSUME PreferencesInv, NEW h \in Handlers, LookUp(h)
  PROVE  PreferencesInv'
<1> DEFINE taken == \E i \in Rows \ {job[h].id} : Oldest(job[h].name, i)
           stage == IF job[h].kind = "add" THEN "name" ELSE "find"
<1>1. CASE taken
  BY <1>1, EndKeeps DEF LookUp
<1>2. CASE ~taken
  <2>1. At(h, "lookup") /\ Goto(h, stage) /\ UNCHANGED <<service, tables, asked, history>>
    BY <1>2 DEF LookUp
  <2>2. stage \in Stages \ {"check", "write"}
    BY DEF Stages
  <2>3. \/ stage = "name" /\ job[h].kind = "add"
        \/ stage = "find" /\ job[h].kind # "add"
    OBVIOUS
  <2> HIDE DEF stage
  <2>4. Typed' /\ job'[h].pc = stage /\ job'[h].id = job[h].id /\ Same(h) /\ Form(h) /\ Others(h)
    BY <2>1, <2>2, InvTyped, GotoStep
  <2>5. Fit(h) /\ Numbered' = Numbered /\ Rows' = Rows /\ name' = name /\ late' = late
    BY <2>1 DEF PreferencesInv, LanguagesInv, Numbered, Rows, tables, history
  <2>6. job[h].kind \in {"add", "rename"}
    BY <2>1, <2>5 DEF Fit, At
  <2>7. \A i \in Ids : ~HoldsRow(h, i)'
    BY <2>3, <2>4, <2>6 DEF HoldsRow, At, Same
  <2>8. Fit(h)'
    BY <2>1, <2>3, <2>4, <2>5, <2>6, <2>7 DEF Fit, At, Same
  <2>9. SeenBy(h)'
    <3>1. ASSUME NEW i \in Rows \ {job[h].id}, Folded(name[i]) = Folded(job[h].name)
          PROVE  job[h].kind = "rename" /\ (i \in late \/ job[h].id \in late)
      <4>1. PICK k \in Rows : Oldest(job[h].name, k)
        BY <3>1, OldestIsThere DEF Match
      <4>2. k = job[h].id
        BY <1>2, <4>1
      <4>3. job[h].kind = "rename"
        <5>1. k # 0
          BY DEF Rows, Ids
        <5>2. QED
          BY <2>1, <2>5, <2>6, <4>2, <5>1 DEF Fit, At
      <4>4. Folded(name[k]) = Folded(name[i])
        BY <3>1, <4>1 DEF Oldest, Match
      <4>5. QED
        BY <3>1, <4>2, <4>3, <4>4 DEF PreferencesInv, LanguagesInv, NoTwins
    <3>2. QED
      BY <2>4, <2>5, <3>1 DEF SeenBy, Same
  <2>10. QED
    BY <2>1, <2>2, <2>7, <2>8, <2>9, GoesOn
<1>3. QED
  BY <1>1, <1>2

LEMMA Found ==
  ASSUME PreferencesInv, NEW h \in Handlers, Find(h)
  PROVE  PreferencesInv'
<1>1. CASE End(h)
  BY <1>1, EndKeeps DEF Find
<1>2. CASE Goto(h, "row")
  <2>1. At(h, "find") /\ UNCHANGED <<service, tables, asked, history>> /\ "row" \in Stages \ {"check", "write"}
    BY DEF Find, Stages
  <2>2. Typed' /\ job'[h].pc = "row" /\ job'[h].id = job[h].id /\ Same(h) /\ Form(h) /\ Others(h)
    BY <1>2, <2>1, InvTyped, GotoStep
  <2>3. Fit(h) /\ SeenBy(h) /\ Numbered' = Numbered /\ Rows' = Rows /\ name' = name /\ late' = late
    BY <2>1 DEF PreferencesInv, LanguagesInv, Numbered, Rows, tables, history
  <2>4. \A i \in Ids : ~HoldsRow(h, i)'
    BY <2>2 DEF HoldsRow, At
  <2>5. Fit(h)'
    BY <2>1, <2>2, <2>3, <2>4 DEF Fit, At, Same
  <2>6. SeenBy(h)'
    BY <2>1, <2>2, <2>3 DEF SeenBy, At, Same
  <2>7. QED
    BY <1>2, <2>1, <2>4, <2>5, <2>6, GoesOn
<1>3. QED
  BY <1>1, <1>2 DEF Find

LEMMA RowLocked ==
  ASSUME PreferencesInv, NEW h \in Handlers, LockRow(h)
  PROVE  PreferencesInv'
<1> DEFINE stage == IF job[h].kind = "rename" THEN "name" ELSE "commit"
<1>1. CASE job[h].id \notin Rows
  BY <1>1, EndKeeps DEF LockRow
<1>2. CASE job[h].id \in Rows
  <2>1. /\ At(h, "row") /\ Goto(h, stage) /\ UNCHANGED <<service, tables, asked, history>>
        /\ \A g \in Handlers \ {h} : ~HoldsRow(g, job[h].id)
    BY <1>2 DEF LockRow, WaitsForRow
  <2>2. stage \in Stages \ {"check", "write"}
    BY DEF Stages
  <2>3. \/ stage = "name" /\ job[h].kind = "rename"
        \/ stage = "commit" /\ job[h].kind # "rename"
    OBVIOUS
  <2> HIDE DEF stage
  <2>4. Typed' /\ job'[h].pc = stage /\ job'[h].id = job[h].id /\ Same(h) /\ Form(h) /\ Others(h)
    BY <2>1, <2>2, InvTyped, GotoStep
  <2>5. Fit(h) /\ SeenBy(h) /\ Numbered' = Numbered /\ Rows' = Rows /\ name' = name /\ late' = late
    BY <2>1 DEF PreferencesInv, LanguagesInv, Numbered, Rows, tables, history
  <2>6. job[h].kind \in {"rename", "remove"}
    BY <2>1, <2>5 DEF Fit, At
  <2>7. \A i \in Ids : HoldsRow(h, i)' => i = job[h].id
    BY <2>4 DEF HoldsRow
  <2>8. Fit(h)'
    BY <1>2, <2>1, <2>3, <2>4, <2>5, <2>6, <2>7 DEF Fit, At, Same
  <2>9. SeenBy(h)'
    BY <2>1, <2>3, <2>4, <2>5 DEF SeenBy, At, Same
  <2>10. QED
    BY <2>1, <2>2, <2>7, <2>8, <2>9, GoesOn
<1>3. QED
  BY <1>1, <1>2

LEMMA NameClaimed ==
  ASSUME PreferencesInv, NEW h \in Handlers, ClaimName(h)
  PROVE  PreferencesInv'
<1>1. At(h, "name") /\ UNCHANGED <<service, settings, name, level, asked, history>>
  BY DEF ClaimName
<1>2. Fit(h) /\ SeenBy(h) /\ late \subseteq Rows /\ Rows' = Rows /\ name' = name /\ late' = late
  BY <1>1 DEF PreferencesInv, LanguagesInv, TypeOK, Rows, history
<1>3. job[h].kind \in {"add", "rename"} /\ Rows \subseteq Ids
  BY <1>1, <1>2 DEF Fit, At, Rows
<1>4. CASE End(h) /\ UNCHANGED nextId
  <2>1. UNCHANGED <<service, tables, asked, history>>
    BY <1>1, <1>4 DEF tables
  <2>2. QED
    BY <1>4, <2>1, EndKeeps
<1>5. CASE job[h].kind # "add" /\ Goto(h, "commit") /\ UNCHANGED nextId
  <2>1. UNCHANGED <<service, tables, asked, history>> /\ "commit" \in Stages \ {"check", "write"} /\ Numbered' = Numbered
    BY <1>1, <1>5 DEF tables, Stages, Numbered
  <2>2. Typed' /\ job'[h].pc = "commit" /\ job'[h].id = job[h].id /\ Same(h) /\ Form(h) /\ Others(h)
    BY <1>5, <2>1, InvTyped, GotoStep
  <2>3. \A i \in Ids : HoldsRow(h, i)' => HoldsRow(h, i)
    BY <1>1, <1>3, <1>5, <2>2 DEF HoldsRow, At, Same
  <2>4. Fit(h)'
    BY <1>1, <1>2, <1>3, <1>5, <2>1, <2>2, <2>3 DEF Fit, At, Same
  <2>5. SeenBy(h)'
    BY <1>1, <1>2, <2>2 DEF SeenBy, At, Same
  <2>6. QED
    BY <1>5, <2>1, <2>3, <2>4, <2>5, GoesOn
<1>6. CASE /\ job[h].kind = "add" /\ nextId \in Ids /\ nextId' = nextId + 1
           /\ Become(h, [job[h] EXCEPT !.pc = "commit", !.id = nextId])
  <2>1. Typed' /\ job'[h].pc = "commit" /\ job'[h].id = nextId /\ Same(h) /\ Form(h) /\ Others(h)
    BY <1>6, InvTyped, ClaimStep
  <2>2. Numbered \subseteq Numbered' /\ nextId \in Numbered' \ Numbered /\ nextId' \in 1 .. MaxRequests + 1
    BY <1>6, PreferencesAssumption DEF Numbered, Ids
  <2>3. \A i \in Ids : ~HoldsRow(h, i)'
    BY <1>6, <2>1 DEF HoldsRow, At, Same
  <2>4. Fit(h)'
    BY <1>2, <1>3, <1>6, <2>1, <2>2, <2>3 DEF Fit, Same
  <2>5. SeenBy(h)'
    <3>1. ASSUME NEW i \in Rows, ~job[h].overtaken, Folded(name[i]) = Folded(job[h].name)
          PROVE  i \in late
      <4>1. job[h].id = 0 /\ 0 \notin Ids
        BY <1>1, <1>2, <1>6 DEF Fit, At, Ids
      <4>2. QED
        BY <1>1, <1>2, <1>3, <1>6, <3>1, <4>1 DEF SeenBy, At
    <3>2. QED
      BY <1>2, <2>1, <3>1 DEF SeenBy, Same
  <2>6. TypeOK'
    BY <1>1, <2>1, <2>2 DEF PreferencesInv, TypeOK, Typed, history, Rows
  <2>7. LanguagesInv'
    BY <1>2, <1>6, <2>1, <2>3, <2>4, <2>5, LanguagesStep DEF PreferencesInv
  <2>8. SettingsInv'
    <3>1. NotWritten(h)' /\ InOrder(h)' /\ WholeForm(h)'
      BY <2>1, NoSaveToDo DEF PreferencesInv
    <3>2. QED
      BY <1>1, <2>1, <3>1, SettingsStep DEF PreferencesInv, history
  <2>9. QED
    BY <2>6, <2>7, <2>8 DEF PreferencesInv
<1>7. QED
  BY <1>4, <1>5, <1>6 DEF ClaimName

LEMMA NameCommitted ==
  ASSUME PreferencesInv, NEW h \in Handlers, CommitName(h)
  PROVE  PreferencesInv'
<1> DEFINE i == job[h].id
           n == job[h].name
           next == IF job[h].kind = "add" THEN [job[h] EXCEPT !.pc = "band"] ELSE Idle
<1>1. /\ At(h, "commit") /\ job[h].kind # "remove" /\ name' = [name EXCEPT ![i] = n]
      /\ Overtake(h, next) /\ late' = IF job[h].overtaken THEN late \cup {i} ELSE late
      /\ UNCHANGED <<service, settings, level, nextId, asked, skewed, savedBy>>
  BY DEF CommitName, AfterNaming
<1>2. Typed /\ job[h] \in Jobs /\ Fit(h) /\ SeenBy(h) /\ late \subseteq Rows /\ Rows \subseteq Numbered
      /\ name \in [Ids -> Names \cup {NoRow}]
  BY InvTyped DEF PreferencesInv, LanguagesInv, TypeOK, Typed
<1>3. i \in Numbered /\ i \in Ids /\ n \in Names /\ n # NoRow /\ job[h].kind \in {"add", "rename"}
  BY <1>1, <1>2, PreferencesAssumption DEF Fit, At, Numbered
<1>4. /\ next \in Jobs
      /\ \/ next = Idle
         \/ /\ job[h].kind = "add" /\ next.pc = "band" /\ next.id = i /\ next.kind = job[h].kind
            /\ next.whole = job[h].whole /\ next.name = n /\ next.known = job[h].known /\ next.no = job[h].no
            /\ next.overtaken = job[h].overtaken /\ next.body = job[h].body /\ next.puts = job[h].puts
  <2>1. CASE job[h].kind # "add"
    BY <2>1, IdleType
  <2>2. CASE job[h].kind = "add"
    <3>1. next = [job[h] EXCEPT !.pc = "band"] /\ "band" \in Stages
      BY <2>2 DEF Stages
    <3> HIDE DEF next
    <3>2. QED
      BY <1>2, <2>2, <3>1 DEF Jobs
  <2>3. QED
    BY <2>1, <2>2
<1> HIDE DEF next
<1>5. /\ Typed' /\ job'[h] = next /\ Others(h)
      /\ \A o \in Handlers \ {h} : job[o].pc \in {"idle", "check", "lookup"} \/ job'[o].overtaken
  BY <1>1, <1>2, <1>4, OvertakeStep
<1> HIDE DEF i, n
<1>6. /\ Rows' = Rows \cup {i} /\ Numbered' = Numbered /\ i \in Rows'
      /\ name'[i] = n /\ \A k \in Ids \ {i} : name'[k] = name[k]
      /\ name' \in [Ids -> Names \cup {NoRow}]
  BY <1>1, <1>2, <1>3 DEF Rows, Numbered
<1>7. late \subseteq late' /\ late' \subseteq Rows'
  BY <1>1, <1>2, <1>6
<1>8. TypeOK'
  BY <1>1, <1>5, <1>6, <1>7 DEF PreferencesInv, TypeOK, Typed
<1>9. Fit(h)' /\ SeenBy(h)' /\ \A k \in Ids : ~HoldsRow(h, k)'
  <2>1. CASE next = Idle
    BY <1>5, <2>1, IdleOwesNothing
  <2>2. CASE job[h].kind = "add" /\ next.pc = "band"
    BY <1>1, <1>2, <1>4, <1>5, <1>6, <2>2, IdleFields DEF Fit, SeenBy, HoldsRow, At, i, n
  <2>3. QED
    BY <1>4, <2>1, <2>2
<1>10. ASSUME NEW o \in Handlers \ {h}
       PROVE  Fit(o)' /\ SeenBy(o)' /\ \A k \in Ids : HoldsRow(o, k)' = HoldsRow(o, k)
  <2>1. Fit(o) /\ Alike(o)
    BY <1>5 DEF PreferencesInv, LanguagesInv, Others
  <2>2. \A k \in Ids : HoldsRow(o, k)' = HoldsRow(o, k)
    BY <2>1 DEF HoldsRow, At, Alike, Same
  <2>3. Fit(o)'
    BY <1>6, <2>1, <2>2 DEF Fit, Alike, Same
  <2>4. SeenBy(o)'
    BY <1>5, <2>1 DEF SeenBy, Alike
  <2>5. QED
    BY <2>2, <2>3, <2>4
<1>11. OneHolder'
  BY <1>9, <1>10 DEF OneHolder, PreferencesInv, LanguagesInv
<1>12. ASSUME NEW k \in Rows' \ {i}, Folded(name'[k]) = Folded(n) PROVE {k, i} \cap late' # {}
  <2>1. k \in Rows /\ name'[k] = name[k] /\ k # i
    BY <1>6 DEF Rows
  <2>2. CASE job[h].overtaken
    BY <1>1, <2>2
  <2>3. CASE ~job[h].overtaken
    <3>1. job[h].kind = "rename" => i \in Rows
      BY <1>1, <1>2, <1>3 DEF Fit, HoldsRow, At, i
    <3>2. k \in late \/ i \in late
      BY <1>1, <1>2, <1>3, <1>12, <2>1, <2>3, <3>1 DEF SeenBy, At, i, n
    <3>3. QED
      BY <1>7, <3>2
  <2>4. QED
    BY <2>2, <2>3
<1>13. NoTwins'
  <2>1. ASSUME NEW k \in Rows', NEW m \in Rows', k # m, k # i, m # i, Folded(name'[k]) = Folded(name'[m])
        PROVE  {k, m} \cap late' # {}
    <3>1. k \in Rows /\ m \in Rows /\ name'[k] = name[k] /\ name'[m] = name[m]
      BY <1>6, <2>1 DEF Rows
    <3>2. QED
      BY <1>7, <2>1, <3>1 DEF PreferencesInv, LanguagesInv, NoTwins
  <2>2. QED
    BY <1>6, <1>12, <2>1 DEF NoTwins
<1>14. LanguagesInv'
  BY <1>2, <1>3, <1>6, <1>9, <1>10, <1>11, <1>13 DEF LanguagesInv
<1>15. SettingsInv'
  <2>1. NotWritten(h)' /\ InOrder(h)' /\ WholeForm(h)'
    <3>1. CASE next = Idle
      BY <1>5, <3>1, IdleOwesNothing
    <3>2. CASE next # Idle
      <4>1. Same(h) /\ Form(h) /\ job'[h].pc = "band"
        BY <1>4, <1>5, <3>2 DEF Same, Form, n
      <4>2. QED
        BY <4>1, NoSaveToDo DEF PreferencesInv
    <3>3. QED
      BY <3>1, <3>2
  <2>2. QED
    BY <1>1, <1>5, <2>1, SettingsStep DEF PreferencesInv
<1>16. QED
  BY <1>8, <1>14, <1>15 DEF PreferencesInv

LEMMA RemovalCommitted ==
  ASSUME PreferencesInv, NEW h \in Handlers, CommitRemoval(h)
  PROVE  PreferencesInv'
<1> DEFINE i == job[h].id
<1>1. /\ At(h, "commit") /\ job[h].kind = "remove" /\ End(h)
      /\ name' = [name EXCEPT ![i] = NoRow] /\ level' = [level EXCEPT ![i] = "none"]
      /\ late' = late \ {i} /\ UNCHANGED <<service, settings, nextId, asked, skewed, savedBy>>
  BY DEF CommitRemoval
<1>2. Typed /\ Fit(h) /\ late \subseteq Rows /\ Rows \subseteq Numbered /\ name \in [Ids -> Names \cup {NoRow}]
      /\ level \in [Ids -> {"none", "start", "learnt"}]
  BY InvTyped DEF PreferencesInv, LanguagesInv, TypeOK
<1>3. i \in Ids /\ HoldsRow(h, i)
  BY <1>1, <1>2 DEF Fit, Numbered, HoldsRow
<1>4. Typed' /\ job'[h] = Idle /\ Others(h)
  BY <1>1, <1>2, EndStep
<1>5. /\ Fit(h)' /\ SeenBy(h)' /\ \A k \in Ids : ~HoldsRow(h, k)'
      /\ NotWritten(h)' /\ InOrder(h)' /\ WholeForm(h)'
  BY <1>4, IdleOwesNothing
<1> HIDE DEF i
<1>6. /\ Rows' = Rows \ {i} /\ Numbered' = Numbered /\ \A k \in Ids \ {i} : name'[k] = name[k]
      /\ name' \in [Ids -> Names \cup {NoRow}]
  BY <1>1, <1>2, <1>3 DEF Rows, Numbered
<1>7. TypeOK'
  <2>1. level' \in [Ids -> {"none", "start", "learnt"}] /\ level'[i] = "none"
        /\ \A k \in Ids \ {i} : level'[k] = level[k]
    BY <1>1, <1>2, <1>3
  <2>2. {k \in Ids : level[k] # "none"} \subseteq Rows
    BY DEF PreferencesInv, TypeOK
  <2>3. ({k \in Ids : level[k] # "none"} \cup late)' \subseteq Rows'
    BY <1>1, <1>2, <1>6, <2>1, <2>2
  <2>4. QED
    BY <1>1, <1>4, <1>6, <2>1, <2>3 DEF PreferencesInv, TypeOK, Typed
<1>8. ASSUME NEW o \in Handlers \ {h}
      PROVE  Fit(o)' /\ SeenBy(o)' /\ \A k \in Ids : HoldsRow(o, k)' = HoldsRow(o, k)
  <2>1. Fit(o) /\ SeenBy(o) /\ Alike(o) /\ OneHolder
    BY <1>4 DEF PreferencesInv, LanguagesInv, Others
  <2>2. \A k \in Ids : HoldsRow(o, k)' = HoldsRow(o, k)
    BY <2>1 DEF HoldsRow, At, Alike, Same
  <2>3. ~HoldsRow(o, i)
    BY <1>3, <2>1 DEF OneHolder
  <2>4. \A k \in Ids : HoldsRow(o, k)' => k \in Rows'
    BY <1>6, <2>1, <2>2, <2>3 DEF Fit
  <2>5. Fit(o)'
    BY <1>6, <2>1, <2>4 DEF Fit, Alike, Same
  <2>6. SeenBy(o)'
    <3>1. job'[o].id = job[o].id /\ job'[o].name = job[o].name /\ job'[o].kind = job[o].kind
          /\ job'[o].pc = job[o].pc /\ (job[o].overtaken => job'[o].overtaken)
      BY <2>1 DEF Alike, Same
    <3>2. \A k \in Rows' : k \in Rows /\ name'[k] = name[k] /\ (k \in late => k \in late')
      BY <1>1, <1>6 DEF Rows
    <3>3. job[o].id \in Rows' /\ job[o].id \in late => job[o].id \in late'
      BY <3>2
    <3>4. QED
      BY <2>1, <3>1, <3>2, <3>3 DEF SeenBy
  <2>7. QED
    BY <2>2, <2>5, <2>6
<1>9. OneHolder'
  BY <1>5, <1>8 DEF OneHolder, PreferencesInv, LanguagesInv
<1>10. NoTwins'
  <2>1. ASSUME NEW k \in Rows', NEW m \in Rows', k # m, Folded(name'[k]) = Folded(name'[m])
        PROVE  {k, m} \cap late' # {}
    <3>1. k \in Rows /\ m \in Rows /\ k # i /\ m # i /\ name'[k] = name[k] /\ name'[m] = name[m]
      BY <1>6 DEF Rows
    <3>2. {k, m} \cap late # {}
      BY <2>1, <3>1 DEF PreferencesInv, LanguagesInv, NoTwins
    <3>3. QED
      BY <1>1, <3>1, <3>2
  <2>2. QED
    BY <2>1 DEF NoTwins
<1>11. LanguagesInv'
  BY <1>2, <1>5, <1>6, <1>8, <1>9, <1>10 DEF LanguagesInv
<1>12. SettingsInv'
  BY <1>1, <1>4, <1>5, SettingsStep DEF PreferencesInv
<1>13. QED
  BY <1>7, <1>11, <1>12 DEF PreferencesInv

LEMMA BandSet ==
  ASSUME PreferencesInv, NEW h \in Handlers, SetBand(h)
  PROVE  PreferencesInv'
<1>1. /\ End(h) /\ UNCHANGED <<service, settings, name, nextId, asked, history>>
      /\ level' = IF job[h].id \in Rows THEN [level EXCEPT ![job[h].id] = "start"] ELSE level
  BY DEF SetBand, Placed
<1>2. Typed' /\ job'[h] = Idle /\ Others(h)
  BY <1>1, InvTyped, EndStep
<1>3. /\ Fit(h)' /\ SeenBy(h)' /\ \A k \in Ids : ~HoldsRow(h, k)'
      /\ NotWritten(h)' /\ InOrder(h)' /\ WholeForm(h)'
  BY <1>2, IdleOwesNothing
<1>4. TypeOK'
  <2>1. level \in [Ids -> {"none", "start", "learnt"}] /\ {k \in Ids : level[k] # "none"} \subseteq Rows
    BY DEF PreferencesInv, TypeOK
  <2>2. level' \in [Ids -> {"none", "start", "learnt"}]
    BY <1>1, <2>1
  <2>3. {k \in Ids : level'[k] # "none"} \subseteq Rows
    BY <1>1, <2>1
  <2>4. QED
    BY <1>1, <1>2, <2>2, <2>3 DEF PreferencesInv, TypeOK, Typed, Rows, history
<1>5. LanguagesInv'
  BY <1>1, <1>2, <1>3, LanguagesStep DEF PreferencesInv, history
<1>6. SettingsInv'
  BY <1>1, <1>2, <1>3, SettingsStep DEF PreferencesInv, history
<1>7. QED
  BY <1>4, <1>5, <1>6 DEF PreferencesInv

(* What the invariant says of names, requests and settings stays true when *)
(* none of them changes.                                                   *)
LEMMA StillTrue ==
  ASSUME LanguagesInv, SettingsInv, UNCHANGED <<settings, name, nextId, job, history>>
  PROVE  LanguagesInv' /\ SettingsInv'
<1>1. Rows' = Rows /\ Numbered' = Numbered /\ UNCHANGED <<settings, name, late, job, skewed, savedBy>>
  BY DEF Rows, Numbered, history
<1>2. \A h \in Handlers : Fit(h)' /\ SeenBy(h)'
  BY <1>1 DEF LanguagesInv, Fit, SeenBy, HoldsRow, At
<1>3. OneHolder' /\ NoTwins' /\ (Rows \subseteq Numbered)'
  BY <1>1 DEF LanguagesInv, OneHolder, HoldsRow, At, NoTwins
<1>4. \A h \in Handlers : NotWritten(h)' /\ InOrder(h)' /\ WholeForm(h)'
  BY <1>1 DEF SettingsInv, NotWritten, InOrder, WholeForm, HoldsKey, Touches, Effective
<1>5. LimitsOrdered' /\ SavesAreWhole'
  BY <1>1 DEF SettingsInv, LimitsOrdered, SavesAreWhole
<1>6. QED
  BY <1>2, <1>3, <1>4, <1>5 DEF LanguagesInv, SettingsInv

LEMMA LearntOn ==
  ASSUME PreferencesInv, NEW i \in Ids, Learn(i)
  PROVE  PreferencesInv'
<1>1. level \in [Ids -> {"none", "start", "learnt"}] /\ {k \in Ids : level[k] # "none"} \subseteq Rows
  BY DEF PreferencesInv, TypeOK
<1>2. i \in Rows /\ level' = [level EXCEPT ![i] = "learnt"]
      /\ UNCHANGED <<service, settings, name, nextId, asked, job, history>>
  BY DEF Learn
<1>3. level' \in [Ids -> {"none", "start", "learnt"}] /\ {k \in Ids : level'[k] # "none"} \subseteq Rows
  BY <1>1, <1>2
<1>4. TypeOK'
  BY <1>2, <1>3 DEF PreferencesInv, TypeOK, Rows, history
<1>5. LanguagesInv' /\ SettingsInv'
  BY <1>2, StillTrue DEF PreferencesInv
<1>6. QED
  BY <1>4, <1>5 DEF PreferencesInv

-----------------------------------------------------------------------------
LEMMA PreferencesInit == Init => PreferencesInv
<1> SUFFICES ASSUME Init PROVE PreferencesInv
  OBVIOUS
<1>1. /\ Typed /\ \A h \in Handlers : job[h] = Idle
      /\ nextId \in 1 .. MaxRequests + 1 /\ asked \in 0 .. MaxRequests
  BY IdleType, PreferencesAssumption DEF Init, Typed
<1>2. Rows = {} /\ late = {} /\ {i \in Ids : level[i] # "none"} = {}
  BY DEF Init, Rows
<1>3. TypeOK
  BY <1>1, <1>2, PreferencesAssumption DEF Init, TypeOK, Typed, Values
<1>4. \A h \in Handlers : Fit(h) /\ SeenBy(h) /\ \A i \in Ids : ~HoldsRow(h, i)
  BY <1>1, IdleFields DEF Fit, SeenBy, HoldsRow, At
<1>5. LanguagesInv
  BY <1>2, <1>4 DEF LanguagesInv, OneHolder, NoTwins
<1>6. \A h \in Handlers : NotWritten(h) /\ InOrder(h) /\ WholeForm(h)
  BY <1>1, IdleFields DEF NotWritten, InOrder, WholeForm
<1>7. LimitsOrdered /\ SavesAreWhole
  <2>1. \A k \in Limits : settings[k] = Unset /\ savedBy[k] = 0
    BY PreferencesAssumption DEF Init
  <2>2. "new" \in Limits /\ "total" \in Limits
    BY DEF Limits
  <2>3. Unset \in Nat => Ordered(Unset, Unset)
    BY DEF Ordered
  <2>4. QED
    BY <2>1, <2>2, <2>3 DEF LimitsOrdered, SavesAreWhole, Ordered
<1>8. QED
  BY <1>3, <1>5, <1>6, <1>7 DEF PreferencesInv, SettingsInv

LEMMA PreferencesNext == PreferencesInv /\ [Next]_vars => PreferencesInv'
<1> SUFFICES ASSUME PreferencesInv, [Next]_vars PROVE PreferencesInv'
  OBVIOUS
<1>1. ASSUME NEW h \in Handlers, NEW body \in Saves, AskToSave(h, body) PROVE PreferencesInv'
  BY <1>1, SaveComes
<1>2. ASSUME NEW h \in Handlers, NEW n \in Names, AskToAdd(h, n) PROVE PreferencesInv'
  BY <1>2, AddComes
<1>3. ASSUME NEW h \in Handlers, NEW n \in Names, NEW i \in Ids, AskToRename(h, i, n) PROVE PreferencesInv'
  BY <1>3, RenameComes
<1>4. ASSUME NEW h \in Handlers, NEW i \in Ids, AskToRemove(h, i) PROVE PreferencesInv'
  BY <1>4, RemovalComes
<1>5. ASSUME NEW h \in Handlers, Step(h) PROVE PreferencesInv'
  BY <1>5, LimitsChecked, KeyWritten, SaveCommitted, LookedUp, Found, RowLocked, NameClaimed,
     NameCommitted, RemovalCommitted, BandSet DEF Step
<1>6. ASSUME NEW h \in Handlers, Fail(h) PROVE PreferencesInv'
  BY <1>6, EndKeeps DEF Fail
<1>7. ASSUME NEW i \in Ids, Learn(i) PROVE PreferencesInv'
  BY <1>7, LearntOn
<1>8. CASE UNCHANGED vars
  <2>1. UNCHANGED <<service, settings, name, level, nextId, asked, job, skewed, savedBy, late>>
    BY <1>8 DEF vars
  <2>2. TypeOK'
    BY <2>1 DEF PreferencesInv, TypeOK, Rows
  <2>3. QED
    BY <2>1, <2>2, StillTrue DEF PreferencesInv, history
<1>9. QED
  BY <1>1, <1>2, <1>3, <1>4, <1>5, <1>6, <1>7, <1>8 DEF Next

(* Whatever is asked and whatever fails, requests and tables keep their    *)
(* types, and a level is kept only of a language that is there.            *)
THEOREM PreferencesTyped == Spec => []TypeOK
<1>1. PreferencesInv => TypeOK
  BY DEF PreferencesInv
<1>2. QED
  BY <1>1, PreferencesInit, PreferencesNext, PTL DEF Spec

(* Stored limits are in order, unless the last save of one was overtaken   *)
(* between its check and its commit.                                       *)
THEOREM LimitsStayOrdered == Spec => []LimitsOrdered
<1>1. PreferencesInv => LimitsOrdered
  BY DEF PreferencesInv, SettingsInv
<1>2. QED
  BY <1>1, PreferencesInit, PreferencesNext, PTL DEF Spec

(* Of forms that are saved at the same time one is stored as a whole.      *)
THEOREM FormsStayWhole == Spec => []SavesAreWhole
<1>1. PreferencesInv => SavesAreWhole
  BY DEF PreferencesInv, SettingsInv
<1>2. QED
  BY <1>1, PreferencesInit, PreferencesNext, PTL DEF Spec

(* Two languages have one name up to case only if the naming of one of     *)
(* them was overtaken between its look-up and its commit.                  *)
THEOREM TwinsOnlyByOvertaking == Spec => []NoTwins
<1>1. PreferencesInv => NoTwins
  BY DEF PreferencesInv, LanguagesInv
<1>2. QED
  BY <1>1, PreferencesInit, PreferencesNext, PTL DEF Spec

(* The starting band never replaces the level of a language that was there *)
(* when the learner asked for it.                                          *)
THEOREM ReAddsKeepLevels == Spec => ReAddKeepsLevel
<1> DEFINE Kept == \A i \in Ids : level[i] # "start" /\ level'[i] = "start"
                     => \E h \in Handlers : At(h, "band") /\ job[h].id = i /\ i \notin job[h].known
<1>1. PreferencesInv /\ [Next]_vars => Kept
  <2> SUFFICES ASSUME PreferencesInv, [Next]_vars, NEW i \in Ids, level[i] # "start", level'[i] = "start"
               PROVE  \E h \in Handlers : At(h, "band") /\ job[h].id = i /\ i \notin job[h].known
    OBVIOUS
  <2>1. level \in [Ids -> {"none", "start", "learnt"}] /\ level' # level
    BY DEF PreferencesInv, TypeOK
  <2>2. \A k \in Ids : ~Learn(k)
    BY <2>1 DEF Learn
  <2>3. \A h \in Handlers : ~CommitRemoval(h)
    BY <2>1 DEF CommitRemoval
  <2>4. PICK h \in Handlers : SetBand(h)
    BY <2>1, <2>2, <2>3 DEF Next, Step, vars, tables, Start, AskToSave, AskToAdd, AskToRename, AskToRemove,
       CheckLimits, Write, CommitSave, LookUp, Find, LockRow, ClaimName, CommitName, Fail
  <2>5. job[h].id = i /\ At(h, "band")
    BY <2>1, <2>4 DEF SetBand, Placed
  <2>6. Fit(h)
    BY DEF PreferencesInv, LanguagesInv
  <2>7. QED
    BY <2>5, <2>6 DEF Fit, At
<1>2. QED
  BY <1>1, PreferencesInit, PreferencesNext, PTL DEF Spec, ReAddKeepsLevel
=============================================================================
