---------------------------- MODULE Preferences ----------------------------
(***************************************************************************)
(* What a learner configures: the settings (app/services/settings.py) and  *)
(* the languages (app/services/languages.py).  Both services check first   *)
(* and write later, in one transaction at READ COMMITTED: the check locks  *)
(* nothing, a write waits for the rows and unique names that other         *)
(* transactions have written and not yet committed.  The two share no      *)
(* table, so a behaviour is about one of them.                             *)
(***************************************************************************)
EXTENDS Naturals, Sequences, FiniteSets

CONSTANTS Handlers,     \* requests in hand at a time
          MaxRequests,  \* bound of the model: requests in all
          Keys,         \* keys of the settings; "new" and "total" are the limits
          Saves,        \* bodies of PUT /settings: sequences of <<key, value>>
          Bounds,       \* NUMERIC_SETTING_BOUNDS: key to its least and greatest number
          Unset, Text,  \* null, or no row; a value that is not a number
          Untouched,       \* a key a save has not written
          Names,        \* names of languages
          Folded(_),    \* lower(name)
          NoRow

Limits == {"new", "total"}
Values == Nat \cup {Unset, Text}

ASSUME PreferencesAssumption ==
  /\ MaxRequests \in Nat
  /\ Limits \subseteq Keys /\ Unset # Text
  /\ \A body \in Saves : body \in Seq(Keys \X Values)
  /\ \A k \in DOMAIN Bounds : Bounds[k] \in Nat \X Nat
  /\ Untouched \notin Values /\ NoRow \notin Names

VARIABLES
  service,   \* whose behaviour this is
  settings,  \* user_settings, as committed
  name,      \* languages: id to name, as committed
  level,     \* proficiency of a language: none, the starting band, or learnt
  nextId,    \* the identity column of languages
  asked,     \* requests so far
  job,       \* the request each handler has in hand
  skewed,    \* history: the last save of a limit was overtaken after its check
  savedBy,   \* history: the save that set a limit, 0 unless it set both
  late       \* history: languages whose naming was overtaken after its check

vars == <<service, settings, name, level, nextId, asked, job, skewed, savedBy, late>>
tables == <<settings, name, level, nextId>>
history == <<skewed, savedBy, late>>

Ids == 1 .. MaxRequests

Idle == [pc |-> "idle", kind |-> "none", no |-> 0, whole |-> FALSE, body |-> <<>>, puts |-> [k \in Keys |-> Untouched],
         id |-> 0, name |-> NoRow, known |-> {}, overtaken |-> FALSE]

Init == /\ service \in {"settings", "languages"}
        /\ settings = [k \in Keys |-> Unset]
        /\ name = [i \in Ids |-> NoRow]
        /\ level = [i \in Ids |-> "none"]
        /\ nextId = 1 /\ asked = 0
        /\ job = [h \in Handlers |-> Idle]
        /\ skewed = FALSE /\ savedBy = [k \in Limits |-> 0] /\ late = {}

At(h, stage) == job[h].pc = stage
Become(h, r) == job' = [job EXCEPT ![h] = r]
Goto(h, stage) == Become(h, [job[h] EXCEPT !.pc = stage])
End(h) == Become(h, Idle)
Rows == {i \in Ids : name[i] # NoRow}

Start(h, r) == /\ At(h, "idle") /\ asked < MaxRequests
               /\ asked' = asked + 1
               /\ Become(h, r)
               /\ UNCHANGED <<service, tables, history>>

-----------------------------------------------------------------------------
(* Settings.                                                               *)
KeysOf(body) == {body[n][1] : n \in 1 .. Len(body)}
LastOf(body, k) == body[CHOOSE n \in 1 .. Len(body) : /\ body[n][1] = k
                                                     /\ \A m \in n + 1 .. Len(body) : body[m][1] # k][2]

(* Text passes, and what has no bounds: a reader falls back to its default.*)
InBounds(k, v) ==
  k \in DOMAIN Bounds /\ v \in Nat => Bounds[k][1] <= v /\ v <= Bounds[k][2]

(* set_many: every value is checked first; a body without a limit needs no *)
(* look at the stored ones.                                                *)
AskToSave(h, body) ==
  /\ service = "settings"
  /\ \A n \in 1 .. Len(body) : InBounds(body[n][1], body[n][2])
  /\ Start(h, [Idle EXCEPT !.pc = IF KeysOf(body) \cap Limits = {} THEN "write" ELSE "check",
                           !.kind = "save", !.no = asked + 1, !.body = body,
                           !.whole = \A k \in Limits : k \in KeysOf(body) /\ LastOf(body, k) # Unset])

Merged(body, k) == IF k \in KeysOf(body) THEN LastOf(body, k) ELSE settings[k]
Ordered(new, total) == new \in Nat /\ total \in Nat => new <= total

(* The check of the body alone, without what is stored.                    *)
CheckBodyOnly(h) ==
  /\ At(h, "check")
  /\ LET Given(k) == IF k \in KeysOf(job[h].body) THEN LastOf(job[h].body, k) ELSE Unset
     IN  IF Ordered(Given("new"), Given("total")) THEN Goto(h, "write") ELSE End(h)
  /\ UNCHANGED <<service, tables, asked, history>>

(* Limits that are no numbers, or not chosen, are not compared.            *)
CheckLimits(h) ==
  /\ At(h, "check")
  /\ IF Ordered(Merged(job[h].body, "new"), Merged(job[h].body, "total"))
     THEN Goto(h, "write")
     ELSE End(h)
  /\ UNCHANGED <<service, tables, asked, history>>

HoldsKey(h, k) == job[h].puts[k] # Untouched

(* An upsert waits for the row.  A delete waits only for a row it sees.    *)
WaitsForKey(h, g) ==
  /\ At(h, "write") /\ Len(job[h].body) > 0
  /\ LET k == Head(job[h].body)[1]
         v == Head(job[h].body)[2]
     IN  HoldsKey(g, k) /\ (v = Unset => settings[k] # Unset)

Author(h) == IF job[h].whole THEN job[h].no ELSE 0

(* Every key committed by itself.                                          *)
WriteEach(h) ==
  /\ At(h, "write") /\ Len(job[h].body) > 0
  /\ LET k == Head(job[h].body)[1]
     IN  /\ settings' = [settings EXCEPT ![k] = Head(job[h].body)[2]]
         /\ savedBy' = IF k \in Limits THEN [savedBy EXCEPT ![k] = Author(h)] ELSE savedBy
         /\ Become(h, [job[h] EXCEPT !.body = Tail(@)])
  /\ UNCHANGED <<service, name, level, nextId, asked, skewed, late>>

Write(h) ==
  /\ At(h, "write") /\ Len(job[h].body) > 0
  /\ \A g \in Handlers \ {h} : ~WaitsForKey(h, g)
  /\ LET k == Head(job[h].body)[1]
         v == Head(job[h].body)[2]
         noop == v = Unset /\ settings[k] = Unset /\ ~HoldsKey(h, k)
     IN  Become(h, [job[h] EXCEPT !.body = Tail(@),
                                  !.puts[k] = IF noop THEN @ ELSE v])
  /\ UNCHANGED <<service, tables, asked, history>>

(* Whoever has checked and not yet committed is overtaken by a commit.     *)
Overtake(h, next) ==
  job' = [g \in Handlers |->
            IF g = h THEN next
            ELSE IF job[g].pc \in {"idle", "check", "lookup"} THEN job[g]
            ELSE [job[g] EXCEPT !.overtaken = TRUE]]

CommitSave(h) ==
  /\ At(h, "write") /\ job[h].body = <<>>
  /\ LET mine == {k \in Keys : HoldsKey(h, k)}
     IN  /\ settings' = [k \in Keys |-> IF k \in mine THEN job[h].puts[k] ELSE settings[k]]
         /\ savedBy' = [k \in Limits |-> IF k \in mine THEN Author(h) ELSE savedBy[k]]
         /\ IF mine \cap Limits = {} THEN End(h) /\ UNCHANGED skewed
                         ELSE Overtake(h, Idle) /\ skewed' = job[h].overtaken
  /\ UNCHANGED <<service, name, level, nextId, asked, late>>

-----------------------------------------------------------------------------
(* Languages.                                                              *)
AskToAdd(h, n) ==
  /\ service = "languages"
  /\ Start(h, [Idle EXCEPT !.pc = "lookup", !.kind = "add", !.name = n, !.known = Rows])

AskToRename(h, i, n) ==
  /\ service = "languages" /\ i < nextId
  /\ Start(h, [Idle EXCEPT !.pc = "lookup", !.kind = "rename", !.id = i, !.name = n])

AskToRemove(h, i) ==
  /\ service = "languages" /\ i < nextId
  /\ Start(h, [Idle EXCEPT !.pc = "find", !.kind = "remove", !.id = i])

(* get_by_name: the oldest row of that name, whatever its case.            *)
Match(n, i) == i \in Rows /\ Folded(name[i]) = Folded(n)
Oldest(n, i) == Match(n, i) /\ \A k \in Ids : Match(n, k) => i <= k

(* The match in its case, as the unique constraint compares.               *)
OldestExact(n, i) == Match(n, i) /\ name[i] = n /\ \A k \in 1 .. i - 1 : name[k] # n

(* A re-add answered as if it had made the row.                            *)
LookUpCreated(h) ==
  /\ At(h, "lookup")
  /\ LET n == job[h].name
     IN  IF job[h].kind = "add"
         THEN \/ \E i \in Rows : Oldest(n, i) /\ Become(h, [job[h] EXCEPT !.pc = "band", !.id = i])
              \/ (\A i \in Rows : ~Match(n, i)) /\ Goto(h, "name")
         ELSE IF \E i \in Rows \ {job[h].id} : Oldest(n, i) THEN End(h) ELSE Goto(h, "find")
  /\ UNCHANGED <<service, tables, asked, history>>

LookUpExact(h) ==
  /\ At(h, "lookup")
  /\ LET n == job[h].name
     IN  IF job[h].kind = "add"
         THEN IF \E i \in Rows : OldestExact(n, i) THEN End(h) ELSE Goto(h, "name")
         ELSE IF \E i \in Rows \ {job[h].id} : OldestExact(n, i) THEN End(h) ELSE Goto(h, "find")
  /\ UNCHANGED <<service, tables, asked, history>>

(* A name in use ends the request: an add with the row there is, created   *)
(* = false, and a rename with a refusal.                                   *)
LookUp(h) ==
  /\ At(h, "lookup")
  /\ LET taken == \E i \in Rows \ {job[h].id} : Oldest(job[h].name, i)
     IN  IF taken THEN End(h)
         ELSE Goto(h, IF job[h].kind = "add" THEN "name" ELSE "find")
  /\ UNCHANGED <<service, tables, asked, history>>

(* The row is loaded by its id; a rename to the name it has writes nothing.*)
Find(h) ==
  /\ At(h, "find")
  /\ IF job[h].id \in Rows /\ name[job[h].id] # job[h].name THEN Goto(h, "row") ELSE End(h)
  /\ UNCHANGED <<service, tables, asked, history>>

HoldsRow(h, i) == job[h].id = i /\ (\/ job[h].kind = "rename" /\ job[h].pc \in {"name", "commit"}
                                    \/ job[h].kind = "remove" /\ At(h, "commit"))

(* A name counts as taken, until the commit, by who writes it and by who   *)
(* takes it from a row.                                                    *)
HoldsName(h, n) == \/ job[h].kind # "remove" /\ At(h, "commit") /\ job[h].name = n
                   \/ \E i \in Rows : HoldsRow(h, i) /\ name[i] = n

WaitsForRow(h, g) == At(h, "row") /\ HoldsRow(g, job[h].id)
WaitsForName(h, g) == At(h, "name") /\ HoldsName(g, job[h].name)

(* Gone by the time the lock comes: a rename fails, a removal is content.  *)
LockRow(h) ==
  /\ At(h, "row")
  /\ \A g \in Handlers \ {h} : ~WaitsForRow(h, g)
  /\ IF job[h].id \notin Rows THEN End(h)
     ELSE Goto(h, IF job[h].kind = "rename" THEN "name" ELSE "commit")
  /\ UNCHANGED <<service, tables, asked, history>>

(* UNIQUE (user_id, name).  An id for every request is enough.             *)
ClaimName(h) ==
  /\ At(h, "name")
  /\ \A g \in Handlers \ {h} : ~WaitsForName(h, g)
  /\ IF \E i \in Rows : name[i] = job[h].name
     THEN End(h) /\ UNCHANGED nextId
     ELSE IF job[h].kind = "add"
     THEN /\ nextId \in Ids
          /\ Become(h, [job[h] EXCEPT !.pc = "commit", !.id = nextId])
          /\ nextId' = nextId + 1
     ELSE Goto(h, "commit") /\ UNCHANGED nextId
  /\ UNCHANGED <<service, settings, name, level, asked, history>>

(* useAddLanguage: told that it created the language, the client sends the *)
(* starting band.                                                          *)
AfterNaming(h) == IF job[h].kind = "add" THEN [job[h] EXCEPT !.pc = "band"] ELSE Idle

CommitName(h) ==
  /\ At(h, "commit") /\ job[h].kind # "remove"
  /\ name' = [name EXCEPT ![job[h].id] = job[h].name]
  /\ Overtake(h, AfterNaming(h))
  /\ late' = IF job[h].overtaken THEN late \cup {job[h].id} ELSE late
  /\ UNCHANGED <<service, settings, level, nextId, asked, skewed, savedBy>>

CommitRemoval(h) ==
  /\ At(h, "commit") /\ job[h].kind = "remove"
  /\ name' = [name EXCEPT ![job[h].id] = NoRow]
  /\ level' = [level EXCEPT ![job[h].id] = "none"]
  /\ late' = late \ {job[h].id}
  /\ End(h)
  /\ UNCHANGED <<service, settings, nextId, asked, skewed, savedBy>>

(* Refused if the language is gone by then.                                *)
Placed(i) == IF i \in Rows THEN [level EXCEPT ![i] = "start"] ELSE level

SetBand(h) ==
  /\ At(h, "band")
  /\ level' = Placed(job[h].id)
  /\ End(h)
  /\ UNCHANGED <<service, settings, name, nextId, asked, history>>

(* Grades, and levels set by hand.                                         *)
Learn(i) == /\ i \in Rows /\ level[i] # "learnt"
            /\ level' = [level EXCEPT ![i] = "learnt"]
            /\ UNCHANGED <<service, settings, name, nextId, asked, job, history>>

-----------------------------------------------------------------------------
(* An error, a lost client or connection, a deadlock that Postgres ends:   *)
(* the session is closed and rolls back.                                   *)
Fail(h) == ~At(h, "idle") /\ End(h) /\ UNCHANGED <<service, tables, asked, history>>

Step(h) == \/ CheckLimits(h) \/ Write(h) \/ CommitSave(h)
           \/ LookUp(h) \/ Find(h) \/ LockRow(h) \/ ClaimName(h)
           \/ CommitName(h) \/ CommitRemoval(h) \/ SetBand(h)

Next == \/ \E h \in Handlers :
             \/ \E body \in Saves : AskToSave(h, body)
             \/ \E n \in Names : AskToAdd(h, n) \/ \E i \in Ids : AskToRename(h, i, n)
             \/ \E i \in Ids : AskToRemove(h, i)
             \/ Step(h) \/ Fail(h)
        \/ \E i \in Ids : Learn(i)

Spec == Init /\ [][Next]_vars

-----------------------------------------------------------------------------
Stages == {"idle", "check", "write", "lookup", "find", "row", "name", "commit", "band"}

Kinds == {"none", "save", "add", "rename", "remove"}

Jobs == [pc : Stages, kind : Kinds, no : 0 .. MaxRequests, whole : BOOLEAN,
         body : Seq(Keys \X Values), puts : [Keys -> Values \cup {Untouched}],
         id : 0 .. MaxRequests, name : Names \cup {NoRow}, known : SUBSET Ids,
         overtaken : BOOLEAN]

(* A level is kept only of a language that is there.                       *)
TypeOK ==
  /\ service \in {"settings", "languages"}
  /\ settings \in [Keys -> Values]
  /\ name \in [Ids -> Names \cup {NoRow}]
  /\ level \in [Ids -> {"none", "start", "learnt"}]
  /\ nextId \in 1 .. MaxRequests + 1 /\ asked \in 0 .. MaxRequests
  /\ job \in [Handlers -> Jobs]
  /\ skewed \in BOOLEAN /\ savedBy \in [Limits -> 0 .. MaxRequests]
  /\ {i \in Ids : level[i] # "none"} \cup late \subseteq Rows

(* "enforces the cross-field rule daily_new_limit <= daily_total_limit     *)
(* over the post-merge state": stored limits are in order, unless the last *)
(* save of one was overtaken by another between its check and its commit.  *)
LimitsOrdered == ~skewed => Ordered(settings["new"], settings["total"])

(* "one committed transaction (e.g. a form save)": of forms saved at the   *)
(* same time, whatever the order of their keys, one is stored as a whole.  *)
SavesAreWhole == savedBy["new"] # 0 /\ savedBy["total"] # 0 => savedBy["new"] = savedBy["total"]

(* No "case-variant duplicate row": two languages have the same name up to *)
(* case only if another was named between the look-up and the commit of    *)
(* one of them.                                                            *)
NoTwins == \A i, k \in Rows : i # k /\ Folded(name[i]) = Folded(name[k]) => {i, k} \cap late # {}

(* "a re-add never disturbs the learner's recorded proficiency": the       *)
(* starting band is written only to a language that was not there when the *)
(* learner asked for it; it may replace a level learnt there since.        *)
ReAddKeepsLevel ==
  [][\A i \in Ids : level[i] # "start" /\ level'[i] = "start"
       => \E h \in Handlers : At(h, "band") /\ job[h].id = i /\ i \notin job[h].known]_vars
=============================================================================
