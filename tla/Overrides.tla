----------------------------- MODULE Overrides -----------------------------
(***************************************************************************)
(* What operators override without a release: the prompts                  *)
(* (app/prompt_store.py, lengua_core/prompts.py) and the feature flags     *)
(* (app/feature_flags.py).  Each is a table read into one snapshot that    *)
(* lives for a TTL, refreshed under a lock by whoever finds it expired.  A *)
(* flag is resolved on the spot; a prompt is built later, in a worker      *)
(* thread next to the event loop, from several fragments.                  *)
(***************************************************************************)
EXTENDS Naturals

CONSTANTS Callers,     \* requests that need the snapshot
          Versions,    \* what the table can hold, as a whole
          Defaults,    \* nothing overridden: the defaults in the code, or of the env
          Nothing,     \* no snapshot yet, no fragment yet
          Content,     \* what a version of the prompts says of each fragment
          Row,         \* what a version of the flags says of the flag
          EnvDefault,  \* what the environment says of it
          Ttl,         \* PROMPT_CACHE_TTL_SECONDS, FEATURE_FLAG_TTL_SECONDS, in ticks
          ReadTicks    \* bound of the model: ticks an answer of the table is on its way

Fragments == {"rules", "others", "suggestion"}

ASSUME OverridesAssumption ==
  /\ Content \in [Versions -> [Fragments -> {"text", "blank", "broken", "none"}]]
  /\ Row \in [Versions -> {"on", "off", "none"}] /\ EnvDefault \in BOOLEAN
  /\ Ttl \in Nat \ {0} /\ ReadTicks \in Nat
  /\ Defaults \notin Versions /\ Nothing \notin Versions \cup {Defaults}
  /\ "nobody" \notin Callers

VARIABLES
  store,    \* which of the two it is
  table,    \* what the table holds; Nothing until a migration creates it
  gone,     \* history: ticks since the table held a version, up to Stale
  active,   \* _active, _overrides: the snapshot
  age,      \* the clock less _fetched_at, up to Ttl
  lock,     \* who holds _lock
  late,     \* how long the answer of the table has been on its way
  caller    \* where each caller is, the map it got and the fragments built of it

storeVars == <<store, table, gone, active, age, lock, late, caller>>

Snapshots == Versions \cup {Defaults}
Stale == Ttl + ReadTicks + 1

Idle == [pc |-> "idle", map |-> Nothing, first |-> Nothing, rest |-> Nothing]

(* A new process: no snapshot, nobody at the lock.                         *)
Empty == active = Nothing /\ age = Ttl /\ lock = "nobody" /\ late = 0

StoreInit ==
  /\ store \in {"prompts", "flags"}
  /\ table = Nothing
  /\ gone = [v \in Versions |-> Stale]
  /\ Empty
  /\ caller = [c \in Callers |-> Idle]

At(c, stage) == caller[c].pc = stage
Become(c, r) == caller' = [caller EXCEPT ![c] = r]
Goto(c, stage) == Become(c, [caller[c] EXCEPT !.pc = stage])
Reading == \E c \in Callers : At(c, "answer")

-----------------------------------------------------------------------------
Older(n, bound) == IF n < bound THEN n + 1 ELSE bound

StoreTick ==
  /\ Reading => late < ReadTicks
  /\ late' = IF Reading THEN late + 1 ELSE 0
  /\ age' = Older(age, Ttl)
  /\ gone' = [v \in Versions |-> IF v = table THEN 0 ELSE Older(gone[v], Stale)]
  /\ UNCHANGED <<store, table, active, lock, caller>>

Hold(v) ==
  /\ table' = v
  /\ gone' = [gone EXCEPT ![v] = 0]
  /\ UNCHANGED <<store, active, age, lock, late, caller>>

(* Every key of the prompts is seeded, with the text of the code.          *)
Seeded(v) == Content[v] = [f \in Fragments |-> "text"]

(* The migrations run next to the code that reads the tables: the release  *)
(* before them may serve without the one, or the other.                    *)
CreatePrompts ==
  /\ store = "prompts" /\ table = Nothing
  /\ \E v \in Versions : Seeded(v) /\ Hold(v)

(* No flag has a row to begin with.                                        *)
CreateFlags ==
  /\ store = "flags" /\ table = Nothing
  /\ \E v \in Versions : Row[v] = "none" /\ Hold(v)

(* The operator moves is_active, one row for each key, in one transaction. *)
Publish(v) == store = "prompts" /\ table \in Versions \ {v} /\ Hold(v)

(* The operator writes the row of a flag.                                  *)
Flip(v) == store = "flags" /\ table \in Versions \ {v} /\ Hold(v)

-----------------------------------------------------------------------------
Expired == active = Nothing \/ age >= Ttl

(* warm and _table_overrides return the snapshot there is: the prompt's    *)
(* caller goes on to wait for a permit, the flag's has what it needs.      *)
Served(c, snapshot) == Become(c, [Idle EXCEPT !.pc = "served", !.map = snapshot])

(* The snapshot is asked for, and is fresh, or the lock is.                *)
Ask(c) ==
  /\ At(c, "idle")
  /\ IF Expired THEN Goto(c, "wait") ELSE Served(c, active)
  /\ UNCHANGED <<store, table, gone, active, age, lock, late>>

(* Under the lock, another look: who waited may find it refreshed.         *)
Enter(c) ==
  /\ At(c, "wait") /\ lock = "nobody"
  /\ IF Expired THEN Goto(c, "read") /\ lock' = c
                ELSE Served(c, active) /\ UNCHANGED lock
  /\ UNCHANGED <<store, table, gone, active, age, late>>

(* The SELECT sees one version; its answer takes its time.                 *)
Select(c) ==
  /\ At(c, "read") /\ table # Nothing
  /\ Become(c, [caller[c] EXCEPT !.pc = "answer", !.map = table])
  /\ late' = 0
  /\ UNCHANGED <<store, table, gone, active, age, lock>>

Install(c, snapshot) ==
  /\ active' = snapshot
  /\ age' = 0
  /\ lock' = "nobody"
  /\ Served(c, snapshot)
  /\ UNCHANGED <<store, table, gone, late>>

Answer(c) == At(c, "answer") /\ Install(c, caller[c].map)

(* A read that fails leaves the snapshot in force for another TTL.         *)
ReadFailsKeeping(c) ==
  /\ At(c, "read") \/ At(c, "answer")
  /\ Install(c, IF active = Nothing THEN Defaults ELSE active)

(* A read that fails, as all do before the table is there, counts as a     *)
(* table without overrides.                                                *)
ReadFails(c) == (At(c, "read") \/ At(c, "answer")) /\ Install(c, Defaults)

-----------------------------------------------------------------------------
(* A row that is there overrides what the environment says.                *)
Enabled(snapshot) ==
  LET row == IF snapshot = Defaults THEN "none" ELSE Row[snapshot]
  IN  row = "on" \/ (row = "none" /\ EnvDefault)

(* public_map: the answer of GET /feature-flags.                           *)
PublicMap(c) ==
  /\ store = "flags" /\ At(c, "served")
  /\ Become(c, Idle)
  /\ UNCHANGED <<store, table, gone, active, age, lock, late>>

(* The gate of a dark route: 404 unless its flag is on.                    *)
RequireFlag(c) ==
  /\ store = "flags" /\ At(c, "served")
  /\ IF Enabled(caller[c].map) THEN Goto(c, "open") ELSE Become(c, Idle)
  /\ UNCHANGED <<store, table, gone, active, age, lock, late>>

WordOfTheDay(c) ==
  /\ At(c, "open")
  /\ Become(c, Idle)
  /\ UNCHANGED <<store, table, gone, active, age, lock, late>>

-----------------------------------------------------------------------------
(* What is there replaces the default in the code.                         *)
AsRead(snapshot, fragment) ==
  CASE Content[snapshot][fragment] = "none"  -> Defaults
    [] Content[snapshot][fragment] = "blank" -> Nothing
    [] OTHER                                 -> snapshot

(* A blank override is dropped when it is read.                            *)
Validated(snapshot, fragment) ==
  IF Content[snapshot][fragment] \in {"text", "broken"} THEN snapshot ELSE Defaults

Resolved(snapshot, fragment) ==
  IF snapshot = Defaults THEN Defaults ELSE Validated(snapshot, fragment)

(* A template that cannot be filled in gives way to the one in the code.   *)
Rendered(snapshot, fragment) ==
  LET override == Resolved(snapshot, fragment)
  IN  IF override \in Versions /\ Content[override][fragment] = "broken"
      THEN Defaults ELSE override

(* The store as the builders see it.                                       *)
Snapshot == IF active = Nothing THEN Defaults ELSE active

(* The permit is there, the thread starts: _capture_overrides takes the    *)
(* snapshot that is active by now.                                         *)
Capture(c) ==
  /\ store = "prompts" /\ At(c, "served")
  /\ Become(c, [caller[c] EXCEPT !.pc = "build", !.map = Snapshot])
  /\ UNCHANGED <<store, table, gone, active, age, lock, late>>

(* The rules have nothing to fill in: they are taken as they are.          *)
Build(c) ==
  /\ At(c, "build")
  /\ Become(c, [caller[c] EXCEPT !.pc = "rest", !.first = Resolved(caller[c].map, "rules")])
  /\ UNCHANGED <<store, table, gone, active, age, lock, late>>

(* The prompt for new words is one fragment.                               *)
BuildSuggestion(c) ==
  /\ At(c, "build")
  /\ LET whole == Rendered(caller[c].map, "suggestion")
     IN  Become(c, [caller[c] EXCEPT !.pc = "sent", !.first = whole, !.rest = whole])
  /\ UNCHANGED <<store, table, gone, active, age, lock, late>>

(* Fragment by fragment from the store: get instead of snapshot.           *)
BuildRestByKey(c) ==
  /\ At(c, "rest")
  /\ Become(c, [caller[c] EXCEPT !.pc = "sent", !.rest = Rendered(Snapshot, "others")])
  /\ UNCHANGED <<store, table, gone, active, age, lock, late>>

(* The other fragments, from the captured map.                             *)
BuildRest(c) ==
  /\ At(c, "rest")
  /\ Become(c, [caller[c] EXCEPT !.pc = "sent", !.rest = Rendered(caller[c].map, "others")])
  /\ UNCHANGED <<store, table, gone, active, age, lock, late>>

Sent(c) ==
  /\ At(c, "sent")
  /\ Become(c, Idle)
  /\ UNCHANGED <<store, table, gone, active, age, lock, late>>

(* Cancelled, with the lock left behind.                                   *)
CancelHolding(c) ==
  /\ At(c, "wait") \/ At(c, "read") \/ At(c, "answer") \/ At(c, "served")
  /\ Become(c, Idle)
  /\ UNCHANGED <<store, table, gone, active, age, lock, late>>

(* The client goes away, or no permit comes free: async with gives the     *)
(* lock back.  A thread that builds is not stopped by this.                *)
Cancel(c) ==
  /\ At(c, "wait") \/ At(c, "read") \/ At(c, "answer") \/ At(c, "served")
  /\ Become(c, Idle)
  /\ lock' = IF lock = c THEN "nobody" ELSE lock
  /\ UNCHANGED <<store, table, gone, active, age, late>>

StoreNext ==
  \/ StoreTick
  \/ CreatePrompts \/ CreateFlags
  \/ \E v \in Versions : Publish(v) \/ Flip(v)
  \/ \E c \in Callers : \/ Ask(c) \/ Enter(c) \/ Select(c)
                        \/ Answer(c) \/ ReadFails(c)
                        \/ PublicMap(c) \/ RequireFlag(c) \/ WordOfTheDay(c)
                        \/ Capture(c) \/ Build(c) \/ BuildRest(c)
                        \/ BuildSuggestion(c) \/ Sent(c)
                        \/ Cancel(c)

StoreSpec == StoreInit /\ [][StoreNext]_storeVars

(* A read answers or fails, and the lock goes to its waiters in order.     *)
StoreFairSpec ==
  /\ StoreSpec
  /\ \A c \in Callers : /\ WF_storeVars(Select(c) \/ Answer(c) \/ ReadFails(c))
                        /\ SF_storeVars(Enter(c))
-----------------------------------------------------------------------------
Stages == {"idle", "wait", "read", "answer", "served", "open", "build", "rest", "sent"}

(* The lock is held exactly by who reads the table: one at a time.         *)
StoreTypeOK ==
  /\ store \in {"prompts", "flags"}
  /\ table \in Versions \cup {Nothing}
  /\ gone \in [Versions -> 0 .. Stale]
  /\ active \in Snapshots \cup {Nothing}
  /\ age \in 0 .. Ttl
  /\ late \in 0 .. ReadTicks
  /\ caller \in [Callers -> [pc : Stages, map : Snapshots \cup {Nothing},
                             first : Snapshots \cup {Nothing},
                             rest : Snapshots \cup {Nothing}]]
  /\ \A c \in Callers : lock = c <=> (At(c, "read") \/ At(c, "answer"))
  /\ lock \in Callers \cup {"nobody"}

(* "sees generation change within one TTL window": what warm hands out was *)
(* in the table at most a TTL ago, and the time its answer took; it is     *)
(* handed out no longer, however callers wait for each other.              *)
ServedInTime ==
  [][\A c \in Callers :
       ~At(c, "served") /\ At(c, "served")' /\ caller'[c].map # Defaults
         => gone'[caller'[c].map] < Ttl + ReadTicks]_storeVars

(* "so a concurrent warm can't tear the build": while the event loop swaps *)
(* the snapshot, every fragment of a prompt is of the version captured for *)
(* it or the code's own, and none is of another version.                   *)
NotTorn ==
  \A c \in Callers : At(c, "sent") =>
    {caller[c].first, caller[c].rest} \subseteq {caller[c].map, Defaults}

(* Nobody waits for ever for the lock, though its holder may be cancelled  *)
(* and the table may not answer.                                           *)
WaitersGetOn == \A c \in Callers : At(c, "wait") ~> ~At(c, "wait")
=============================================================================
