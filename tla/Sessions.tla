------------------------------ MODULE Sessions ------------------------------
(***************************************************************************)
(* Requests, their database sessions and the connection pool               *)
(* (app/deps.py, app/auth.py, app/db/session.py, app/db/rls.py): who a     *)
(* statement runs as, and who holds a connection while it waits.           *)
(*                                                                         *)
(* A session takes a connection at its first statement and gives it back   *)
(* at commit, rollback or close.  A request has up to three: its own, bound *)
(* to its user; the privileged one of the counters; and the one of a       *)
(* prompt store that is refreshed on its way to the provider.              *)
(***************************************************************************)
EXTENDS Naturals, FiniteSets

CONSTANTS Requests,        \* requests the server handles at the same time
          Users,
          NoUser,          \* nobody: a rejected token, a connection without claims
          Conns,           \* pool_size and max_overflow of the engine
          NoConn,
          Kinds,           \* the kinds of request in use, of AllKinds
          Verifier,        \* what the settings name: "jwks", "secret" or "unset"
          MaxStatements,   \* bound of the model: statements of a plain request
          MaxExpiries      \* bound of the model: times the prompts expire

AllKinds == {"plain", "gated", "deletion", "probe"}
Slots    == {"main", "usage", "inner"}

ASSUME SessionsAssumption ==
  /\ IsFiniteSet(Conns) /\ NoConn \notin Conns
  /\ NoUser \notin Users
  /\ Kinds \subseteq AllKinds
  /\ Verifier \in {"jwks", "secret", "unset"}
  /\ MaxStatements \in Nat \ {0} /\ MaxExpiries \in Nat
  /\ "nobody" \notin Requests

VARIABLES
  conn,      \* the role and the claims a connection's transaction runs with
  req,       \* each request: where it is, its user, its sessions' connections
  lock,      \* who refreshes the prompts
  expired,   \* the prompts are older than their TTL
  expiries

vars    == <<conn, req, lock, expired, expiries>>
prompts == <<lock, expired, expiries>>

(* A connection as the pool hands it out: the connecting role, no claims.  *)
Privileged == [role |-> "postgres", sub |-> NoUser]
BoundTo(u) == [role |-> "authenticated", sub |-> u]

NoConns == [s \in Slots |-> NoConn]
Idle == [pc |-> "idle", kind |-> "plain", user |-> NoUser, held |-> NoConns,
         left |-> 0, saw |-> {}]

Init == /\ conn = [k \in Conns |-> Privileged]
        /\ req = [r \in Requests |-> Idle]
        /\ lock = "nobody" /\ expired = TRUE /\ expiries = 0

At(r, stage)   == req[r].pc = stage
Become(r, rec) == req' = [req EXCEPT ![r] = rec]
Goto(r, stage) == Become(r, [req[r] EXCEPT !.pc = stage])

Held == {req[r].held[s] : r \in Requests, s \in Slots} \ {NoConn}
Free == Conns \ Held

-----------------------------------------------------------------------------
(* decode_supabase_jwt.  The settings fix the key and the algorithms; a    *)
(* token they do not cover, that has expired or whose subject is no user   *)
(* is worth nothing.                                                       *)
Tokens == [alg : {"HS256", "ES256", "none"}, ours : BOOLEAN, live : BOOLEAN,
           sub : Users \cup {NoUser}]

Algorithms == CASE Verifier = "jwks"   -> {"RS256", "ES256"}
                [] Verifier = "secret" -> {"HS256"}
                [] OTHER               -> {}

IdentityOf(t) == IF t.alg \in Algorithms /\ t.ours /\ t.live THEN t.sub ELSE NoUser

(* get_current_user, on which every session of a user's data depends: a    *)
(* request without a good token is refused before it has one.              *)
FirstStage(kind) == CASE kind = "plain"    -> "work"
                      [] kind = "gated"    -> "cap"
                      [] kind = "deletion" -> "purge"
                      [] OTHER             -> "ping"

Arrive(r, kind) ==
  /\ At(r, "idle")
  /\ Become(r, [Idle EXCEPT !.kind = kind,
                            !.pc = IF kind = "probe" THEN "ping" ELSE "token",
                            !.left = IF kind = "plain" THEN MaxStatements ELSE 0])
  /\ UNCHANGED <<conn, prompts>>

Authenticate(r, t) ==
  /\ At(r, "token")
  /\ IF IdentityOf(t) = NoUser
     THEN Become(r, Idle)
     ELSE Become(r, [req[r] EXCEPT !.user = IdentityOf(t), !.pc = FirstStage(req[r].kind)])
  /\ UNCHANGED <<conn, prompts>>

-----------------------------------------------------------------------------
(* The session whose statement comes next.  Only get_db binds a session to *)
(* the user.                                                               *)
SlotOf(stage) == CASE stage \in {"work", "cap", "save"}       -> "main"
                   [] stage \in {"budget", "record", "purge"} -> "usage"
                   [] OTHER                                   -> "inner"

Querying == {"work", "cap", "save", "budget", "record", "purge", "warm", "ping"}
Slot(r) == SlotOf(req[r].pc)
Mine(r) == req[r].held[Slot(r)]
Ready(r, stage) == At(r, stage) /\ Mine(r) # NoConn
Wanting(r) == req[r].pc \in Querying /\ Mine(r) = NoConn

(* The listener is gone after the first transaction.                       *)
BeginOnce(r, slot, k) ==
  IF slot = "main" /\ req[r].left = MaxStatements THEN BoundTo(req[r].user) ELSE conn[k]

(* after_begin: each transaction of the bound session takes the role and   *)
(* the claims of its user, the first one and those after a commit.  The    *)
(* others take the connection as it comes.                                 *)
Begin(r, slot, k) == IF slot = "main" THEN BoundTo(req[r].user) ELSE conn[k]

Checkout(r, k) ==
  /\ Wanting(r) /\ k \in Free
  /\ conn' = [conn EXCEPT ![k] = Begin(r, Slot(r), k)]
  /\ Become(r, [req[r] EXCEPT !.held[Slot(r)] = k])
  /\ UNCHANGED prompts

(* SET ROLE and set_config for the session: they outlive the transaction.  *)
ResetNothing(slots, r) == conn

(* The transaction ends, and what was SET LOCAL in it with it.             *)
Reset(slots, r) ==
  [k \in Conns |-> IF k \in {req[r].held[s] : s \in slots} THEN Privileged ELSE conn[k]]

Without(slots, r) == [s \in Slots |-> IF s \in slots THEN NoConn ELSE req[r].held[s]]

(* A commit, or a session left: its connection goes back to the pool.      *)
GiveBack(r, slots, stage) ==
  /\ conn' = Reset(slots, r)
  /\ Become(r, [req[r] EXCEPT !.held = Without(slots, r), !.pc = stage])

(* What the owner policies let a statement see: its user's rows.  The      *)
(* connecting role owns the tables and sees everyone's.                    *)
Visible(k) == IF conn[k].role = "postgres" THEN Users ELSE {conn[k].sub}

(* The counters, the flags and the prompts are the connecting role's only. *)
MayReadServerTables(k) == conn[k].role = "postgres"

Seeing(r) == req[r].saw \cup Visible(Mine(r))
-----------------------------------------------------------------------------
(* A plain request: statements on its user's rows; a service may commit    *)
(* after one and go on.                                                    *)
Work(r) ==
  /\ Ready(r, "work")
  /\ \E committed \in BOOLEAN, stage \in IF req[r].left > 1 THEN {"work", "close"} ELSE {"close"} :
       LET ended == IF committed THEN {"main"} ELSE {}
       IN  /\ conn' = Reset(ended, r)
           /\ Become(r, [req[r] EXCEPT !.saw = Seeing(r), !.held = Without(ended, r),
                                       !.pc = stage, !.left = @ - 1])
  /\ UNCHANGED prompts

(* A gated request: the cap on the user's session, the budget on the       *)
(* privileged one; both stay open while the provider works.                *)
ReadCap(r) ==
  /\ Ready(r, "cap")
  /\ \E stage \in {"budget", "close"} :
       Become(r, [req[r] EXCEPT !.saw = Seeing(r), !.pc = stage])
  /\ UNCHANGED <<conn, prompts>>

ReadBudget(r) ==
  /\ Ready(r, "budget")
  /\ \E stage \in IF MayReadServerTables(Mine(r)) THEN {"prompts", "close"} ELSE {"close"} :
       Goto(r, stage)
  /\ UNCHANGED <<conn, prompts>>

ServePrompts(r) ==
  /\ At(r, "prompts") /\ ~expired
  /\ Goto(r, "provider")
  /\ UNCHANGED <<conn, prompts>>

LockPrompts(r) ==
  /\ At(r, "prompts") /\ expired /\ lock = "nobody"
  /\ lock' = r
  /\ Goto(r, "warm")
  /\ UNCHANGED <<conn, expired, expiries>>

(* Read, or not to be read: there are prompts for another TTL.             *)
RefreshPrompts(r) ==
  /\ At(r, "warm")
  /\ GiveBack(r, {"inner"}, "provider")
  /\ lock' = "nobody" /\ expired' = FALSE
  /\ UNCHANGED expiries

ReadPrompts(r) == Ready(r, "warm") /\ RefreshPrompts(r)

Provider(r) ==
  /\ At(r, "provider")
  /\ \E stage \in {"record", "close"} : Goto(r, stage)
  /\ UNCHANGED <<conn, prompts>>

Record(r) ==
  /\ Ready(r, "record")
  /\ \E stage \in IF MayReadServerTables(Mine(r)) THEN {"save", "close"} ELSE {"close"} :
       GiveBack(r, {"usage"}, stage)
  /\ UNCHANGED prompts

Save(r) ==
  /\ Ready(r, "save")
  /\ conn' = Reset({"main"}, r)
  /\ Become(r, [req[r] EXCEPT !.saw = Seeing(r), !.held = Without({"main"}, r), !.pc = "close"])
  /\ UNCHANGED prompts
-----------------------------------------------------------------------------
(* DELETE /account: the profile goes on the privileged session, then the   *)
(* identity, at the provider of identities.                                *)
Purge(r) ==
  /\ Ready(r, "purge")
  /\ GiveBack(r, {"usage"}, "identity")
  /\ UNCHANGED prompts

DeleteIdentity(r) ==
  /\ At(r, "identity")
  /\ Goto(r, "close")
  /\ UNCHANGED <<conn, prompts>>

(* GET /ready: a SELECT 1 within READY_CHECK_TIMEOUT_SECONDS.              *)
Ping(r) ==
  /\ Ready(r, "ping")
  /\ GiveBack(r, {"inner"}, "close")
  /\ UNCHANGED prompts

ProbeTimeout(r) ==
  /\ At(r, "ping")
  /\ GiveBack(r, {"inner"}, "close")
  /\ UNCHANGED prompts
-----------------------------------------------------------------------------
(* A request in the middle of a refresh that fails has the defaults;       *)
(* elsewhere what is raised ends the request.                              *)
Fails(r) == IF At(r, "warm") THEN RefreshPrompts(r)
                             ELSE Goto(r, "close") /\ UNCHANGED <<conn, prompts>>

(* The pool has no timeout.                                                *)
WaitForever(r) == Wanting(r) /\ Conns = {} /\ Fails(r)

(* Every connection is out for as long as the pool lets a session wait.    *)
PoolTimeout(r) == Wanting(r) /\ Free = {} /\ Fails(r)

(* The database refuses a connection, or a statement.                      *)
StatementFails(r) ==
  /\ req[r].pc \in Querying
  /\ Wanting(r) => Free # {}
  /\ Fails(r)

(* The session of the counters is left open when the request failed.       *)
CloseMainOnly(r) ==
  /\ At(r, "close")
  /\ conn' = Reset({"main", "inner"}, r)
  /\ Become(r, [Idle EXCEPT !.held = Without({"main", "inner"}, r)])
  /\ UNCHANGED prompts

(* The dependencies are left, and with them every session.                 *)
Close(r) ==
  /\ At(r, "close")
  /\ conn' = Reset(Slots, r)
  /\ Become(r, Idle)
  /\ UNCHANGED prompts

Expire ==
  /\ ~expired /\ expiries < MaxExpiries
  /\ expired' = TRUE
  /\ expiries' = expiries + 1
  /\ UNCHANGED <<conn, req, lock>>

Serve(r) ==
  \/ \E t \in Tokens : Authenticate(r, t)
  \/ \E k \in Conns : Checkout(r, k)
  \/ Work(r)
  \/ ReadCap(r) \/ ReadBudget(r) \/ ServePrompts(r) \/ LockPrompts(r) \/ ReadPrompts(r)
  \/ Provider(r) \/ Record(r) \/ Save(r)
  \/ Purge(r) \/ DeleteIdentity(r)
  \/ Ping(r) \/ ProbeTimeout(r)
  \/ PoolTimeout(r) \/ StatementFails(r)
  \/ Close(r)

Next == \/ \E r \in Requests : Serve(r) \/ \E kind \in Kinds : Arrive(r, kind)
        \/ Expire

Spec == Init /\ [][Next]_vars

(* A statement and a call of the provider return or raise, and a wait for  *)
(* a connection is timed.                                                  *)
FairSpec == Spec /\ \A r \in Requests : WF_vars(Serve(r))
-----------------------------------------------------------------------------
Stages == {"idle", "token", "prompts", "provider", "identity", "close"} \cup Querying

Request == [pc : Stages, kind : AllKinds, user : Users \cup {NoUser},
            held : [Slots -> Conns \cup {NoConn}], left : 0 .. MaxStatements,
            saw : SUBSET Users]

TypeOK == /\ conn \in [Conns -> [role : {"postgres", "authenticated"},
                                 sub : Users \cup {NoUser}]]
          /\ req \in [Requests -> Request]
          /\ lock \in Requests \cup {"nobody"}
          /\ expired \in BOOLEAN
          /\ expiries \in 0 .. MaxExpiries

(* No connection is lent twice, and a request that has not been            *)
(* authenticated, or is over, holds none: whatever raises on the way, the  *)
(* sessions of get_db and get_usage_db give back what they took.           *)
LentOnce ==
  /\ \A r1, r2 \in Requests, s1, s2 \in Slots :
       req[r1].held[s1] = req[r2].held[s2] /\ req[r1].held[s1] # NoConn
         => r1 = r2 /\ s1 = s2
  /\ \A r \in Requests : req[r].pc \in {"idle", "token"} => req[r].held = NoConns

(* Whoever had a connection before, and however often the request has      *)
(* committed: a transaction of get_db runs as the user of the request, one *)
(* of get_usage_db as the connecting role, and a connection in the pool    *)
(* carries neither role nor claims of its last user (app/db/rls.py).       *)
IdentityKept ==
  /\ \A r \in Requests, s \in Slots :
       req[r].held[s] # NoConn =>
         conn[req[r].held[s]] = IF s = "main" THEN BoundTo(req[r].user) ELSE Privileged
  /\ \A k \in Free : conn[k] = Privileged

(* So the pool stays whole and clean, whatever raises and whatever order   *)
(* requests take and give back connections in (app/db/session.py, rls.py). *)
ConnectionsKept == LentOnce /\ IdentityKept

(* The statements of a request on its user's data saw that user's rows and *)
(* nobody else's, also those that name no user.                            *)
OwnRowsOnly == \A r \in Requests : req[r].saw \subseteq {req[r].user}

(* A request ends, also when every connection is held by requests that     *)
(* wait for a second or a third one.                                       *)
RequestsEnd == \A r \in Requests : ~At(r, "idle") ~> At(r, "idle")
=============================================================================
