-------------------------- MODULE AccountDeletion --------------------------
(***************************************************************************)
(* The account of one mail address: hard deletion in the app               *)
(* (routers/account.py) and by mailed link (routers/account_deletion.py,   *)
(* app/deletion_tokens.py) through AccountDeletionService, which erases    *)
(* the profile in Postgres and then the identity at Supabase Auth, two     *)
(* systems without a common transaction; next to the requests that still   *)
(* write the account's data, and to a later account of the same address.   *)
(*                                                                         *)
(* The rate limiters of the public form are RateLimiter.tla: here they may *)
(* refuse.  Supabase is configured; without, delete_user does nothing.     *)
(***************************************************************************)
EXTENDS Integers

CONSTANTS Uids,        \* the identities Supabase Auth hands out
          Handlers,    \* requests served at the same time
          LinkTtl,     \* DELETION_TOKEN_TTL_SECONDS, in clock ticks
          AccessTtl,   \* life of an access token, in clock ticks
          MaxTime,     \* bound of the model: the clock stops here
          MaxLinks     \* bound of the model: links asked for in all

ASSUME DeletionAssumption ==
  /\ Uids # {}
  /\ LinkTtl \in Nat /\ AccessTtl \in Nat \ {0}
  /\ MaxTime \in Nat /\ MaxLinks \in Nat

VARIABLES
  now,       \* the clock
  authFk,    \* whether the database has the foreign key profiles -> auth.users
  born,      \* the identities handed out so far
  auth,      \* auth.users
  profiles,  \* the rows of profiles
  content,   \* the profiles with rows in the tables below: languages, cards ...
  access,    \* until when an access token of the account is accepted
  links,     \* the links mailed, each with its account and expiry
  mailed,    \* how many were asked for
  job,       \* the requests in hand
  told       \* history: the accounts whose deletion was reported as done

db   == <<profiles, content>>
env  == <<authFk, born, access, links, mailed>>
vars == <<now, authFk, born, auth, profiles, content, access, links, mailed, job, told>>

Idle == [pc |-> "idle", uid |-> CHOOSE u \in Uids : TRUE]

Init == /\ now = 0
        /\ authFk \in BOOLEAN
        /\ born = {} /\ auth = {} /\ profiles = {} /\ content = {}
        /\ access = [u \in Uids |-> 0]
        /\ links = {} /\ mailed = 0
        /\ job = [h \in Handlers |-> Idle]
        /\ told = {}

At(h, stage) == job[h].pc = stage
Goto(h, stage) == job' = [job EXCEPT ![h].pc = stage]
Drop(h) == job' = [job EXCEPT ![h] = Idle]
Start(h, stage, u) == At(h, "idle") /\ job' = [job EXCEPT ![h] = [pc |-> stage, uid |-> u]]

-----------------------------------------------------------------------------
Tick == now < MaxTime /\ now' = now + 1 /\ UNCHANGED <<env, db, auth, job, told>>

(* handle_new_user gives every new identity its profile. *)
SignUp(u) ==
  /\ u \notin born /\ auth = {}
  /\ born' = born \cup {u}
  /\ auth' = {u}
  /\ profiles' = profiles \cup {u}
  /\ UNCHANGED <<now, authFk, content, access, links, mailed, job, told>>

(* Sign in, or refresh the session: as long as the identity exists. *)
RenewAccess(u) ==
  /\ u \in auth
  /\ access[u] < now + AccessTtl
  /\ access' = [access EXCEPT ![u] = now + AccessTtl]
  /\ UNCHANGED <<now, authFk, born, auth, db, links, mailed, job, told>>

(* get_current_user asks nobody whether the identity still exists. *)
SignedIn(u) == now < access[u]

-----------------------------------------------------------------------------
(* A request that writes a row of the account: the INSERT needs the        *)
(* profile and keeps it from being deleted until the transaction ends.     *)
AskToWrite(h, u) ==
  /\ SignedIn(u)
  /\ Start(h, "insert", u)
  /\ UNCHANGED <<now, env, auth, db, told>>

Insert(h) ==
  /\ At(h, "insert")
  /\ IF job[h].uid \in profiles THEN Goto(h, "commit") ELSE Drop(h)
  /\ UNCHANGED <<now, env, auth, db, told>>

Commit(h) ==
  /\ At(h, "commit")
  /\ content' = content \cup {job[h].uid}
  /\ Drop(h)
  /\ UNCHANGED <<now, env, auth, profiles, told>>

(* export_account: the profile, then the rows, table after table, each     *)
(* statement as of its own moment.                                         *)
AskToExport(h, u) ==
  /\ SignedIn(u)
  /\ Start(h, "profile", u)
  /\ UNCHANGED <<now, env, auth, db, told>>

ReadProfile(h) ==
  /\ At(h, "profile")
  /\ Goto(h, IF job[h].uid \in profiles THEN "rows" ELSE "bare")
  /\ UNCHANGED <<now, env, auth, db, told>>

(* What a bundle without a profile has in it.                              *)
RowsFound(h) == content \cap {job[h].uid}

ReadRows(h) ==
  /\ At(h, "rows") \/ At(h, "bare")
  /\ Drop(h)
  /\ UNCHANGED <<now, env, auth, db, told>>

ProfileLocked(u) == \E h \in Handlers : At(h, "commit") /\ job[h].uid = u

-----------------------------------------------------------------------------
(* request_account_deletion, past its limiters, for the address.           *)
AskForLink(h) ==
  /\ mailed < MaxLinks
  /\ mailed' = mailed + 1
  /\ Start(h, "find", Idle.uid)
  /\ UNCHANGED <<now, authFk, born, access, links, auth, db, told>>

Found(h, u) == u \in auth /\ job' = [job EXCEPT ![h] = [pc |-> "mail", uid |-> u]]

(* The identity of the address is looked up in auth.users, where the role  *)
(* of the session may read that.                                           *)
FindByEmail(h) ==
  /\ At(h, "find")
  /\ \/ \E u \in auth : Found(h, u)
     \/ auth = {} /\ Drop(h)
     \/ Goto(h, "pages")
  /\ UNCHANGED <<now, env, auth, db, told>>

(* Or in the lists of Supabase, page by page.  Pages shift as accounts     *)
(* come and go, and any of them may fail: nobody is found then.            *)
FindViaAdmin(h) ==
  /\ At(h, "pages")
  /\ Drop(h) \/ \E u \in auth : Found(h, u)
  /\ UNCHANGED <<now, env, auth, db, told>>

(* sign_deletion_token: the account and the end of its life, under a mac.  *)
LinkFor(u) == [uid |-> u, expires |-> now + LinkTtl]

(* A mail that cannot be sent is not spoken of.                            *)
Mail(link) == links' \in {links, links \cup {link}}

SendLink(h) ==
  /\ At(h, "mail")
  /\ Mail(LinkFor(job[h].uid))
  /\ Drop(h)
  /\ UNCHANGED <<now, authFk, born, access, mailed, auth, db, told>>

(* delete_account, for the signed-in account. *)
AskToDelete(h, u) ==
  /\ SignedIn(u)
  /\ Start(h, "purge", u)
  /\ UNCHANGED <<now, env, auth, db, told>>

(* verify_deletion_token: a link can be used again until it expires.       *)
Verified(l) == now <= l.expires

(* A link that stands for its mail address. *)
FollowLinkByMail(h) ==
  \E l \in links, u \in auth :
    /\ Verified(l)
    /\ Start(h, "purge", u)
    /\ UNCHANGED <<now, env, auth, db, told>>

(* confirm_account_deletion. *)
FollowLink(h) ==
  \E l \in links :
    /\ Verified(l)
    /\ Start(h, "purge", l.uid)
    /\ UNCHANGED <<now, env, auth, db, told>>
-----------------------------------------------------------------------------
(* A purge that takes a missing profile for an error. *)
PurgeStrict(h) ==
  /\ At(h, "purge")
  /\ ~ProfileLocked(job[h].uid)
  /\ profiles' = profiles \ {job[h].uid}
  /\ content' = content \ {job[h].uid}
  /\ IF job[h].uid \in profiles THEN Goto(h, "auth") ELSE Drop(h)
  /\ UNCHANGED <<now, env, auth, told>>

(* A purge without the cascade. *)
PurgeProfileOnly(h) ==
  /\ At(h, "purge")
  /\ ~ProfileLocked(job[h].uid)
  /\ profiles' = profiles \ {job[h].uid}
  /\ Goto(h, "auth")
  /\ UNCHANGED <<now, env, auth, content, told>>

(* The purge left to the foreign key. *)
PurgeByCascade(h) ==
  /\ At(h, "purge")
  /\ Goto(h, "auth")
  /\ UNCHANGED <<now, env, auth, db, told>>

(* _purge_profile: the DELETE waits for the row, cascades to everything    *)
(* the account owns, and is committed at once.                             *)
Purge(h) ==
  /\ At(h, "purge")
  /\ ~ProfileLocked(job[h].uid)
  /\ profiles' = profiles \ {job[h].uid}
  /\ content' = content \ {job[h].uid}
  /\ Goto(h, "auth")
  /\ UNCHANGED <<now, env, auth, told>>

(* Supabase deletes the identity, and with the foreign key a profile too.  *)
DeleteIdentity(u) ==
  /\ auth' = auth \ {u}
  /\ IF u \in auth /\ authFk
     THEN ~ProfileLocked(u) /\ profiles' = profiles \ {u} /\ content' = content \ {u}
     ELSE UNCHANGED db

(* Any answer of Supabase will do. *)
EraseAuthAnyhow(h) ==
  /\ At(h, "auth")
  /\ \/ UNCHANGED <<auth, db>>
     \/ DeleteIdentity(job[h].uid)
  /\ told' = told \cup {job[h].uid}
  /\ Drop(h)
  /\ UNCHANGED <<now, env>>

(* _admin_delete_auth_user: deleted, or gone already, and said to be done. *)
EraseAuth(h) ==
  /\ At(h, "auth")
  /\ DeleteIdentity(job[h].uid)
  /\ told' = told \cup {job[h].uid}
  /\ Drop(h)
  /\ UNCHANGED <<now, env>>

(* Supabase deletes the identity, and its answer is lost: a 502. *)
EraseAuthUnheard(h) ==
  /\ At(h, "auth")
  /\ DeleteIdentity(job[h].uid)
  /\ Drop(h)
  /\ UNCHANGED <<now, env, told>>

(* Refused by a limiter, a statement or the call to Supabase failed, the   *)
(* process or the client died: whatever is not committed is rolled back.   *)
Fail(h) ==
  /\ ~At(h, "idle")
  /\ Drop(h)
  /\ UNCHANGED <<now, env, auth, db, told>>

Next == \/ Tick
        \/ \E u \in Uids : SignUp(u) \/ RenewAccess(u)
        \/ \E h \in Handlers, u \in Uids : AskToWrite(h, u) \/ AskToExport(h, u) \/ AskToDelete(h, u)
        \/ \E h \in Handlers : \/ Insert(h) \/ Commit(h)
                               \/ ReadProfile(h) \/ ReadRows(h)
                               \/ AskForLink(h) \/ FindByEmail(h) \/ FindViaAdmin(h)
                               \/ SendLink(h) \/ FollowLink(h)
                               \/ Purge(h) \/ EraseAuth(h) \/ EraseAuthUnheard(h)
                               \/ Fail(h)

Spec == Init /\ [][Next]_vars

(* Transactions end and Postgres grants locks in turn; Supabase does not   *)
(* fail for ever; the owner signs in and asks again until the account is   *)
(* gone.                                                                   *)
FairSpec == /\ Spec
            /\ \A h \in Handlers :
                 WF_vars(\/ Insert(h) \/ Commit(h) \/ ReadProfile(h) \/ ReadRows(h)
                         \/ FindByEmail(h) \/ FindViaAdmin(h) \/ SendLink(h))
            /\ \A u \in Uids :
                 /\ WF_vars(RenewAccess(u))
                 /\ SF_vars(\E h \in Handlers : AskToDelete(h, u))
                 /\ SF_vars(\E h \in Handlers : Purge(h) /\ job[h].uid = u)
                 /\ SF_vars(\E h \in Handlers : EraseAuth(h) /\ job[h].uid = u)
-----------------------------------------------------------------------------
Stages == {"idle", "insert", "commit", "profile", "rows", "bare", "find", "pages", "mail", "purge", "auth"}

(* One identity per address, profiles only of identities that were handed  *)
(* out, and data only below a profile.                                     *)
TypeOK == /\ now \in 0 .. MaxTime
          /\ authFk \in BOOLEAN
          /\ born \subseteq Uids
          /\ auth \subseteq born /\ profiles \subseteq born /\ content \subseteq profiles
          /\ \A u, v \in auth : u = v
          /\ access \in [Uids -> 0 .. MaxTime + AccessTtl]
          /\ links \subseteq [uid : born, expires : 0 .. MaxTime + LinkTtl]
          /\ mailed \in 0 .. MaxLinks
          /\ job \in [Handlers -> [pc : Stages, uid : Uids]]
          /\ told \subseteq born

(* In two systems without a common transaction, with or without the        *)
(* foreign key between them, with deletions that overlap, fail half-way    *)
(* and are repeated, and with tokens that outlive the account: no profile  *)
(* or data is ever left without an identity, and none comes back.          *)
StageOf(u) == CASE u \notin born -> "unborn"
                [] u \in auth /\ u \in profiles -> "live"
                [] u \in auth /\ u \notin profiles -> "closing"
                [] u \in born \ auth /\ u \in profiles -> "orphan"
                [] OTHER -> "erased"

Promise == INSTANCE Erasure WITH stage <- [u \in Uids |-> StageOf(u)]
ImplementsErasure == Promise!Spec

(* "never a false success" (AccountDeletionService.delete_user): an        *)
(* account that was reported deleted is gone from both systems, for good.  *)
ToldIsErased == told \cap (auth \cup profiles \cup content) = {}

(* And an export that met the deletion of its account half-way, and found  *)
(* no profile any more, finds no rows either (ExportService.export).       *)
NoneOfTheDeleted == \A h \in Handlers : At(h, "bare") => RowsFound(h) = {}

GoneIsGone == ToldIsErased /\ NoneOfTheDeleted

(* An account is closed by who was signed in to it, or by a link mailed    *)
(* for it: a link that is still good spares the account that was opened    *)
(* with the same address after the one it was mailed for was deleted.      *)
LinkSparesSuccessor ==
  [][\A u \in profiles \ profiles' : access[u] > 0 \/ \E l \in links : l.uid = u]_vars

(* "a retry safely completes": an account that lost its data but kept its  *)
(* identity is deleted in the end if its owner keeps asking.               *)
HalfErasedEnds == \A u \in Uids : u \in auth \ profiles ~> u \notin auth
=============================================================================
