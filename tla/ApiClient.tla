----------------------------- MODULE ApiClient -----------------------------
(***************************************************************************)
(* One browser tab: the API client (apps/web/src/lib/api-client.ts), which *)
(* attaches the access token to a call, refreshes the session when a call  *)
(* is refused and sends it once more; the sign-out and the reset of the    *)
(* query cache that follow a failed refresh (components/auth-provider.tsx, *)
(* route-guards.tsx); and, as the user of it all, the settings query with  *)
(* its save, which writes its answer into the cache (lib/settings.ts).     *)
(*                                                                         *)
(* supabase-js keeps the session and takes its own calls one at a time.    *)
(***************************************************************************)
EXTENDS Naturals

CONSTANTS Users, NoUser,
          Tokens, NoToken,  \* access tokens; an old one comes round again
          Calls             \* API calls at a time

VARIABLES
  session,   \* the session supabase-js has stored
  settings,  \* the API: how often each user's settings were saved
  cache,     \* the settings in the query cache: whose, which, and where from
  call,      \* the calls on their way
  inFlight   \* inFlightRefresh: the call that started the refresh

vars   == <<session, settings, cache, call, inFlight>>
client == <<call, inFlight>>

NoSession == [user |-> NoUser, token |-> NoToken]
NoData    == [user |-> NoUser, save |-> 0, from |-> "nowhere"]
Idle(c)   == [pc |-> "idle", kind |-> "read", auth |-> NoSession, retried |-> FALSE,
              kept |-> FALSE, on |-> c, answer |-> "none", data |-> NoData]

Init == /\ session = NoSession
        /\ settings = [u \in Users |-> 0]
        /\ cache = NoData
        /\ call = [c \in Calls |-> Idle(c)]
        /\ inFlight = {}

SignedIn   == session # NoSession
Waiting(c) == call[c].pc = "waiting"
Refreshing == \E c \in Calls : Waiting(c)

-----------------------------------------------------------------------------
(* supabase-js.                                                            *)
Renew(u) == \E t \in Tokens \ {session.token} : session' = [user |-> u, token |-> t]

(* The log-in page, which a signed-in user does not see.                   *)
SignIn ==
  /\ ~SignedIn
  /\ \E u \in Users : Renew(u)
  /\ UNCHANGED <<settings, cache, client>>

(* autoRefreshToken. *)
AutoRefresh ==
  /\ SignedIn /\ ~Refreshing
  /\ Renew(session.user)
  /\ UNCHANGED <<settings, cache, client>>

(* SIGNED_OUT: queryClient.clear() empties the cache and lets go of the    *)
(* queries on their way, though not of their requests.                     *)
EndSession ==
  /\ session' = NoSession
  /\ cache' = NoData

LetGo(calls) == [c \in Calls |-> [calls[c] EXCEPT !.kept = FALSE]]

SignOut ==
  /\ SignedIn /\ ~Refreshing
  /\ EndSession
  /\ call' = LetGo(call)
  /\ UNCHANGED <<settings, inFlight>>

-----------------------------------------------------------------------------
(* The pages, behind RequireAuth.                                          *)
Send(c, request) ==
  /\ SignedIn /\ ~Refreshing
  /\ call[c].pc = "idle"
  /\ call' = [call EXCEPT ![c] = request]
  /\ UNCHANGED <<session, settings, cache, inFlight>>

Reading(c) == [Idle(c) EXCEPT !.pc = "sent", !.auth = session, !.kept = TRUE]
Saving(c)  == [Idle(c) EXCEPT !.pc = "sent", !.auth = session, !.kind = "save"]

(* GET /settings: a first fetch, a refetch of stale data or a retry; the   *)
(* query has one at a time.                                                *)
Read(c) == ~(\E d \in Calls : call[d].kept) /\ Send(c, Reading(c))

(* PUT /settings: the form is shown once there is data.                    *)
Save(c) == cache # NoData /\ Send(c, Saving(c))

(* The query cache drops data that no page shows.                          *)
Collect ==
  /\ cache # NoData
  /\ cache' = NoData
  /\ UNCHANGED <<session, settings, client>>

-----------------------------------------------------------------------------
(* The API reads or saves the settings of the user the token names; or     *)
(* refuses the token with 401, which may have expired at any time.         *)
Answered(c, answer, data) ==
  call' = [call EXCEPT ![c].pc = "answered", ![c].answer = answer, ![c].data = data]

Serve(c) ==
  /\ call[c].pc = "sent"
  /\ LET u == call[c].auth.user
         n == settings[u] + (IF call[c].kind = "save" THEN 1 ELSE 0)
     IN /\ settings' = [settings EXCEPT ![u] = n]
        /\ Answered(c, "ok", [user |-> u, save |-> n, from |-> call[c].kind])
  /\ UNCHANGED <<session, cache, inFlight>>

Refuse(c) ==
  /\ call[c].pc = "sent"
  /\ Answered(c, "refused", NoData)
  /\ UNCHANGED <<session, settings, cache, inFlight>>

-----------------------------------------------------------------------------
Done(c) == call' = [call EXCEPT ![c] = Idle(c)]

(* A query that was let go of drops its answer; the onSuccess of a save    *)
(* runs whatever became of its page.                                       *)
Land(c) ==
  /\ call[c].pc = "answered" /\ call[c].answer = "ok"
  /\ cache' = IF call[c].kept \/ call[c].kind = "save" THEN call[c].data ELSE cache
  /\ Done(c)
  /\ UNCHANGED <<session, settings, inFlight>>

(* The request or its answer is lost, or ends in another error.            *)
Lose(c) ==
  /\ call[c].pc \in {"sent", "answered"} /\ call[c].answer # "refused"
  /\ Done(c)
  /\ UNCHANGED <<session, settings, cache, inFlight>>

(* The second refusal is surfaced.                                         *)
GiveUp(c) ==
  /\ call[c].pc = "answered" /\ call[c].answer = "refused" /\ call[c].retried
  /\ Done(c)
  /\ UNCHANGED <<session, settings, cache, inFlight>>

(* The first refusal: sessionRefreshToken starts the refresh, or joins the *)
(* one that is in flight.                                                  *)
AwaitOn(c, r) ==
  /\ inFlight' = {r}
  /\ call' = [call EXCEPT ![c].pc = "waiting", ![c].on = r]
  /\ UNCHANGED <<session, settings, cache>>

RefusedFirst(c) == call[c].pc = "answered" /\ call[c].answer = "refused" /\ ~call[c].retried

AwaitRefresh(c) == RefusedFirst(c) /\ \E r \in IF inFlight = {} THEN {c} ELSE inFlight : AwaitOn(c, r)

(* The refresh settles: everyone who waits for it sends his request again  *)
(* with the new token, or signs out when there is none.                    *)
Settles(r)     == \E c \in Calls : Waiting(c) /\ call[c].on = r
Wake(r, woken) == call' = [c \in Calls |-> IF Waiting(c) /\ call[c].on = r THEN woken[c] ELSE call[c]]

Resent  == [c \in Calls |-> [Idle(c) EXCEPT !.pc = "sent", !.kind = call[c].kind, !.kept = call[c].kept,
                                            !.auth = session', !.retried = TRUE]]
GivenUp == [c \in Calls |-> [Idle(c) EXCEPT !.pc = "leaving", !.kept = call[c].kept]]

Refreshed(r) ==
  /\ Settles(r) /\ SignedIn
  /\ Renew(session.user)
  /\ Wake(r, Resent)
  /\ inFlight' = {}
  /\ UNCHANGED <<settings, cache>>

(* No session, an error, or an exception.                                  *)
RefreshFailed(r) ==
  /\ Settles(r)
  /\ Wake(r, GivenUp)
  /\ inFlight' = {}
  /\ UNCHANGED <<session, settings, cache>>

(* defaultOnAuthFailure: a sign-out that fails leaves the session; then    *)
(* the first answer is returned.                                           *)
Leave(c) ==
  /\ call[c].pc = "leaving" /\ ~Refreshing
  /\ \/ EndSession /\ call' = LetGo([call EXCEPT ![c] = Idle(c)])
     \/ Done(c) /\ UNCHANGED <<session, cache>>
  /\ UNCHANGED <<settings, inFlight>>

Receive(c) == Land(c) \/ GiveUp(c) \/ AwaitRefresh(c)
Settle(r)  == Refreshed(r) \/ RefreshFailed(r)

Next == \/ SignIn \/ AutoRefresh \/ SignOut \/ Collect
        \/ \E c \in Calls : \/ Read(c) \/ Save(c)
                            \/ Serve(c) \/ Refuse(c) \/ Lose(c) \/ Receive(c)
                            \/ Settle(c) \/ Leave(c)

Spec == Init /\ [][Next]_vars

-----------------------------------------------------------------------------
Sessions == [user : Users, token : Tokens] \cup {NoSession}
Data     == [user : Users, save : Nat, from : {"read", "save"}] \cup {NoData}

CallType == [pc : {"idle", "sent", "answered", "waiting", "leaving"}, kind : {"read", "save"},
             auth : Sessions, retried : BOOLEAN, kept : BOOLEAN, on : Calls,
             answer : {"none", "ok", "refused"}, data : Data]

TypeOK == /\ session \in Sessions
          /\ settings \in [Users -> Nat]
          /\ cache \in Data
          /\ call \in [Calls -> CallType]
          /\ inFlight \subseteq Calls

(* "No previous user's data lingers" (auth-provider.tsx), of what was      *)
(* fetched: it is the signed-in user's own, and without a session there is *)
(* none, whatever requests outlive their session and are sent again in the *)
(* next one.                                                               *)
FetchedIsOwn == cache.from = "read" => SignedIn /\ cache.user = session.user

(* Calls that are refused while a refresh is in flight share it (api-      *)
(* client.ts: no refresh storm), and its outcome: all of them are sent     *)
(* again at once, with the token the session has then, or all give the     *)
(* session up.                                                             *)
OneRefresh == \A c, d \in Calls : Waiting(c) /\ Waiting(d) => call[c].on = call[d].on

SharedOutcome ==
  [][\A c, d \in Calls : Waiting(c) /\ Waiting(d) /\ ~Waiting(c)' =>
       \/ call'[c].pc = "leaving" /\ call'[d].pc = "leaving"
       \/ /\ call'[c].pc = "sent" /\ call'[c].auth = session'
          /\ call'[d].pc = "sent" /\ call'[d].auth = session']_vars

BurstSharesRefresh == [](TypeOK /\ OneRefresh) /\ SharedOutcome
=============================================================================
