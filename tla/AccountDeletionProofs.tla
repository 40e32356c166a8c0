----------------------- MODULE AccountDeletionProofs -----------------------
(* Erasure in two systems, for every set of accounts and requests, every   *)
(* time to live, with and without the foreign key between the systems.     *)
EXTENDS AccountDeletion, TLAPS

(* What TypeOK rests on: a request is for an identity that was handed out, *)
(* once it has found one (so is whatever starts it), a row about to be     *)
(* committed keeps its profile, the profile goes before the identity, and  *)
(* nobody is told too early.                                               *)
NobodysStages == {"idle", "find", "pages"}
JobsOfBorn   == \A h \in Handlers : job[h].pc \notin NobodysStages => job[h].uid \in born
SignedInBorn == \A u \in Uids : access[u] > 0 => u \in born
WriterHolds  == \A h \in Handlers : At(h, "commit") => job[h].uid \in profiles
PurgedFirst  == /\ profiles \subseteq auth
                /\ \A h \in Handlers : At(h, "auth") \/ At(h, "bare") => job[h].uid \notin profiles
ToldInTime   == told \cap auth = {}

DeletionInv == /\ TypeOK
               /\ JobsOfBorn /\ SignedInBorn /\ WriterHolds /\ PurgedFirst /\ ToldInTime

Job == [pc : Stages, uid : Uids]

LEMMA IdleType == Idle \in Job /\ Idle.pc = "idle"
  BY DeletionAssumption DEF Idle, Job, Stages

(* Three ways a request changes: out of hand, to its next stage, and taken *)
(* in; the others stay as they are.                                        *)
Moved(h) == \A o \in Handlers \ {h} : job'[o] = job[o]

LEMMA DropType ==
  ASSUME job \in [Handlers -> Job], NEW h \in Handlers, Drop(h)
  PROVE  job' \in [Handlers -> Job] /\ job'[h].pc = "idle" /\ Moved(h)
BY IdleType DEF Drop, Moved

LEMMA GotoType ==
  ASSUME job \in [Handlers -> Job], NEW h \in Handlers, NEW s \in Stages, Goto(h, s)
  PROVE  /\ job' \in [Handlers -> Job]
         /\ job'[h].pc = s /\ job'[h].uid = job[h].uid /\ Moved(h)
BY DEF Goto, Job, Moved

LEMMA StartType ==
  ASSUME job \in [Handlers -> Job], NEW h \in Handlers, NEW s \in Stages, NEW u \in Uids, Start(h, s, u)
  PROVE  job' \in [Handlers -> Job] /\ job'[h].pc = s /\ job'[h].uid = u /\ Moved(h)
BY DEF Start, Job, Moved

LEMMA JobsStep ==
  ASSUME DeletionInv, NEW h \in Handlers, Moved(h), job' \in [Handlers -> Job],
         born \subseteq born', profiles' = profiles, auth' = auth,
         \/ job'[h].pc \in NobodysStages
         \/ /\ job'[h].uid \in born
            /\ job'[h].pc = "commit" => job'[h].uid \in profiles
            /\ job'[h].pc \in {"auth", "bare"} => job'[h].uid \notin profiles
  PROVE  JobsOfBorn' /\ WriterHolds' /\ PurgedFirst'
BY DEF DeletionInv, JobsOfBorn, NobodysStages, WriterHolds, PurgedFirst, Moved, At

(* The steps that only move a request: nothing is stored or erased.        *)
LEMMA RequestStep ==
  ASSUME DeletionInv, NEW h \in Handlers, Moved(h), job' \in [Handlers -> Job],
         UNCHANGED <<now, authFk, born, auth, profiles, access, told>>,
         content' \subseteq profiles, mailed' \in 0 .. MaxLinks,
         links' \subseteq [uid : born, expires : 0 .. MaxTime + LinkTtl],
         \/ job'[h].pc \in NobodysStages
         \/ /\ job'[h].uid \in born
            /\ job'[h].pc = "commit" => job'[h].uid \in profiles
            /\ job'[h].pc \in {"auth", "bare"} => job'[h].uid \notin profiles
  PROVE  DeletionInv'
<1>1. TypeOK'
  BY DEF DeletionInv, TypeOK, Job
<1>2. JobsOfBorn' /\ WriterHolds' /\ PurgedFirst'
  BY JobsStep
<1>3. SignedInBorn' /\ ToldInTime'
  BY DEF DeletionInv, SignedInBorn, ToldInTime
<1>4. QED
  BY <1>1, <1>2, <1>3 DEF DeletionInv

LEMMA JobTyped == DeletionInv => job \in [Handlers -> Job]
  BY DEF DeletionInv, TypeOK, Job

LEMMA DeletionInit == Init => DeletionInv
<1> SUFFICES ASSUME Init PROVE DeletionInv
  OBVIOUS
<1>1. job \in [Handlers -> Job] /\ \A h \in Handlers : job[h].pc = "idle"
  BY IdleType DEF Init
<1>2. TypeOK
  <2>1. now \in 0 .. MaxTime /\ mailed \in 0 .. MaxLinks /\ access \in [Uids -> 0 .. MaxTime + AccessTtl]
    BY DeletionAssumption DEF Init, DeletionAssumption
  <2>2. QED
    BY <1>1, <2>1 DEF Init, TypeOK, Job
<1>3. JobsOfBorn /\ WriterHolds /\ PurgedFirst
  BY <1>1 DEF Init, JobsOfBorn, NobodysStages, WriterHolds, PurgedFirst, At
<1>4. SignedInBorn /\ ToldInTime
  BY DEF Init, SignedInBorn, ToldInTime
<1>5. QED
  BY <1>2, <1>3, <1>4 DEF DeletionInv

(* The identity goes after its profile: the foreign key finds nothing      *)
(* left to cascade to.                                                     *)
LEMMA IdentityStep ==
  ASSUME DeletionInv, NEW h \in Handlers, At(h, "auth"), DeleteIdentity(job[h].uid)
  PROVE  /\ auth' = auth \ {job[h].uid}
         /\ job[h].uid \in born
         /\ job[h].uid \notin profiles /\ job[h].uid \notin content
         /\ profiles' = profiles /\ content' = content
<1>1. job[h].uid \in born
  BY DEF DeletionInv, JobsOfBorn, NobodysStages, At
<1>2. job[h].uid \notin profiles
  BY DEF DeletionInv, PurgedFirst
<1>3. content \subseteq profiles
  BY DEF DeletionInv, TypeOK
<1>4. QED
  BY <1>1, <1>2, <1>3 DEF DeleteIdentity, db

(* Erasing the identity, whether or not the answer is heard.               *)
LEMMA EraseStep ==
  ASSUME DeletionInv, NEW h \in Handlers, At(h, "auth"), DeleteIdentity(job[h].uid), Drop(h),
         UNCHANGED <<now, env>>,
         told' \in {told, told \cup {job[h].uid}}
  PROVE  DeletionInv'
<1>1. /\ auth' = auth \ {job[h].uid} /\ job[h].uid \in born
      /\ job[h].uid \notin profiles
      /\ profiles' = profiles /\ content' = content
  BY IdentityStep
<1>2. job' \in [Handlers -> Job] /\ job'[h].pc = "idle" /\ Moved(h)
  BY JobTyped, DropType
<1>3. TypeOK'
  BY <1>1, <1>2 DEF DeletionInv, TypeOK, Job, env
<1>4. JobsOfBorn' /\ WriterHolds'
  BY <1>1, <1>2 DEF DeletionInv, JobsOfBorn, NobodysStages, WriterHolds, At, Moved, env
<1>5. PurgedFirst'
  BY <1>1, <1>2 DEF DeletionInv, PurgedFirst, At, Moved
<1>6. SignedInBorn' /\ ToldInTime'
  BY <1>1 DEF DeletionInv, SignedInBorn, ToldInTime, env
<1>7. QED
  BY <1>3, <1>4, <1>5, <1>6 DEF DeletionInv

LEMMA PurgeStep ==
  ASSUME DeletionInv, NEW h \in Handlers, Purge(h)
  PROVE  DeletionInv'
<1>1. /\ job' \in [Handlers -> Job]
      /\ job'[h].pc = "auth" /\ job'[h].uid = job[h].uid /\ Moved(h)
  BY JobTyped, GotoType DEF Purge, Stages
<1>2. job[h].uid \in born
  BY DEF DeletionInv, JobsOfBorn, NobodysStages, Purge, At
<1>3. profiles' = profiles \ {job[h].uid} /\ content' = content \ {job[h].uid}
  BY DEF Purge
<1>4. UNCHANGED <<now, env, auth, told>>
  BY DEF Purge
<1>5. TypeOK'
  BY <1>1, <1>3, <1>4 DEF DeletionInv, TypeOK, Job, env
<1>6. JobsOfBorn'
  BY <1>1, <1>2, <1>4 DEF DeletionInv, JobsOfBorn, At, Moved, env
<1>7. WriterHolds'
  BY <1>1, <1>3 DEF DeletionInv, WriterHolds, Purge, ProfileLocked, At, Moved
<1>8. PurgedFirst'
  BY <1>1, <1>3, <1>4 DEF DeletionInv, PurgedFirst, At, Moved
<1>9. SignedInBorn' /\ ToldInTime'
  BY <1>4 DEF DeletionInv, SignedInBorn, ToldInTime, env
<1>10. QED
  BY <1>5, <1>6, <1>7, <1>8, <1>9 DEF DeletionInv

LEMMA SignUpStep ==
  ASSUME DeletionInv, NEW u \in Uids, SignUp(u)
  PROVE  DeletionInv'
<1>1. TypeOK'
  BY DEF DeletionInv, TypeOK, SignUp
<1>2. JobsOfBorn' /\ WriterHolds' /\ SignedInBorn'
  BY DEF DeletionInv, JobsOfBorn, WriterHolds, SignedInBorn, At, SignUp
<1>3. PurgedFirst'
  BY DEF DeletionInv, JobsOfBorn, NobodysStages, PurgedFirst, At, SignUp
<1>4. ToldInTime'
  BY DEF DeletionInv, TypeOK, ToldInTime, SignUp
<1>5. QED
  BY <1>1, <1>2, <1>3, <1>4 DEF DeletionInv

LEMMA DeletionStep == DeletionInv /\ [Next]_vars => DeletionInv'
<1> SUFFICES ASSUME DeletionInv, [Next]_vars PROVE DeletionInv'
  OBVIOUS
<1>j. job \in [Handlers -> Job]
  BY JobTyped
<1>t. /\ UNCHANGED links => links' \subseteq [uid : born, expires : 0 .. MaxTime + LinkTtl]
      /\ UNCHANGED mailed => mailed' \in 0 .. MaxLinks
      /\ content \subseteq profiles /\ auth \subseteq born
  BY DEF DeletionInv, TypeOK
<1>s. \A u \in Uids : SignedIn(u) => u \in born
  BY DEF SignedIn, DeletionInv, TypeOK, SignedInBorn
<1>1. CASE Tick
  <2>1. now' \in 0 .. MaxTime
    BY <1>1, DeletionAssumption DEF Tick, DeletionInv, TypeOK, DeletionAssumption
  <2>2. UNCHANGED <<env, db, auth, job, told>>
    BY <1>1 DEF Tick
  <2>3. TypeOK'
    BY <2>1, <2>2 DEF DeletionInv, TypeOK, env, db
  <2>4. QED
    BY <2>2, <2>3 DEF DeletionInv, JobsOfBorn, SignedInBorn, WriterHolds, PurgedFirst, ToldInTime,
                      At, env, db
<1>2. ASSUME NEW u \in Uids, SignUp(u) PROVE DeletionInv'
  BY <1>2, SignUpStep
<1>3. ASSUME NEW u \in Uids, RenewAccess(u) PROVE DeletionInv'
  <2>1. now + AccessTtl \in 0 .. MaxTime + AccessTtl
    BY DeletionAssumption DEF DeletionInv, TypeOK, DeletionAssumption
  <2>2. UNCHANGED <<now, authFk, born, auth, db, links, mailed, job, told>>
    BY <1>3 DEF RenewAccess
  <2>3. access \in [Uids -> 0 .. MaxTime + AccessTtl]
    BY DEF DeletionInv, TypeOK
  <2>4. /\ access' \in [Uids -> 0 .. MaxTime + AccessTtl]
        /\ \A v \in Uids \ {u} : access'[v] = access[v]
    BY <1>3, <2>1, <2>3 DEF RenewAccess
  <2>5. TypeOK'
    BY <2>2, <2>4 DEF DeletionInv, TypeOK, db
  <2>6. SignedInBorn'
    BY <1>3, <1>t, <2>2, <2>4 DEF DeletionInv, SignedInBorn, RenewAccess
  <2>7. QED
    BY <2>2, <2>5, <2>6 DEF DeletionInv, JobsOfBorn, WriterHolds, PurgedFirst, ToldInTime, At, db
<1>4. ASSUME NEW h \in Handlers, NEW u \in Uids, AskToWrite(h, u) \/ AskToExport(h, u) \/ AskToDelete(h, u)
      PROVE  DeletionInv'
  <2>1. /\ Start(h, "insert", u) \/ Start(h, "profile", u) \/ Start(h, "purge", u)
        /\ u \in born
        /\ UNCHANGED <<now, env, auth, db, told>>
    BY <1>4, <1>s DEF AskToWrite, AskToExport, AskToDelete
  <2>2. /\ job' \in [Handlers -> Job] /\ Moved(h)
        /\ job'[h].uid = u /\ job'[h].pc \in {"insert", "profile", "purge"}
    BY <1>j, <2>1, StartType DEF Stages
  <2>3. QED
    BY <1>t, <2>1, <2>2, RequestStep DEF env, db, NobodysStages
<1>5. ASSUME NEW h \in Handlers, Insert(h) PROVE DeletionInv'
  <2>1. UNCHANGED <<now, env, auth, db, told>> /\ job[h].uid \in born
    BY <1>5 DEF Insert, DeletionInv, JobsOfBorn, NobodysStages, At
  <2>2. /\ job' \in [Handlers -> Job] /\ Moved(h)
        /\ \/ job'[h].pc = "idle"
           \/ job'[h].uid = job[h].uid /\ job'[h].pc = "commit" /\ job[h].uid \in profiles
    BY <1>5, <1>j, DropType, GotoType DEF Insert, Stages
  <2>3. QED
    BY <1>t, <2>1, <2>2, RequestStep DEF env, db, NobodysStages
<1>6. ASSUME NEW h \in Handlers, Commit(h) PROVE DeletionInv'
  <2>1. UNCHANGED <<now, env, auth, profiles, told>>
    BY <1>6 DEF Commit
  <2>2. content' \subseteq profiles
    BY <1>6, <1>t DEF Commit, DeletionInv, WriterHolds
  <2>3. job' \in [Handlers -> Job] /\ Moved(h) /\ job'[h].pc = "idle"
    BY <1>6, <1>j, DropType DEF Commit
  <2>4. QED
    BY <1>t, <2>1, <2>2, <2>3, RequestStep DEF env, NobodysStages
<1>6a. ASSUME NEW h \in Handlers, ReadProfile(h) PROVE DeletionInv'
  <2>1. UNCHANGED <<now, env, auth, db, told>> /\ job[h].uid \in born
    BY <1>6a DEF ReadProfile, DeletionInv, JobsOfBorn, NobodysStages, At
  <2>2. /\ job' \in [Handlers -> Job] /\ Moved(h) /\ job'[h].uid = job[h].uid
        /\ \/ job'[h].pc = "rows"
           \/ job'[h].pc = "bare" /\ job[h].uid \notin profiles
    BY <1>6a, <1>j, GotoType DEF ReadProfile, Stages
  <2>3. QED
    BY <1>t, <2>1, <2>2, RequestStep DEF env, db
<1>6b. ASSUME NEW h \in Handlers, ReadRows(h) PROVE DeletionInv'
  <2>1. UNCHANGED <<now, env, auth, db, told>>
    BY <1>6b DEF ReadRows
  <2>2. job' \in [Handlers -> Job] /\ Moved(h) /\ job'[h].pc = "idle"
    BY <1>6b, <1>j, DropType DEF ReadRows
  <2>3. QED
    BY <1>t, <2>1, <2>2, RequestStep DEF env, db, NobodysStages
<1>7. ASSUME NEW h \in Handlers, AskForLink(h) PROVE DeletionInv'
  <2>1. /\ UNCHANGED <<now, authFk, born, access, links, auth, db, told>>
        /\ mailed' \in 0 .. MaxLinks
    BY <1>7, DeletionAssumption DEF AskForLink, DeletionInv, TypeOK, DeletionAssumption
  <2>2. job' \in [Handlers -> Job] /\ Moved(h) /\ job'[h].pc = "find"
    BY <1>7, <1>j, IdleType, StartType DEF AskForLink, Job, Stages
  <2>3. QED
    BY <1>t, <2>1, <2>2, RequestStep DEF db, NobodysStages
<1>7a. ASSUME NEW h \in Handlers, FindByEmail(h) \/ FindViaAdmin(h) PROVE DeletionInv'
  <2>1. UNCHANGED <<now, env, auth, db, told>>
    BY <1>7a DEF FindByEmail, FindViaAdmin
  <2>2. ASSUME NEW u \in auth, Found(h, u)
        PROVE  /\ job' \in [Handlers -> Job] /\ Moved(h)
               /\ job'[h].uid \in born /\ job'[h].pc = "mail"
    <3>1. u \in born /\ u \in Uids
      BY <1>t DEF DeletionInv, TypeOK
    <3>2. QED
      BY <1>j, <2>2, <3>1 DEF Found, Job, Stages, Moved
  <2>3. ASSUME Drop(h) \/ Goto(h, "pages")
        PROVE  job' \in [Handlers -> Job] /\ Moved(h) /\ job'[h].pc \in NobodysStages
    BY <1>j, <2>3, DropType, GotoType DEF Stages, NobodysStages
  <2>4. /\ job' \in [Handlers -> Job] /\ Moved(h)
        /\ \/ job'[h].pc \in NobodysStages
           \/ job'[h].uid \in born /\ job'[h].pc = "mail"
    BY <1>7a, <2>2, <2>3 DEF FindByEmail, FindViaAdmin
  <2>5. QED
    BY <1>t, <2>1, <2>4, RequestStep DEF env, db
<1>8. ASSUME NEW h \in Handlers, SendLink(h) PROVE DeletionInv'
  <2>1. UNCHANGED <<now, authFk, born, access, mailed, auth, db, told>>
    BY <1>8 DEF SendLink
  <2>2. job[h].uid \in born
    BY <1>8 DEF SendLink, DeletionInv, JobsOfBorn, NobodysStages, At
  <2>3. now + LinkTtl \in 0 .. MaxTime + LinkTtl
    BY DeletionAssumption DEF DeletionInv, TypeOK, DeletionAssumption
  <2>4. links' \subseteq [uid : born, expires : 0 .. MaxTime + LinkTtl]
    BY <1>8, <2>2, <2>3 DEF SendLink, Mail, LinkFor, DeletionInv, TypeOK
  <2>5. job' \in [Handlers -> Job] /\ Moved(h) /\ job'[h].pc = "idle"
    BY <1>8, <1>j, DropType DEF SendLink
  <2>6. QED
    BY <1>t, <2>1, <2>4, <2>5, RequestStep DEF db, NobodysStages
<1>9. ASSUME NEW h \in Handlers, FollowLink(h) PROVE DeletionInv'
  <2>1. PICK l \in links : Start(h, "purge", l.uid)
    BY <1>9 DEF FollowLink
  <2>2. l.uid \in born /\ l.uid \in Uids
    BY DEF DeletionInv, TypeOK
  <2>3. UNCHANGED <<now, env, auth, db, told>>
    BY <1>9 DEF FollowLink
  <2>4. job' \in [Handlers -> Job] /\ Moved(h) /\ job'[h].uid = l.uid /\ job'[h].pc = "purge"
    BY <1>j, <2>1, <2>2, StartType DEF Stages
  <2>5. QED
    BY <1>t, <2>2, <2>3, <2>4, RequestStep DEF env, db
<1>10. ASSUME NEW h \in Handlers, Purge(h) PROVE DeletionInv'
  BY <1>10, PurgeStep
<1>11. ASSUME NEW h \in Handlers, EraseAuth(h) \/ EraseAuthUnheard(h) PROVE DeletionInv'
  BY <1>11, EraseStep DEF EraseAuth, EraseAuthUnheard
<1>12. ASSUME NEW h \in Handlers, Fail(h) PROVE DeletionInv'
  <2>1. UNCHANGED <<now, env, auth, db, told>>
    BY <1>12 DEF Fail
  <2>2. job' \in [Handlers -> Job] /\ Moved(h) /\ job'[h].pc = "idle"
    BY <1>12, <1>j, DropType DEF Fail
  <2>3. QED
    BY <1>t, <2>1, <2>2, RequestStep DEF env, db, NobodysStages
<1>13. CASE UNCHANGED vars
  BY <1>13 DEF vars, DeletionInv, TypeOK, JobsOfBorn, SignedInBorn, WriterHolds, PurgedFirst, ToldInTime, At
<1>14. QED
  BY <1>1, <1>2, <1>3, <1>4, <1>5, <1>6, <1>6a, <1>6b, <1>7, <1>7a, <1>8, <1>9, <1>10, <1>11, <1>12, <1>13 DEF Next

LEMMA DeletionInvariant == Spec => []DeletionInv
  BY DeletionInit, DeletionStep, PTL DEF Spec

(* Whatever overlaps, fails or is repeated: one identity per address,      *)
(* profiles only of identities that were handed out, and data only below a *)
(* profile, so that a writer never leaves a row behind the purge.          *)
THEOREM DeletionTyped == Spec => []TypeOK
<1>1. DeletionInv => TypeOK
  BY DEF DeletionInv
<1>2. QED
  BY <1>1, DeletionInvariant, PTL

(* Success is never claimed falsely (delete_user): an account reported as  *)
(* deleted is in neither system, then or later; and an export that finds   *)
(* no profile finds no rows (ExportService.export).                        *)
THEOREM GoneStaysGone == Spec => []GoneIsGone
<1>1. DeletionInv => ToldIsErased
  BY DEF DeletionInv, ToldInTime, PurgedFirst, TypeOK, ToldIsErased
<1>2. DeletionInv => NoneOfTheDeleted
  BY DEF DeletionInv, PurgedFirst, TypeOK, NoneOfTheDeleted, RowsFound
<1>3. DeletionInv => GoneIsGone
  BY <1>1, <1>2 DEF GoneIsGone
<1>4. QED
  BY <1>3, DeletionInvariant, PTL

-----------------------------------------------------------------------------
(* The stage of an account depends on nothing but the three tables.        *)
LEMMA StagesKept ==
  ASSUME UNCHANGED <<born, auth, profiles>>
  PROVE  [u \in Uids |-> StageOf(u)]' = [u \in Uids |-> StageOf(u)]
BY DEF StageOf

LEMMA Stutters ==
  ASSUME UNCHANGED <<born, auth, profiles, content>>
  PROVE  UNCHANGED Promise!vars
BY StagesKept DEF Promise!vars

LEMMA SignUpRefines ==
  ASSUME DeletionInv, NEW u \in Uids, SignUp(u)
  PROVE  Promise!SignUp(u)
<1>1. auth = {} /\ profiles = {} /\ u \notin born
  BY DEF SignUp, DeletionInv, PurgedFirst
<1>2. \A v \in Uids : StageOf(v) = IF v \in born THEN "erased" ELSE "unborn"
  BY <1>1 DEF StageOf
<1>3. StageOf(u)' = "live" /\ \A v \in Uids \ {u} : StageOf(v)' = StageOf(v)
  BY <1>1 DEF StageOf, SignUp
<1>4. content' = content
  BY DEF SignUp
<1>5. QED
  BY <1>1, <1>2, <1>3, <1>4 DEF Promise!SignUp

LEMMA CommitRefines ==
  ASSUME DeletionInv, NEW h \in Handlers, Commit(h)
  PROVE  Promise!Store(job[h].uid) /\ job[h].uid \in Uids
<1>1. job[h].uid \in profiles /\ job[h].uid \in auth /\ job[h].uid \in born /\ job[h].uid \in Uids
  BY DEF Commit, DeletionInv, WriterHolds, PurgedFirst, TypeOK
<1>2. StageOf(job[h].uid) = "live"
  BY <1>1 DEF StageOf
<1>3. [u \in Uids |-> StageOf(u)]' = [u \in Uids |-> StageOf(u)]
  BY StagesKept DEF Commit, env
<1>4. QED
  BY <1>1, <1>2, <1>3 DEF Promise!Store, Commit

(* The purge of a live account closes it; a repeated one finds nothing.    *)
LEMMA PurgeRefines ==
  ASSUME DeletionInv, NEW h \in Handlers, Purge(h)
  PROVE  \/ Promise!Close(job[h].uid) /\ job[h].uid \in Uids
         \/ UNCHANGED Promise!vars
<1>0. PICK u \in Uids : u = job[h].uid
  BY JobTyped DEF Job
<1>1. profiles' = profiles \ {u} /\ content' = content \ {u} /\ UNCHANGED <<born, auth>>
  BY <1>0 DEF Purge, env
<1>2. u \in born /\ profiles \subseteq auth /\ content \subseteq profiles
  BY <1>0 DEF Purge, DeletionInv, JobsOfBorn, NobodysStages, PurgedFirst, TypeOK, At
<1>3. CASE u \in profiles
  <2>1. StageOf(u) = "live" /\ StageOf(u)' = "closing"
    BY <1>1, <1>2, <1>3 DEF StageOf
  <2>2. \A v \in Uids \ {u} : StageOf(v)' = StageOf(v)
    BY <1>1 DEF StageOf
  <2>3. Promise!Close(u)
    BY <1>1, <1>2, <2>1, <2>2 DEF Promise!Close
  <2>4. QED
    BY <1>0, <2>3
<1>4. CASE u \notin profiles
  <2>1. UNCHANGED <<born, auth, profiles, content>>
    BY <1>1, <1>2, <1>4
  <2>2. QED
    BY <2>1, Stutters
<1>5. QED
  BY <1>3, <1>4

LEMMA EraseRefines ==
  ASSUME DeletionInv, NEW h \in Handlers, EraseAuth(h) \/ EraseAuthUnheard(h)
  PROVE  \/ Promise!Erase(job[h].uid) /\ job[h].uid \in Uids
         \/ UNCHANGED Promise!vars
<1>0. PICK u \in Uids : u = job[h].uid
  BY JobTyped DEF Job
<1>1. auth' = auth \ {u} /\ UNCHANGED <<born, profiles, content>> /\ u \in born /\ u \notin profiles
  BY <1>0, IdentityStep DEF EraseAuth, EraseAuthUnheard, env
<1>2. CASE u \in auth
  <2>1. StageOf(u) = "closing" /\ StageOf(u)' = "erased"
    BY <1>1, <1>2 DEF StageOf
  <2>2. \A v \in Uids \ {u} : StageOf(v)' = StageOf(v)
    BY <1>1 DEF StageOf
  <2>3. Promise!Erase(u)
    BY <1>1, <2>1, <2>2 DEF Promise!Erase
  <2>4. QED
    BY <1>0, <2>3
<1>3. CASE u \notin auth
  <2>1. UNCHANGED <<born, auth, profiles, content>>
    BY <1>1, <1>3
  <2>2. QED
    BY <2>1, Stutters
<1>4. QED
  BY <1>2, <1>3

(* The erasure in two systems implements the life of an account in one:    *)
(* no profile or data without an identity, and nothing that comes back.    *)
THEOREM DeletionImplementsErasure == Spec => ImplementsErasure
<1>1. Init => Promise!Init
  BY DEF Init, Promise!Init, StageOf
<1>2. DeletionInv /\ [Next]_vars => [Promise!Next]_(Promise!vars)
  <2> SUFFICES ASSUME DeletionInv, [Next]_vars PROVE Promise!Next \/ UNCHANGED Promise!vars
    OBVIOUS
  <2>1. ASSUME NEW u \in Uids, SignUp(u) PROVE Promise!Next
    BY <2>1, SignUpRefines DEF Promise!Next
  <2>2. ASSUME NEW h \in Handlers, Commit(h) PROVE Promise!Next
    BY <2>2, CommitRefines DEF Promise!Next
  <2>3. ASSUME NEW h \in Handlers, Purge(h) PROVE Promise!Next \/ UNCHANGED Promise!vars
    BY <2>3, PurgeRefines DEF Promise!Next
  <2>4. ASSUME NEW h \in Handlers, EraseAuth(h) \/ EraseAuthUnheard(h)
        PROVE  Promise!Next \/ UNCHANGED Promise!vars
    BY <2>4, EraseRefines DEF Promise!Next
  <2>5. CASE Tick \/ UNCHANGED vars
    <3>1. UNCHANGED <<born, auth, profiles, content>>
      BY <2>5 DEF Tick, vars, env, db
    <3>2. QED
      BY <3>1, Stutters
  <2>6. ASSUME NEW u \in Uids, RenewAccess(u) PROVE UNCHANGED Promise!vars
    BY <2>6, Stutters DEF RenewAccess, db
  <2>7. ASSUME NEW h \in Handlers, NEW u \in Uids, AskToWrite(h, u) \/ AskToExport(h, u) \/ AskToDelete(h, u)
        PROVE  UNCHANGED Promise!vars
    BY <2>7, Stutters DEF AskToWrite, AskToExport, AskToDelete, env, db
  <2>8. ASSUME NEW h \in Handlers, Insert(h) \/ ReadProfile(h) \/ ReadRows(h) \/ SendLink(h) \/ Fail(h)
        PROVE  UNCHANGED Promise!vars
    BY <2>8, Stutters DEF Insert, ReadProfile, ReadRows, SendLink, Fail, env, db
  <2>9. ASSUME NEW h \in Handlers, AskForLink(h) \/ FollowLink(h) \/ FindByEmail(h) \/ FindViaAdmin(h)
        PROVE  UNCHANGED Promise!vars
    BY <2>9, Stutters DEF AskForLink, FollowLink, FindByEmail, FindViaAdmin, env, db
  <2>10. QED
    BY <2>1, <2>2, <2>3, <2>4, <2>5, <2>6, <2>7, <2>8, <2>9 DEF Next
<1>3. QED
  BY <1>1, <1>2, DeletionInvariant, PTL DEF Spec, ImplementsErasure, Promise!Spec

-----------------------------------------------------------------------------
(* Who asked for the purge of an account was signed in to it at some time, *)
(* or came with a link that was mailed for it.                             *)
Entitled(u) == access[u] > 0 \/ \E l \in links : l.uid = u

PurgesEntitled == \A h \in Handlers : At(h, "purge") => Entitled(job[h].uid)

(* Access is only renewed and links are only added: a title is not lost.   *)
LEMMA TitleKept ==
  ASSUME DeletionInv, [Next]_vars, NEW u \in Uids, Entitled(u)
  PROVE  Entitled(u)'
<1>1. CASE links \subseteq links' /\ access' = access
  BY <1>1 DEF Entitled
<1>2. ASSUME NEW v \in Uids, RenewAccess(v) PROVE Entitled(u)'
  <2>1. /\ access \in [Uids -> 0 .. MaxTime + AccessTtl] /\ now \in 0 .. MaxTime
        /\ access' = [access EXCEPT ![v] = now + AccessTtl]
        /\ access[v] < now + AccessTtl /\ links' = links
    BY <1>2 DEF RenewAccess, DeletionInv, TypeOK
  <2>2. access[u] > 0 => access'[u] > 0
    BY <2>1, DeletionAssumption
  <2> QED BY <2>1, <2>2 DEF Entitled
<1>3. (links \subseteq links' /\ access' = access) \/ \E v \in Uids : RenewAccess(v)
  BY DEF Next, vars, env, Tick, SignUp, AskToWrite, AskToExport, AskToDelete, Insert, Commit,
         ReadProfile, ReadRows, AskForLink, FindByEmail, FindViaAdmin, SendLink, Mail, FollowLink,
         Purge, EraseAuth, EraseAuthUnheard, Fail
<1> QED BY <1>1, <1>2, <1>3

(* A purge is only ever asked for by deleting one's account or by a link.  *)
LEMMA PurgeAsked ==
  ASSUME DeletionInv, [Next]_vars, NEW h \in Handlers, At(h, "purge")', ~(At(h,
         "purge") /\ job'[h] = job[h])
  PROVE  job'[h].uid \in Uids /\ Entitled(job'[h].uid)
<1>j. job \in [Handlers -> Job]
  BY JobTyped
<1>d. ASSUME NEW o \in Handlers, Drop(o) PROVE FALSE
  BY <1>d, <1>j, DropType DEF Moved, At
<1>g. ASSUME NEW o \in Handlers, NEW s \in Stages \ {"purge"}, Goto(o, s) PROVE FALSE
  BY <1>g, <1>j, GotoType DEF Moved, At
<1>s. ASSUME NEW o \in Handlers, NEW s \in Stages, NEW u \in Uids, Start(o, s, u), s = "purge" => Entitled(u)
      PROVE  job'[h].uid \in Uids /\ Entitled(job'[h].uid)
  <2>1. o = h /\ job'[h].uid = u /\ job'[h].pc = s
    BY <1>s, <1>j, StartType DEF Moved, At
  <2> QED BY <1>s, <2>1 DEF At
<1>1. ASSUME NEW o \in Handlers, NEW u \in Uids, AskToWrite(o, u) \/ AskToExport(o, u)
      PROVE  job'[h].uid \in Uids /\ Entitled(job'[h].uid)
  BY <1>1, <1>s DEF AskToWrite, AskToExport, Stages
<1>2. ASSUME NEW o \in Handlers, NEW u \in Uids, AskToDelete(o, u)
      PROVE  job'[h].uid \in Uids /\ Entitled(job'[h].uid)
  <2>1. access[u] > 0
    BY <1>2 DEF AskToDelete, SignedIn, DeletionInv, TypeOK
  <2> QED BY <1>2, <1>s, <2>1 DEF AskToDelete, Stages, Entitled
<1>3. ASSUME NEW o \in Handlers, FollowLink(o)
      PROVE  job'[h].uid \in Uids /\ Entitled(job'[h].uid)
  <2>1. PICK l \in links : Start(o, "purge", l.uid)
    BY <1>3 DEF FollowLink
  <2>2. l.uid \in Uids /\ Entitled(l.uid)
    BY DEF Entitled, DeletionInv, TypeOK
  <2> QED BY <1>s, <2>1, <2>2 DEF Stages
<1>4. ASSUME NEW o \in Handlers, AskForLink(o)
      PROVE  job'[h].uid \in Uids /\ Entitled(job'[h].uid)
  BY <1>4, <1>s, IdleType DEF AskForLink, Stages, Job
<1>5. ASSUME NEW o \in Handlers, NEW u, Found(o, u) PROVE FALSE
  BY <1>5, <1>j DEF Found, At
<1>6. ASSUME NEW o \in Handlers,
             Insert(o) \/ Commit(o) \/ ReadProfile(o) \/ ReadRows(o) \/ FindByEmail(o) \/ FindViaAdmin(o)
               \/ SendLink(o) \/ Purge(o) \/ EraseAuth(o) \/ EraseAuthUnheard(o) \/ Fail(o)
      PROVE  FALSE
  BY <1>6, <1>d, <1>g, <1>5
     DEF Insert, Commit, ReadProfile, ReadRows, FindByEmail, FindViaAdmin, SendLink, Purge,
         EraseAuth,
         EraseAuthUnheard, Fail, Stages
<1>7. CASE UNCHANGED job
  BY <1>7 DEF At
<1> QED
  BY <1>1, <1>2, <1>3, <1>4, <1>6, <1>7 DEF Next, Tick, SignUp, RenewAccess, vars

LEMMA PurgesStayEntitled == Spec => []PurgesEntitled
<1>1. Init => PurgesEntitled
  BY IdleType DEF Init, PurgesEntitled, At
<1>2. DeletionInv /\ PurgesEntitled /\ [Next]_vars => PurgesEntitled'
  <2> SUFFICES ASSUME DeletionInv, PurgesEntitled, [Next]_vars, NEW h \in Handlers, At(h, "purge")'
               PROVE  Entitled(job[h].uid)'
    BY DEF PurgesEntitled
  <2> PICK u : u = job'[h].uid
    OBVIOUS
  <2>1. u \in Uids /\ Entitled(u)
    <3>1. CASE At(h, "purge") /\ job'[h] = job[h]
      BY <3>1, JobTyped DEF PurgesEntitled, Job
    <3>2. CASE ~(At(h, "purge") /\ job'[h] = job[h])
      BY <3>2, PurgeAsked
    <3> QED BY <3>1, <3>2
  <2>2. Entitled(u)'
    BY <2>1, TitleKept
  <2> QED BY <2>2 DEF Entitled
<1> QED BY <1>1, <1>2, DeletionInvariant, PTL DEF Spec

(* No profile goes but by who was signed in to its account or holds a link *)
(* mailed for it, whoever else asks, follows or repeats what and when: the *)
(* successor at a mail address is safe from its predecessor's links.       *)
THEOREM SuccessorIsSpared == Spec => LinkSparesSuccessor
<1> DEFINE Spared == \A u \in profiles \ profiles' : access[u] > 0 \/ \E l \in links : l.uid = u
<1>1. DeletionInv /\ PurgesEntitled /\ [Next]_vars => [Spared]_vars
  <2> SUFFICES ASSUME DeletionInv, PurgesEntitled, [Next]_vars, NEW u \in profiles \ profiles'
               PROVE  Entitled(u)
    BY DEF Entitled
  <2>1. \E h \in Handlers : Purge(h) /\ u = job[h].uid
    <3>1. ASSUME NEW h \in Handlers, EraseAuth(h) \/ EraseAuthUnheard(h) PROVE FALSE
      BY <3>1, IdentityStep DEF EraseAuth, EraseAuthUnheard
    <3> QED
      BY <3>1 DEF Next, vars, env, db, Tick, SignUp, RenewAccess, AskToWrite, AskToExport,
         AskToDelete,
                  Insert, Commit, ReadProfile, ReadRows, AskForLink, FindByEmail, FindViaAdmin, SendLink,
                  FollowLink, Purge, Fail
  <2> QED BY <2>1 DEF Purge, PurgesEntitled
<1> QED
  BY <1>1, DeletionInvariant, PurgesStayEntitled, PTL DEF Spec, LinkSparesSuccessor
=============================================================================
