------------------------------ MODULE Discover ------------------------------
(***************************************************************************)
(* One learner's words in one language, from a suggestion to the deck and  *)
(* back: DiscoverService (apps/api/app/services/discover.py) over the      *)
(* reuse cache of previews (app/discover_cache.py), GenerateService        *)
(* (services/generate.py), which has cards written for words and saves     *)
(* them (repositories/cards.py), and the words of the saved cards, which   *)
(* are not suggested again.                                                *)
(*                                                                         *)
(* The cache is used without an await, so each use is part of one step;    *)
(* the deck is read once, before the provider is asked.  The cost guard    *)
(* around the provider is CostGuard.tla: here it may only refuse.          *)
(***************************************************************************)
EXTENDS Integers, Sequences, FiniteSets, SequencesExt

CONSTANTS Handlers,    \* requests served at the same time
          Keys,        \* the topics and counts asked for, as cache keys
          Surfaces,    \* words as they are spelled
          Folded,      \* the form a spelling is matched by: lower case, or without marks
          Parts,       \* the words of a spelling, each by its bare form: fold_word
          Blank,       \* a suggestion of spaces only
          Count,       \* words asked for
          RawAnswers,  \* what the provider may suggest
          RawCards,    \* what it may write: sentences, and the words it says they use
          Ttl,         \* discover_reuse_window_seconds, in clock ticks
          MaxEntries,  \* MAX_ENTRIES
          MaxTime,     \* bound of the model: the clock stops here
          MaxAsks      \* bound of the model: requests made in all

ASSUME DiscoverAssumption ==
  /\ DOMAIN Folded = Surfaces /\ DOMAIN Parts = Surfaces /\ Blank \notin Surfaces
  /\ RawAnswers \subseteq Seq(Surfaces \cup {Blank})
  /\ \A card \in RawCards : card.used \in Seq(Surfaces)
  /\ Count \in Nat \ {0} /\ Ttl \in Nat /\ MaxEntries \in Nat
  /\ MaxTime \in Nat /\ MaxAsks \in Nat

VARIABLES
  now,       \* the monotonic clock
  entries,   \* _entries, oldest stored first, each with the deck it was made for (history)
  deck,      \* the saved cards, each with its used_words and its sentence
  asked,     \* requests made so far
  req,       \* the requests in hand; known are the words their preview was made for,
             \* knownAtAsk (history) those known when the request was made
  stores,    \* history: every preview stored
  found      \* history: the answer to the latest lookup

learnerVars == <<now, entries, deck, asked, req, stores, found>>

Nothing == <<>>
Idle == [pc |-> "idle", key |-> Nothing, known |-> {}, knownAtAsk |-> {}, hit |-> FALSE,
         words |-> <<>>, vocab |-> {}, built |-> {}]

LearnerInit ==
  /\ now = 0
  /\ entries = <<>>
  /\ deck = {}
  /\ asked = 0
  /\ req = [h \in Handlers |-> Idle]
  /\ stores = <<>>
  /\ found = Nothing

ReqAt(h, stage) == req[h].pc = stage
ReqBecome(h, r) == req' = [req EXCEPT ![h] = r]
ReqAnswer(h, words, have, hit) ==
  ReqBecome(h, [req[h] EXCEPT !.pc = "answer", !.key = Nothing, !.words = words, !.known = have, !.hit = hit])

Tick == /\ now < MaxTime
        /\ now' = now + 1
        /\ UNCHANGED <<entries, deck, asked, req, stores, found>>

(* Every word of the saved cards, once.                                    *)
KnownWords == UNION {card.used : card \in deck}

-----------------------------------------------------------------------------
(* Known words are matched as they are spelled. *)
DedupSpelled(raw, have) ==
  LET add(kept, w) == IF Len(kept) >= Count \/ w = Blank \/ w \in have \cup {kept[i] : i \in DOMAIN kept}
                      THEN kept ELSE Append(kept, w)
  IN  FoldLeft(add, <<>>, raw)

(* _dedup_unknown: no blanks, nothing known, nothing twice, Count at most. *)
DedupUnknown(raw, have) ==
  LET haveFolded == {Folded[w] : w \in have}
      add(kept, w) == IF \/ Len(kept) >= Count \/ w = Blank
                         \/ Folded[w] \in haveFolded \cup {Folded[kept[i]] : i \in DOMAIN kept}
                      THEN kept ELSE Append(kept, w)
  IN  FoldLeft(add, <<>>, raw)

(* The cache. *)
Expired(e) == now - e.at >= Ttl

(* _evict_expired pops from the front and stops at the first fresh entry.  *)
EvictExpired(es) == IF \A i \in DOMAIN es : Expired(es[i]) THEN <<>>
                    ELSE LET first == CHOOSE i \in DOMAIN es : /\ ~Expired(es[i])
                                                               /\ \A j \in 1 .. i - 1 : Expired(es[j])
                         IN  SubSeq(es, first, Len(es))

(* A key is there once at most. *)
Without(es, k) == IF \E i \in DOMAIN es : es[i].key = k
                  THEN RemoveAt(es, CHOOSE i \in DOMAIN es : es[i].key = k) ELSE es

(* put, without move_to_end: a key that is there keeps its place. *)
PutInPlace(k, words, have) ==
  LET live == EvictExpired(entries)
      e    == [key |-> k, at |-> now, words |-> words, deck |-> have]
      all  == IF \E i \in DOMAIN live : live[i].key = k
              THEN [i \in DOMAIN live |-> IF live[i].key = k THEN e ELSE live[i]]
              ELSE Append(live, e)
  IN  IF Len(all) > MaxEntries THEN SubSeq(all, Len(all) - MaxEntries + 1, Len(all)) ELSE all

Put(k, words, have) ==
  LET e   == [key |-> k, at |-> now, words |-> words, deck |-> have]
      all == Append(Without(EvictExpired(entries), k), e)
  IN  IF Len(all) > MaxEntries THEN SubSeq(all, Len(all) - MaxEntries + 1, Len(all)) ELSE all

-----------------------------------------------------------------------------
(* A request, or a reroll, which passes the cache by. *)
Ask(h) ==
  /\ req[h].pc \in {"idle", "answer"}
  /\ asked < MaxAsks
  /\ asked' = asked + 1
  /\ \E k \in Keys, stage \in {"lookup", "read"} :
       ReqBecome(h, [Idle EXCEPT !.pc = stage, !.key = k, !.knownAtAsk = KnownWords])
  /\ UNCHANGED <<now, entries, deck, stores, found>>

(* The language is there; the cache is asked. *)
Lookup(h) ==
  LET live == EvictExpired(entries)
      hit  == {i \in DOMAIN live : live[i].key = req[h].key}
  IN  /\ ReqAt(h, "lookup")
      /\ entries' = live
      /\ \/ \E i \in hit : /\ ReqAnswer(h, live[i].words, live[i].deck, TRUE)
                           /\ found' = live[i].words
         \/ /\ hit = {}
            /\ ReqBecome(h, [req[h] EXCEPT !.pc = "read"])
            /\ found' = Nothing
      /\ UNCHANGED <<now, deck, asked, stores>>

(* The guard lets the request through; level and known words are read.     *)
ReadKnown(h) ==
  /\ ReqAt(h, "read")
  /\ ReqBecome(h, [req[h] EXCEPT !.pc = "calling", !.known = KnownWords])
  /\ UNCHANGED <<now, entries, deck, asked, stores, found>>

(* An empty preview is stored as well. *)
SuggestAll(h) ==
  \E raw \in RawAnswers :
    LET words == DedupUnknown(raw, req[h].known)
    IN  /\ ReqAt(h, "calling")
        /\ ReqAnswer(h, words, req[h].known, FALSE)
        /\ entries' = Put(req[h].key, words, req[h].known)
        /\ stores' = Append(stores, [key |-> req[h].key, at |-> now, value |-> words])
        /\ UNCHANGED <<now, deck, asked, found>>

(* The provider answers, the call is counted, and what is left of its      *)
(* answer is kept unless it is empty.                                      *)
Suggest(h) ==
  \E raw \in RawAnswers :
    LET words == DedupUnknown(raw, req[h].known)
    IN  /\ ReqAt(h, "calling")
        /\ ReqAnswer(h, words, req[h].known, FALSE)
        /\ IF words = <<>> THEN UNCHANGED <<entries, stores>>
           ELSE /\ entries' = Put(req[h].key, words, req[h].known)
                /\ stores' = Append(stores, [key |-> req[h].key, at |-> now, value |-> words])
        /\ UNCHANGED <<now, deck, asked, found>>

-----------------------------------------------------------------------------
(* fold_word, of each of its words: what a spelling is matched by.         *)
Bare(w) == Parts[w]

(* The words are spoken of where they stand next to each other.            *)
AppearsAsRun(sentence, needle) ==
  /\ needle # <<>>
  /\ \E i \in 1 .. Len(sentence) - Len(needle) + 1 :
       SubSeq(sentence, i, i + Len(needle) - 1) = needle

(* The provider is taken at its word.                                      *)
TrustedUsedWords(card, vocab) == {w \in Range(card.used) : Bare(w) \in {Bare(v) : v \in vocab}}

(* _verified_used_words: of what the provider says a sentence uses, what   *)
(* was asked for and stands in it, in the first of its spellings.          *)
VerifiedUsedWords(card, vocab) ==
  {card.used[i] : i \in {n \in DOMAIN card.used :
     LET bare == Bare(card.used[n])
     IN  /\ bare \in {Bare(v) : v \in vocab}
         /\ AppearsAsRun(card.sentence, bare)
         /\ \A m \in 1 .. n - 1 : Bare(card.used[m]) # bare}}

(* build_cards: the two directions of a sentence carry the same words.     *)
BuiltCard(card, vocab) == [used |-> VerifiedUsedWords(card, vocab), sentence |-> card.sentence]

(* Words typed on the Generate page, or accepted of a preview.             *)
AskForCards(h) ==
  /\ req[h].pc \in {"idle", "answer"}
  /\ asked < MaxAsks
  /\ asked' = asked + 1
  /\ \E vocab \in SUBSET Surfaces \ {{}} : ReqBecome(h, [Idle EXCEPT !.pc = "writing", !.vocab = vocab])
  /\ UNCHANGED <<now, entries, deck, stores, found>>

Accept(h) ==
  /\ ReqAt(h, "answer")
  /\ asked < MaxAsks
  /\ asked' = asked + 1
  /\ ReqBecome(h, [Idle EXCEPT !.pc = "accepting", !.vocab = Range(req[h].words)])
  /\ UNCHANGED <<now, entries, deck, stores, found>>

(* The provider answers.  The cards of /generate go to the client; what is *)
(* accepted is counted and saved at once.                                  *)
Generate(h) ==
  /\ ReqAt(h, "writing") \/ ReqAt(h, "accepting")
  /\ \E cards \in SUBSET RawCards :
       ReqBecome(h, [Idle EXCEPT !.pc = IF ReqAt(h, "writing") THEN "built" ELSE "keeping",
                              !.built = {BuiltCard(card, req[h].vocab) : card \in cards}])
  /\ UNCHANGED <<now, entries, deck, asked, stores, found>>

(* The rows are inserted, all or none. *)
SaveCards(cards) == deck' = deck \cup cards

Store(h, cards) ==
  /\ SaveCards(cards)
  /\ ReqBecome(h, Idle)
  /\ UNCHANGED <<now, entries, asked, stores, found>>

(* The sentences chosen on the Generate page, with all they were given.    *)
SaveChosen(h) == ReqAt(h, "built") /\ \E cards \in SUBSET req[h].built : Store(h, cards)

SaveAccepted(h) == ReqAt(h, "keeping") /\ Store(h, req[h].built)

(* The language is gone, the guard refuses, the provider or the increment  *)
(* fails, or the client goes away.                                         *)
Fail(h) ==
  /\ ~ReqAt(h, "idle") /\ ~ReqAt(h, "answer")
  /\ ReqBecome(h, Idle)
  /\ UNCHANGED <<now, entries, deck, asked, stores, found>>

LearnerNext ==
  \/ Tick
  \/ \E h \in Handlers : \/ Ask(h) \/ Lookup(h) \/ ReadKnown(h) \/ Suggest(h)
                         \/ AskForCards(h) \/ Accept(h) \/ Generate(h)
                         \/ SaveChosen(h) \/ SaveAccepted(h) \/ Fail(h)

LearnerSpec == LearnerInit /\ [][LearnerNext]_learnerVars

-----------------------------------------------------------------------------
Image(words) == {Folded[w] : w \in words}

Previews == {p \in UNION {[1 .. n -> Surfaces] : n \in 1 .. Count} :
               \A i, j \in DOMAIN p : Folded[p[i]] = Folded[p[j]] => i = j}

Entry == [key : Keys, at : 0 .. MaxTime, words : Previews, deck : SUBSET Surfaces]

ReqStages == {"idle", "lookup", "read", "calling", "answer", "writing", "accepting", "built", "keeping"}
Built  == [used : SUBSET Surfaces, sentence : {card.sentence : card \in RawCards}]

(* The cache never holds an empty preview, and is bounded.                 *)
TypeOK == /\ now \in 0 .. MaxTime
          /\ entries \in Seq(Entry) /\ Len(entries) <= MaxEntries
          /\ \A card \in deck : card.used \subseteq Surfaces
          /\ asked \in 0 .. MaxAsks
          /\ req \in [Handlers -> [pc : ReqStages, key : Keys \cup {Nothing},
                                  known : SUBSET Surfaces, knownAtAsk : SUBSET Surfaces,
                                  hit : BOOLEAN, words : Previews \cup {Nothing},
                                  vocab : SUBSET Surfaces, built : SUBSET Built]]
          /\ stores \in Seq([key : Keys, at : 0 .. MaxTime, value : Previews])
          /\ found \in Previews \cup {Nothing}

(* Expiry from the front, eviction of the oldest and storing a key anew    *)
(* are invisible: a lookup finds exactly what the latest of all stores of  *)
(* its key says, if it is young and not crowded out.                       *)
Promise == INSTANCE ReuseWindow WITH Values <- Previews
ImplementsReuseWindow == Promise!Spec

(* What is answered was new to the deck its preview was made for, in any   *)
(* spelling; and unless it came from the cache, that deck had everything   *)
(* that was saved before the request.                                      *)
OnlyLearnedSince ==
  \A h \in Handlers : ReqAt(h, "answer") =>
    /\ Image(Range(req[h].words)) \cap Image(req[h].known) = {}
    /\ ~req[h].hit => req[h].knownAtAsk \subseteq req[h].known

(* No "phantom word" ever hides a word from the learner: what is known, by *)
(* typing or by accepting, stands in a sentence of the deck, whatever the  *)
(* provider says it wrote (the client posts the words it was given back as *)
(* they are).                                                              *)
KnownIsWritten ==
  \A w \in KnownWords : \E card \in deck : AppearsAsRun(card.sentence, Bare(w))

(* What is kept is bounded and never empty, what is answered is new, and   *)
(* what counts as known is (_dedup_unknown, _verified_used_words and the   *)
(* put of InProcessDiscoverCache).                                         *)
PreviewsHold == TypeOK /\ OnlyLearnedSince /\ KnownIsWritten
=============================================================================
