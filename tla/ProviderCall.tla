---------------------------- MODULE ProviderCall ----------------------------
(***************************************************************************)
(* The calls of the language model, from the service that wants one to the *)
(* vendor and back (app/services, app/llm_runner.py, lengua_core/llm): who *)
(* is asked and how often, what a failure is answered with, what the span  *)
(* of a call tells of it, and what an explanation leaves on the cards,     *)
(* which are saved with notes of their own (app/routers/cards.py).         *)
(*                                                                         *)
(* The gates of the guard are CostGuard's; here they let a call in or not. *)
(***************************************************************************)
EXTENDS Naturals, FiniteSets

CONSTANTS Calls,         \* requests the server handles at the same time
          Ops,           \* of "explain", "generate" and "suggest"
          Words,         \* words of one sentence that are explained
          Cards,         \* the cards of the sentence that may be saved
          Vendors,       \* of "groq", "gemini" and "fake"
          Faults,        \* what a request to the vendor fails with, of AllFaults
          Permits,       \* llm_max_concurrency
          MaxAttempts    \* DEFAULT_MAX_ATTEMPTS

AllFaults == {"limit", "overload", "server", "connection", "request"}

ASSUME ProviderCallAssumption ==
  /\ Ops \subseteq {"explain", "generate", "suggest"}
  /\ Vendors \subseteq {"groq", "gemini", "fake"} /\ Vendors # {}
  /\ Faults \subseteq AllFaults
  /\ Permits \in Nat \ {0} /\ MaxAttempts \in Nat \ {0}

VARIABLES
  vendor,    \* LLM_PROVIDER
  keyed,     \* whether the operator has set its key
  permits,   \* free slots of the semaphore
  call,      \* each call: where it is, what it has read, met and got
  sink,      \* each context's TokenUsage
  span,      \* each call's llm.call span, and the tokens counted for it
  saved,     \* the cards that show the sentence
  notes,     \* word_explanations: the words explained on each of them
  paid,      \* history: the words whose explanation was counted
  given,     \* history: the notes each card was saved with
  beside     \* history: the cards each one was saved beside, by nobody disturbed

vars == <<vendor, keyed, permits, call, sink, span, saved, notes, paid, given, beside>>

(* A usage is told by the request it belongs to.                           *)
NoUsage  == <<>>
UsageOf(c) == <<c, call[c].asked + 1>>

NoSink == [usage |-> NoUsage, retries |-> 0]
NoSpan == [state |-> "none", usage |-> NoUsage, retries |-> 0, counted |-> NoUsage]

Fresh == [pc |-> "done", op |-> "none", word |-> "none", blank |-> FALSE,
          seen |-> {}, read |-> [k \in Cards |-> {}], since |-> {}, asked |-> 0, met |-> {},
          told |-> NoUsage, got |-> "none", answer |-> "none"]

Init == /\ vendor \in Vendors
        /\ keyed \in {TRUE, vendor = "fake"}
        /\ permits = Permits
        /\ call = [c \in Calls |-> Fresh]
        /\ sink = [c \in Calls |-> NoSink]
        /\ span = [c \in Calls |-> NoSpan]
        /\ saved = {} /\ paid = {}
        /\ notes = [k \in Cards |-> {}]
        /\ given = [k \in Cards |-> {}]
        /\ beside = [k \in Cards |-> {}]

At(c, stage)    == call[c].pc = stage
Become(c, rec)  == call' = [call EXCEPT ![c] = rec]
Goto(c, stage)  == Become(c, [call[c] EXCEPT !.pc = stage])

(* With its answer a request lets go of the cards it holds.                *)
Closing(rec, code) ==
  [rec EXCEPT !.pc = "finish", !.answer = code,
              !.seen = Fresh.seen, !.read = Fresh.read, !.since = Fresh.since]

Answer(c, code) == Become(c, Closing(call[c], code))
-----------------------------------------------------------------------------
(* The services.  /generate has passed the gates before its body runs, the *)
(* others look into their cache first.                                     *)
FirstStage(op) == IF op = "generate" THEN "gate" ELSE "cache"

(* No key is no error before the vendor says so.                           *)
HasKeyOrNone == TRUE

(* resolve_llm_key: the operator's key, whoever asks.                      *)
HasKey == vendor \in {"groq", "gemini"} => keyed

(* The provider is built before the gates, and the caches, are reached.    *)
Start(c, op, word, blank) ==
  /\ At(c, "done")
  /\ Become(c, LET asking == [Fresh EXCEPT !.op = op, !.word = word, !.blank = blank]
               IN  IF HasKey THEN [asking EXCEPT !.pc = FirstStage(op)]
                             ELSE [asking EXCEPT !.pc = "finish", !.answer = "error"])
  /\ UNCHANGED <<vendor, keyed, permits, sink, span, notes, paid>>

(* A note on any card of the sentence, whether it was saved with the card  *)
(* or explained later.                                                     *)
Explained(word) == \E k \in saved : word \in notes[k]

(* explain: the cards of the sentence are read (for_sentence); without one *)
(* (or its language) there is nothing to explain, and a note on any of     *)
(* them is the answer, and free.                                           *)
LookUpNote(c) ==
  /\ At(c, "cache") /\ call[c].op = "explain"
  /\ \/ Answer(c, "missing")
     \/ /\ Explained(call[c].word)
        /\ Answer(c, "free")
     \/ /\ saved # {} /\ ~Explained(call[c].word)
        /\ Become(c, [call[c] EXCEPT !.pc = "gate", !.seen = saved, !.read = notes])
  /\ UNCHANGED <<vendor, keyed, permits, sink, span, notes, paid>>

(* suggest: a preview in reuse is free as well.                            *)
LookUpPreview(c) ==
  /\ At(c, "cache") /\ call[c].op = "suggest"
  /\ \/ \E code \in {"missing", "free"} : Answer(c, code)
     \/ Goto(c, "gate")
  /\ UNCHANGED <<vendor, keyed, permits, sink, span, notes, paid>>

(* QuotaGuard.check opens the span; a gate that refuses ends it.           *)
Check(c) ==
  /\ At(c, "gate")
  /\ \/ /\ span' = [span EXCEPT ![c].state = "open"]
        /\ Goto(c, IF call[c].op = "generate" THEN "prepare" ELSE "dispatch")
     \/ /\ span' = [span EXCEPT ![c].state = "blocked"]
        /\ Answer(c, "refused")
  /\ UNCHANGED <<vendor, keyed, permits, sink, notes, paid>>

(* generate: the language is looked up after the gates.                    *)
Prepare(c) ==
  /\ At(c, "prepare")
  /\ Goto(c, "dispatch") \/ Answer(c, "missing")
  /\ UNCHANGED <<vendor, keyed, permits, sink, span, notes, paid>>
-----------------------------------------------------------------------------
(* One sink for the process.                                               *)
SharedSink(c) == CHOOSE d \in Calls : TRUE

(* capture_usage: a sink of its own in the context of each call, of which  *)
(* the thread has a copy.                                                  *)
SinkOf(c) == c

(* run_provider opens it when the prompts are warm, before the wait.       *)
Dispatch(c) ==
  /\ At(c, "dispatch")
  /\ sink' = [sink EXCEPT ![SinkOf(c)] = NoSink]
  /\ Goto(c, "queued")
  /\ UNCHANGED <<vendor, keyed, permits, span, notes, paid>>

(* LLMConcurrencyLimiter.run: a permit for as long as the thread works.    *)
Acquire(c) ==
  /\ At(c, "queued") /\ permits > 0
  /\ permits' = permits - 1
  /\ Goto(c, "thread")
  /\ UNCHANGED <<vendor, keyed, sink, span, notes, paid>>

(* ACQUIRE_TIMEOUT_SECONDS without a permit: ProviderBusy.                 *)
AcquireTimeout(c) ==
  /\ At(c, "queued") /\ permits = 0
  /\ Answer(c, "busy")
  /\ UNCHANGED <<vendor, keyed, permits, sink, span, notes, paid>>

(* What call_with_retry repeats, for each vendor.                          *)
EverythingIsTransient(fault) == TRUE

GroqTransient   == {"limit", "overload", "connection"}
GeminiTransient == {"limit", "overload", "server"}

IsTransient(fault) == fault \in CASE vendor = "groq"   -> GroqTransient
                                  [] vendor = "gemini" -> GeminiTransient
                                  [] OTHER             -> {}

Return(c, got)   == [call[c] EXCEPT !.pc = "returned", !.got = got]
Raise(c, error)  == [call[c] EXCEPT !.pc = "raised", !.got = error]

(* cap_words leaves no word: an empty result, and no request.              *)
NothingToAsk(c) ==
  /\ At(c, "thread") /\ call[c].blank
  /\ Become(c, Return(c, "empty"))
  /\ UNCHANGED <<vendor, keyed, permits, sink, span, notes, paid>>

(* The retries begin again when they are used up.                          *)
RetryForever(c, fault) ==
  [call[c] EXCEPT !.asked = IF @ + 1 = MaxAttempts THEN 0 ELSE @ + 1,
                  !.met = @ \cup {fault}]

(* An attempt fails: on to the next one after the backoff, which keeps the *)
(* permit; the last one is an LLMTransientError, another fault is raised   *)
(* at once.                                                                *)
AfterFault(c, fault) ==
  LET met == [call[c] EXCEPT !.asked = @ + 1, !.met = @ \cup {fault}]
  IN  IF ~IsTransient(fault) THEN [met EXCEPT !.pc = "raised", !.got = "fault"]
      ELSE IF met.asked = MaxAttempts THEN [met EXCEPT !.pc = "raised", !.got = "exhausted"]
      ELSE met

AttemptFails(c) ==
  /\ At(c, "thread") /\ ~call[c].blank /\ vendor # "fake"
  /\ \E fault \in Faults :
       /\ Become(c, AfterFault(c, fault))
       /\ sink' = IF AfterFault(c, fault).got = "exhausted"
                  THEN [sink EXCEPT ![SinkOf(c)].retries = MaxAttempts - 1]
                  ELSE sink
  /\ UNCHANGED <<vendor, keyed, permits, span, notes, paid>>

(* What a provider makes of the content of a response.  Groq sends text,   *)
(* which is parsed when the retries are over: what is no list is an error, *)
(* and so is an empty explanation.                                         *)
GroqParsed(content) == CASE content = "full"    -> "full"
                         [] content = "nothing" -> "empty"
                         [] OTHER               -> "fault"

GroqResult(op, content) ==
  IF op = "explain" THEN (IF content = "nothing" THEN "fault" ELSE "full")
                    ELSE GroqParsed(content)

(* Gemini parses itself: what it could not parse is an empty list.         *)
GeminiResult(op, content) ==
  IF op = "explain" THEN (IF content = "nothing" THEN "fault" ELSE "full")
                    ELSE (IF content = "full" THEN "full" ELSE "empty")

FakeResult(op, content) == "full"

ResultOf(op, content) == CASE vendor = "groq"   -> GroqResult(op, content)
                           [] vendor = "gemini" -> GeminiResult(op, content)
                           [] OTHER             -> FakeResult(op, content)

(* A response; its usage is reported when the vendor sends one, then the   *)
(* attempts before it.                                                     *)
AttemptAnswers(c) ==
  /\ At(c, "thread") /\ ~call[c].blank
  /\ \E content \in {"full", "nothing", "garbage"}, usage \in {NoUsage, UsageOf(c)} :
       LET got == ResultOf(call[c].op, content)
       IN  /\ sink' = [sink EXCEPT ![SinkOf(c)] =
                         [usage   |-> IF usage = NoUsage THEN @.usage ELSE usage,
                          retries |-> call[c].asked]]
           /\ Become(c, [call[c] EXCEPT !.asked = @ + 1, !.told = usage, !.got = got,
                           !.pc = IF got = "fault" THEN "raised" ELSE "returned"])
  /\ UNCHANGED <<vendor, keyed, permits, span, notes, paid>>
-----------------------------------------------------------------------------
(* The event loop goes on: the permit is released whatever happened, and   *)
(* only a result is told to the span and to the counters.                  *)
AfterResult(c) == IF call[c].op = "generate" /\ call[c].got = "empty"
                  THEN Answer(c, "ok")
                  ELSE Goto(c, "record")

RecordTokens(rec, usage) == [rec EXCEPT !.counted = usage]

Returned(c) ==
  /\ At(c, "returned")
  /\ permits' = permits + 1
  /\ LET told == sink[SinkOf(c)]
     IN  span' = [span EXCEPT ![c] = RecordTokens([@ EXCEPT !.usage = told.usage,
                                                           !.retries = told.retries], told.usage)]
  /\ AfterResult(c)
  /\ UNCHANGED <<vendor, keyed, sink, notes, paid>>

(* The handlers: exhausted retries are the same 503 as a missing permit.   *)
Raised(c) ==
  /\ At(c, "raised")
  /\ permits' = permits + 1
  /\ Answer(c, IF call[c].got = "exhausted" THEN "busy" ELSE "error")
  /\ UNCHANGED <<vendor, keyed, sink, span, notes, paid>>

(* record_success counts the call and ends the span.                       *)
Record(c) ==
  /\ At(c, "record")
  /\ span' = [span EXCEPT ![c].state = "success"]
  /\ paid' = IF call[c].op = "explain" THEN paid \cup {call[c].word} ELSE paid
  /\ IF call[c].op = "explain" THEN Goto(c, "write") ELSE Answer(c, "ok")
  /\ UNCHANGED <<vendor, keyed, permits, sink, notes>>

(* A call that cannot be counted is served all the same.                   *)
RecordFailsServing(c) ==
  /\ At(c, "record")
  /\ IF call[c].op = "explain" THEN Goto(c, "write") ELSE Answer(c, "ok")
  /\ UNCHANGED <<vendor, keyed, permits, sink, span, notes, paid>>

RecordFails(c) ==
  /\ At(c, "record")
  /\ Answer(c, "error")
  /\ UNCHANGED <<vendor, keyed, permits, sink, span, notes, paid>>

(* Only the new note is written.                                           *)
NoteAlone(c, k) == {call[c].word}

(* set_explanation: the notes as they were read, with the new one.         *)
NewNotes(c, k) == call[c].read[k] \cup {call[c].word}

(* One card of the sentence gets it.                                       *)
WrittenFirst(c) == LET first == CHOOSE k \in call[c].seen : TRUE
                   IN  [notes EXCEPT ![first] = NewNotes(c, first)]

(* Every card that was read gets it, with one commit; a card saved since   *)
(* is not among them.                                                      *)
Written(c) == [k \in Cards |-> IF k \in call[c].seen THEN NewNotes(c, k) ELSE notes[k]]

(* The explanations under way, whose cards have been read.                 *)
UnderWay(c) == call[c].op = "explain" /\ call[c].pc \notin {"cache", "finish", "done"}

(* since: what appeared on the cards after a call under way read them, be  *)
(* it the note of another call or one that other call had read.            *)
WriteNotes(c) ==
  /\ At(c, "write")
  /\ notes' = Written(c)
  /\ call' = [d \in Calls |->
                IF d = c THEN Closing(call[c], "ok")
                ELSE [call[d] EXCEPT !.since =
                        IF UnderWay(d) THEN @ \cup UNION {notes'[k] \ notes[k] : k \in Cards} ELSE @]]
  /\ UNCHANGED <<vendor, keyed, permits, sink, span, paid>>

WriteFails(c) ==
  /\ At(c, "write")
  /\ Answer(c, "error")
  /\ UNCHANGED <<vendor, keyed, permits, sink, span, notes, paid>>

(* POST /cards/save: a card of the sentence, generated with notes or not,  *)
(* whatever is explained meanwhile, and as often as the user saves it.     *)
SaveCard(k, with) ==
  /\ k \notin saved
  /\ saved' = saved \cup {k}
  /\ notes' = [notes EXCEPT ![k] = with]
  /\ given' = [given EXCEPT ![k] = with]
  /\ beside' = [beside EXCEPT ![k] = IF \E c \in Calls : UnderWay(c) THEN {} ELSE saved]
  /\ UNCHANGED <<vendor, keyed, permits, call, sink, span, paid>>

(* The request is answered; finalize ends a span that is still open.       *)
Finalize(c) ==
  /\ At(c, "finish")
  /\ Become(c, Fresh)
  /\ span' = [span EXCEPT ![c] = NoSpan]
  /\ sink' = [sink EXCEPT ![c] = NoSink]
  /\ UNCHANGED <<vendor, keyed, permits, notes, paid>>

Serve(c) ==
  \/ LookUpNote(c) \/ LookUpPreview(c) \/ Check(c) \/ Prepare(c)
  \/ Dispatch(c) \/ Acquire(c) \/ AcquireTimeout(c)
  \/ NothingToAsk(c) \/ AttemptFails(c) \/ AttemptAnswers(c)
  \/ Returned(c) \/ Raised(c)
  \/ Record(c) \/ RecordFails(c) \/ WriteNotes(c) \/ WriteFails(c)
  \/ Finalize(c)

Requested(c) ==
  \/ Serve(c)
  \/ \E w \in Words : "explain" \in Ops /\ Start(c, "explain", w, FALSE)
  \/ \E b \in BOOLEAN : "generate" \in Ops /\ Start(c, "generate", "none", b)
  \/ "suggest" \in Ops /\ Start(c, "suggest", "none", FALSE)

Next == \/ \E c \in Calls : Requested(c) /\ UNCHANGED <<saved, given, beside>>
        \/ \E k \in Cards, with \in SUBSET Words : SaveCard(k, with)

Spec == Init /\ [][Next]_vars
-----------------------------------------------------------------------------
(* What a call told its span and what was counted for it is the usage of   *)
(* its own last request, and the retries are the requests before that one, *)
(* whatever other calls run at the same time; nothing is counted for a     *)
(* call that got no result (app/llm_runner.py, lengua_core/llm/usage.py).  *)
SpanTellsOwnCall ==
  \A c \in Calls :
    /\ span[c].counted # NoUsage =>
         span[c].counted = <<c, call[c].asked>> /\ call[c].got \in {"full", "empty"}
    /\ span[c].state = "success" =>
         /\ span[c].usage = call[c].told
         /\ span[c].counted = call[c].told
         /\ span[c].retries = call[c].asked - 1

Ended(c) == call[c].pc = "finish"

(* "Try again in a moment" is the answer to calls that found no permit or  *)
(* only temporary faults, as often as the retries allow, and to no other;  *)
(* what is answered from a cache, refused or missing asked nobody.  A      *)
(* deployment without its key answers nothing but errors, which open no    *)
(* span, also where a cache would have answered.                           *)
AnswersTellFaults ==
  \A c \in Calls : Ended(c) =>
    /\ call[c].answer = "busy" =>
         /\ "request" \notin call[c].met
         /\ call[c].asked = IF call[c].met = {} THEN 0 ELSE MaxAttempts
    /\ call[c].answer = "ok" => "request" \notin call[c].met
    /\ call[c].answer \in {"free", "refused", "missing"} =>
         call[c].asked = 0 /\ span[c].counted = NoUsage
    /\ call[c].asked \in 0 .. MaxAttempts
    /\ vendor # "fake" /\ ~keyed => call[c].answer = "error" /\ call[c].asked = 0 /\ span[c] = NoSpan

(* A note that is served free was saved with its card or counted as an     *)
(* explanation; what a card was saved with stays on it, whatever overlaps; *)
(* and what was explained on a card is on the older cards of the sentence  *)
(* as well, unless an explanation was under way when the card was saved    *)
(* (app/services/explain.py, app/repositories/cards.py).                   *)
NotesPaidAndShared ==
  \A k \in saved :
    /\ notes[k] \subseteq given[k] \cup paid
    /\ given[k] \subseteq notes[k]
    /\ \A older \in beside[k] : notes[k] \ given[k] \subseteq notes[older]

(* A note is lost only to an explanation that was under way when the note  *)
(* appeared on the card, never to one that read the cards later.           *)
LostToOverlapOnly ==
  [][\A k \in Cards : \A w \in notes[k] \ notes'[k] :
       \E c \in Calls : At(c, "write") /\ w \in call[c].since]_vars
=============================================================================
