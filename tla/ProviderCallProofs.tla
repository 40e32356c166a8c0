------------------------- MODULE ProviderCallProofs -------------------------
(***************************************************************************)
(* The calls of the language model for any number of calls, words, cards,  *)
(* permits and attempts: what the spans and the answers tell, and who may  *)
(* lose a note; and, in the second part, the words and cards that are      *)
(* asked for by such calls (Discover).                                     *)
(***************************************************************************)
EXTENDS ProviderCall, Discover, FiniteSetTheorems, SequenceTheorems, WellFoundedInduction, TLAPS

Stages == {"done", "cache", "gate", "prepare", "dispatch", "queued", "thread",
           "returned", "raised", "record", "write", "finish"}

Codes  == {"error", "missing", "free", "refused", "busy", "ok"}
Texts  == Words \cup {"none"}
Usages == {NoUsage} \cup (Calls \X Nat)

CallRecord ==
  [pc : Stages, op : {"none", "explain", "generate", "suggest"}, word : Texts, blank : BOOLEAN,
   seen : SUBSET Cards, read : [Cards -> SUBSET Texts], since : SUBSET Texts,
   asked : Nat, met : SUBSET AllFaults, told : Usages, got : {"none", "full", "empty", "fault", "exhausted"},
   answer : Codes \cup {"none"}]

SinkRecord == [usage : Usages, retries : Nat]

SpanRecord == [state : {"none", "open", "blocked", "success"}, usage : Usages, retries : Nat,
               counted : Usages]

(* The type of the state: every call, sink and span is the record it is    *)
(* made as, and the notes and what was counted are words.                  *)
Typed ==
  /\ vendor \in Vendors /\ keyed \in BOOLEAN
  /\ call \in [Calls -> CallRecord]
  /\ sink \in [Calls -> SinkRecord]
  /\ span \in [Calls -> SpanRecord]
  /\ notes \in [Cards -> SUBSET Texts]
  /\ paid \in SUBSET Texts

(* And the cards with their history.                                       *)
CardsTyped ==
  /\ saved \in SUBSET Cards
  /\ given \in [Cards -> SUBSET Texts]
  /\ beside \in [Cards -> SUBSET Cards]

(* What a call knows at each stage, of its record r, span s and sink k.    *)
BeforeAsking(r) ==
  r.pc \in {"done", "cache", "gate", "prepare", "dispatch", "queued"} =>
    r.asked = 0 /\ r.met = {} /\ r.told = NoUsage /\ r.got = "none"

OpenedSpan(r, s) ==
  /\ r.pc \in {"done", "cache", "gate"} => s = NoSpan
  /\ r.pc \in {"prepare", "dispatch", "queued", "thread", "returned", "raised"} =>
       s.state = "open" /\ s.counted = NoUsage

Asking(r, k) ==
  /\ r.pc \in {"queued", "thread"} => k = NoSink
  /\ r.pc = "thread" =>
       /\ r.asked < MaxAttempts /\ r.told = NoUsage /\ r.got = "none"
       /\ r.blank => r.asked = 0
  /\ r.pc \in {"thread", "returned", "record", "write"} => "request" \notin r.met

HasResult(r, k) ==
  r.pc = "returned" =>
    /\ r.got \in {"full", "empty"}
    /\ k.usage = r.told
    /\ r.asked > 0 => k.retries = r.asked - 1
    /\ r.asked = 0 => r.op = "generate" /\ r.got = "empty"

HasFailed(r) ==
  r.pc = "raised" =>
    /\ r.got \in {"fault", "exhausted"}
    /\ r.got = "exhausted" => r.asked = MaxAttempts /\ r.met # {} /\ "request" \notin r.met

Counting(r, s) ==
  /\ r.pc \in {"record", "write"} =>
       /\ r.got \in {"full", "empty"} /\ r.asked > 0
       /\ s.usage = r.told /\ s.counted = r.told /\ s.retries = r.asked - 1
  /\ r.pc = "record" => s.state = "open"
  /\ r.pc = "write"  => s.state = "success" /\ r.op = "explain"

Answered(c, r, s) ==
  r.pc = "finish" =>
    /\ s.counted # NoUsage => s.counted = <<c, r.asked>> /\ r.got \in {"full", "empty"}
    /\ s.state = "success" => s.usage = r.told /\ s.counted = r.told /\ s.retries = r.asked - 1
    /\ r.answer = "busy" =>
         "request" \notin r.met /\ r.asked = IF r.met = {} THEN 0 ELSE MaxAttempts
    /\ r.answer = "ok" => "request" \notin r.met
    /\ r.answer \in {"free", "refused", "missing"} => r.asked = 0 /\ s.counted = NoUsage
    /\ ~HasKey => r.answer = "error" /\ r.asked = 0 /\ s = NoSpan

Tells(c, r, s, k) ==
  /\ r.pc \notin {"done", "finish"} => HasKey
  /\ r.blank => r.op = "generate"
  /\ r.asked <= MaxAttempts
  /\ r.told \in {NoUsage, <<c, r.asked>>}
  /\ BeforeAsking(r) /\ OpenedSpan(r, s) /\ Asking(r, k)
  /\ HasResult(r, k) /\ HasFailed(r) /\ Counting(r, s) /\ Answered(c, r, s)

EachTells == \A c \in Calls : Tells(c, call[c], span[c], sink[c])

(* A step of c keeps the type and what c knows, and leaves every other     *)
(* call, span and sink as they were.                                       *)
KeepsOwn(c) ==
  /\ Typed'
  /\ vendor' = vendor /\ keyed' = keyed
  /\ Tells(c, call'[c], span'[c], sink'[c])
  /\ \A d \in Calls \ {c} : span'[d] = span[d] /\ sink'[d] = sink[d]

Aside(c) == \A d \in Calls \ {c} : call'[d] = call[d]

LEMMA NewCall ==
  ASSUME Typed, NEW c \in Calls, NEW rec \in CallRecord, Become(c, rec)
  PROVE  call' \in [Calls -> CallRecord] /\ call'[c] = rec /\ Aside(c)
BY DEF Typed, Become, Aside

LEMMA NewSpan ==
  ASSUME Typed, NEW c \in Calls, NEW s \in SpanRecord, span' = [span EXCEPT ![c] = s]
  PROVE  span' \in [Calls -> SpanRecord] /\ span'[c] = s /\ \A d \in Calls \ {c} : span'[d] = span[d]
BY DEF Typed

LEMMA NewSink ==
  ASSUME Typed, NEW c \in Calls, NEW k \in SinkRecord, sink' = [sink EXCEPT ![c] = k]
  PROVE  sink' \in [Calls -> SinkRecord] /\ sink'[c] = k /\ \A d \in Calls \ {c} : sink'[d] = sink[d]
BY DEF Typed

LEMMA FreshTyped == Fresh \in CallRecord /\ NoSink \in SinkRecord /\ NoSpan \in SpanRecord
BY DEF Fresh, CallRecord, Codes, NoSink, SinkRecord, NoSpan, SpanRecord, Stages, Texts, Usages,
   AllFaults

(* All that a step which answers a call keeps of its record, and what one  *)
(* that moves it keeps as well.                                            *)
SameAsked(q, r) ==
  /\ q.op = r.op /\ q.word = r.word /\ q.blank = r.blank
  /\ q.asked = r.asked /\ q.met = r.met /\ q.told = r.told /\ q.got = r.got

SameCards(q, r) == q.seen = r.seen /\ q.read = r.read /\ q.since = r.since

SameRest(q, r) == SameAsked(q, r) /\ SameCards(q, r)

(* A call that goes to another stage keeps the rest of its record.         *)
LEMMA MovesOn ==
  ASSUME Typed, NEW c \in Calls, NEW stage \in Stages, Goto(c, stage)
  PROVE  /\ call' \in [Calls -> CallRecord] /\ Aside(c)
         /\ call'[c] \in CallRecord /\ call'[c].pc = stage
         /\ SameRest(call'[c], call[c])
<1> DEFINE q == [call[c] EXCEPT !.pc = stage]
<1>1. q \in CallRecord /\ q.pc = stage /\ SameRest(q, call[c])
  BY DEF Typed, CallRecord, SameRest, SameAsked, SameCards
<1>2. Become(c, q)
  BY DEF Goto
<1> QED
  BY <1>1, <1>2, NewCall

(* An answer ends the call and changes nothing else of its record.         *)
LEMMA ClosingTyped ==
  ASSUME NEW r \in CallRecord, NEW code \in Codes
  PROVE  /\ Closing(r, code) \in CallRecord
         /\ Closing(r, code).pc = "finish" /\ Closing(r, code).answer = code
         /\ SameAsked(Closing(r, code), r)
<1>1. /\ "finish" \in Stages /\ code \in Codes \cup {"none"}
      /\ Fresh.seen \in SUBSET Cards /\ Fresh.read \in [Cards -> SUBSET Texts]
      /\ Fresh.since \in SUBSET Texts
  BY DEF Stages, Fresh
<1> QED
  BY <1>1 DEF Closing, CallRecord, SameAsked

LEMMA Ends ==
  ASSUME Typed, NEW c \in Calls,
         NEW code \in Codes, Answer(c, code)
  PROVE  /\ call' \in [Calls -> CallRecord] /\ Aside(c)
         /\ call'[c] \in CallRecord /\ call'[c].pc = "finish" /\ call'[c].answer = code
         /\ SameAsked(call'[c], call[c])
<1>1. call[c] \in CallRecord
  BY DEF Typed
<1>2. Become(c, Closing(call[c], code))
  BY DEF Answer
<1> QED
  BY <1>1, <1>2, ClosingTyped, NewCall

(* What is left to show of a step that changes neither span nor sink.      *)
LEMMA CallAlone ==
  ASSUME Typed, NEW c \in Calls, call' \in [Calls -> CallRecord],
         UNCHANGED <<vendor, keyed, sink, span, notes, paid>>,
         Tells(c, call'[c], span[c], sink[c])
  PROVE  KeepsOwn(c)
BY DEF KeepsOwn, Typed

LEMMA LookUpNoteKeeps ==
  ASSUME Typed, CardsTyped, NEW c \in Calls, Tells(c, call[c], span[c], sink[c]), LookUpNote(c)
  PROVE  KeepsOwn(c) /\ Aside(c)
<1> USE DEF Tells, BeforeAsking, OpenedSpan, Asking, HasResult, HasFailed, Counting, Answered,
            SameRest, SameAsked
<1>1. call[c] \in CallRecord /\ call[c].pc = "cache"
  BY DEF Typed, LookUpNote, At
<1>2. UNCHANGED <<vendor, keyed, sink, span, notes, paid>>
  BY DEF LookUpNote
<1>3. ASSUME NEW code \in {"missing", "free"}, Answer(c, code)
      PROVE  KeepsOwn(c) /\ Aside(c)
  <2>1. /\ call' \in [Calls -> CallRecord] /\ Aside(c)
        /\ call'[c] \in CallRecord /\ call'[c].pc = "finish" /\ call'[c].answer = code
        /\ SameAsked(call'[c], call[c])
    BY <1>3, Ends DEF Codes
  <2>2. Tells(c, call'[c], span[c], sink[c])
    BY <1>1, <2>1 DEF CallRecord, NoSpan
  <2> QED
    BY <1>2, <2>1, <2>2, CallAlone
<1>4. CASE Become(c, [call[c] EXCEPT !.pc = "gate", !.seen = saved, !.read = notes])
  <2> DEFINE q == [call[c] EXCEPT !.pc = "gate", !.seen = saved, !.read = notes]
  <2>1. /\ q \in CallRecord /\ q.pc = "gate" /\ q.op = call[c].op /\ q.blank = call[c].blank
        /\ q.asked = call[c].asked /\ q.met = call[c].met /\ q.told = call[c].told /\ q.got = call[c].got
    BY <1>1 DEF Typed, CardsTyped, CallRecord, Stages
  <2>2. call' \in [Calls -> CallRecord] /\ call'[c] = q /\ Aside(c)
    BY <1>4, <2>1, NewCall
  <2> HIDE DEF q
  <2>3. Tells(c, call'[c], span[c], sink[c])
    BY <1>1, <2>1, <2>2
  <2> QED
    BY <1>2, <2>2, <2>3, CallAlone
<1> QED
  BY <1>3, <1>4 DEF LookUpNote

LEMMA LookUpPreviewKeeps ==
  ASSUME Typed, NEW c \in Calls, Tells(c, call[c], span[c], sink[c]), LookUpPreview(c)
  PROVE  KeepsOwn(c) /\ Aside(c)
<1> USE DEF Tells, BeforeAsking, OpenedSpan, Asking, HasResult, HasFailed, Counting, Answered,
            SameRest, SameAsked
<1>1. call[c] \in CallRecord /\ call[c].pc = "cache"
  BY DEF Typed, LookUpPreview, At
<1>2. UNCHANGED <<vendor, keyed, sink, span, notes, paid>>
  BY DEF LookUpPreview
<1>3. ASSUME NEW code \in {"missing", "free"}, Answer(c, code)
      PROVE  KeepsOwn(c) /\ Aside(c)
  <2>1. /\ call' \in [Calls -> CallRecord] /\ Aside(c)
        /\ call'[c] \in CallRecord /\ call'[c].pc = "finish" /\ call'[c].answer = code
        /\ SameAsked(call'[c], call[c])
    BY <1>3, Ends DEF Codes
  <2>2. Tells(c, call'[c], span[c], sink[c])
    BY <1>1, <2>1 DEF CallRecord, NoSpan
  <2> QED
    BY <1>2, <2>1, <2>2, CallAlone
<1>4. CASE Goto(c, "gate")
  <2>1. /\ call' \in [Calls -> CallRecord] /\ Aside(c)
        /\ call'[c] \in CallRecord /\ call'[c].pc = "gate" /\ SameRest(call'[c], call[c])
    BY <1>4, MovesOn DEF Stages
  <2>2. Tells(c, call'[c], span[c], sink[c])
    BY <1>1, <2>1
  <2> QED
    BY <1>2, <2>1, <2>2, CallAlone
<1> QED
  BY <1>3, <1>4 DEF LookUpPreview

LEMMA CheckKeeps ==
  ASSUME Typed, NEW c \in Calls, Tells(c, call[c], span[c], sink[c]), Check(c)
  PROVE  KeepsOwn(c) /\ Aside(c)
<1> USE DEF Tells, BeforeAsking, OpenedSpan, Asking, HasResult, HasFailed, Counting, Answered,
            SameRest, SameAsked
<1>1. call[c] \in CallRecord /\ call[c].pc = "gate" /\ span[c] \in SpanRecord /\ span[c] = NoSpan
  BY DEF Typed, Check, At
<1>2. UNCHANGED <<vendor, keyed, sink, notes, paid>>
  BY DEF Check
<1>3. ASSUME NEW state \in {"open", "blocked"}, span' = [span EXCEPT ![c].state = state]
      PROVE  /\ span' \in [Calls -> SpanRecord]
             /\ span'[c].state = state /\ span'[c].counted = NoUsage
             /\ \A d \in Calls \ {c} : span'[d] = span[d]
  <2> DEFINE s == [span[c] EXCEPT !.state = state]
  <2>1. s \in SpanRecord /\ s.state = state /\ s.counted = NoUsage
    BY <1>1 DEF SpanRecord, NoSpan
  <2>2. span' = [span EXCEPT ![c] = s]
    BY <1>3
  <2> QED
    BY <2>1, <2>2, NewSpan
<1>4. CASE /\ span' = [span EXCEPT ![c].state = "open"]
           /\ Goto(c, IF call[c].op = "generate" THEN "prepare" ELSE "dispatch")
  <2> DEFINE stage == IF call[c].op = "generate" THEN "prepare" ELSE "dispatch"
  <2>1. stage \in Stages /\ stage \in {"prepare", "dispatch"}
    BY DEF Stages
  <2> HIDE DEF stage
  <2>2. /\ call' \in [Calls -> CallRecord] /\ Aside(c)
        /\ call'[c] \in CallRecord /\ call'[c].pc = stage /\ SameRest(call'[c], call[c])
    BY <1>4, <2>1, MovesOn DEF stage
  <2>3. /\ span' \in [Calls -> SpanRecord] /\ \A d \in Calls \ {c} : span'[d] = span[d]
        /\ span'[c].state = "open" /\ span'[c].counted = NoUsage
    BY <1>3, <1>4
  <2>4. Tells(c, call'[c], span'[c], sink'[c])
    BY <1>1, <1>2, <2>1, <2>2, <2>3
  <2> QED
    BY <1>2, <2>2, <2>3, <2>4 DEF KeepsOwn, Typed
<1>5. CASE span' = [span EXCEPT ![c].state = "blocked"] /\ Answer(c, "refused")
  <2>1. /\ call' \in [Calls -> CallRecord] /\ Aside(c)
        /\ call'[c] \in CallRecord /\ call'[c].pc = "finish" /\ call'[c].answer = "refused"
        /\ SameAsked(call'[c], call[c])
    BY <1>5, Ends DEF Codes
  <2>2. /\ span' \in [Calls -> SpanRecord] /\ \A d \in Calls \ {c} : span'[d] = span[d]
        /\ span'[c].state = "blocked" /\ span'[c].counted = NoUsage
    BY <1>3, <1>5
  <2>3. Tells(c, call'[c], span'[c], sink'[c])
    BY <1>1, <1>2, <2>1, <2>2
  <2> QED
    BY <1>2, <2>1, <2>2, <2>3 DEF KeepsOwn, Typed
<1> QED
  BY <1>4, <1>5 DEF Check

LEMMA PrepareKeeps ==
  ASSUME Typed, NEW c \in Calls, Tells(c, call[c], span[c], sink[c]), Prepare(c)
  PROVE  KeepsOwn(c) /\ Aside(c)
<1> USE DEF Tells, BeforeAsking, OpenedSpan, Asking, HasResult, HasFailed, Counting, Answered,
            SameRest, SameAsked
<1>1. call[c] \in CallRecord /\ call[c].pc = "prepare"
  BY DEF Typed, Prepare, At
<1>2. UNCHANGED <<vendor, keyed, sink, span, notes, paid>>
  BY DEF Prepare
<1>3. CASE Goto(c, "dispatch")
  <2>1. /\ call' \in [Calls -> CallRecord] /\ Aside(c)
        /\ call'[c] \in CallRecord /\ call'[c].pc = "dispatch" /\ SameRest(call'[c], call[c])
    BY <1>3, MovesOn DEF Stages
  <2>2. Tells(c, call'[c], span[c], sink[c])
    BY <1>1, <2>1
  <2> QED
    BY <1>2, <2>1, <2>2, CallAlone
<1>4. CASE Answer(c, "missing")
  <2>1. /\ call' \in [Calls -> CallRecord] /\ Aside(c)
        /\ call'[c] \in CallRecord /\ call'[c].pc = "finish" /\ call'[c].answer = "missing"
        /\ SameAsked(call'[c], call[c])
    BY <1>4, Ends DEF Codes
  <2>2. Tells(c, call'[c], span[c], sink[c])
    BY <1>1, <2>1
  <2> QED
    BY <1>2, <2>1, <2>2, CallAlone
<1> QED
  BY <1>3, <1>4 DEF Prepare

LEMMA StartKeeps ==
  ASSUME Typed, NEW c \in Calls, Tells(c, call[c], span[c], sink[c]),
         NEW op \in {"explain", "generate", "suggest"}, NEW word \in Texts, NEW blank \in BOOLEAN,
         blank => op = "generate",
         Start(c, op, word, blank)
  PROVE  KeepsOwn(c) /\ Aside(c)
<1> USE DEF Tells, BeforeAsking, OpenedSpan, Asking, HasResult, HasFailed, Counting, Answered,
            SameRest, SameAsked
<1>1. call[c].pc = "done"
  BY DEF Start, At
<1>2. UNCHANGED <<vendor, keyed, sink, span, notes, paid>>
  BY DEF Start
<1> DEFINE asking == [Fresh EXCEPT !.op = op, !.word = word, !.blank = blank]
<1>3. /\ asking \in CallRecord /\ asking.blank = blank /\ asking.op = op
      /\ asking.asked = 0 /\ asking.met = {} /\ asking.told = NoUsage /\ asking.got = "none"
  BY FreshTyped DEF CallRecord, Fresh
<1> HIDE DEF asking
<1>4. CASE HasKey
  <2> DEFINE q == [asking EXCEPT !.pc = FirstStage(op)]
  <2>1. q \in CallRecord
    BY <1>3 DEF CallRecord, FirstStage, Stages
  <2>2. /\ q.pc \in {"gate", "cache"} /\ q.op = op /\ q.blank = blank
        /\ q.asked = 0 /\ q.met = {} /\ q.told = NoUsage /\ q.got = "none"
    BY <1>3 DEF CallRecord, FirstStage
  <2>3. Become(c, q)
    BY <1>4 DEF Start, asking
  <2>4. call' \in [Calls -> CallRecord] /\ call'[c] = q /\ Aside(c)
    BY <2>1, <2>3, NewCall
  <2> HIDE DEF q
  <2>5. Tells(c, call'[c], span[c], sink[c])
    BY <1>1, <1>4, <2>2, <2>4 DEF ProviderCallAssumption
  <2> QED
    BY <1>2, <2>4, <2>5, CallAlone
<1>5. CASE ~HasKey
  <2> DEFINE q == [asking EXCEPT !.pc = "finish", !.answer = "error"]
  <2>1. q \in CallRecord
    BY <1>3 DEF CallRecord, Stages, Codes
  <2>2. /\ q.pc = "finish" /\ q.op = op /\ q.blank = blank /\ q.answer = "error"
        /\ q.asked = 0 /\ q.met = {} /\ q.told = NoUsage /\ q.got = "none"
    BY <1>3 DEF CallRecord
  <2>3. Become(c, q)
    BY <1>5 DEF Start, asking
  <2>4. call' \in [Calls -> CallRecord] /\ call'[c] = q /\ Aside(c)
    BY <2>1, <2>3, NewCall
  <2> HIDE DEF q
  <2>5. Tells(c, call'[c], span[c], sink[c])
    BY <1>1, <1>5, <2>2, <2>4 DEF NoSpan
  <2> QED
    BY <1>2, <2>4, <2>5, CallAlone
<1> QED
  BY <1>4, <1>5

LEMMA DispatchKeeps ==
  ASSUME Typed, NEW c \in Calls, Tells(c, call[c], span[c], sink[c]), Dispatch(c)
  PROVE  KeepsOwn(c) /\ Aside(c)
<1> USE DEF Tells, BeforeAsking, OpenedSpan, Asking, HasResult, HasFailed, Counting, Answered,
            SameRest, SameAsked
<1>1. call[c].pc = "dispatch"
  BY DEF Dispatch, At
<1>2. UNCHANGED <<vendor, keyed, span, notes, paid>>
  BY DEF Dispatch
<1>3. /\ call' \in [Calls -> CallRecord] /\ Aside(c)
      /\ call'[c] \in CallRecord /\ call'[c].pc = "queued" /\ SameRest(call'[c], call[c])
  BY MovesOn DEF Stages, Dispatch
<1>4. sink' \in [Calls -> SinkRecord] /\ sink'[c] = NoSink /\ \A d \in Calls \ {c} : sink'[d] = sink[d]
  BY NewSink, FreshTyped DEF Dispatch, SinkOf
<1>5. Tells(c, call'[c], span'[c], sink'[c])
  <2> "request" \notin call[c].met
    BY <1>1
  <2> QED
    BY <1>1, <1>2, <1>3, <1>4
<1> QED
  BY <1>2, <1>3, <1>4, <1>5 DEF KeepsOwn, Typed

LEMMA AcquireKeeps ==
  ASSUME ProviderCallAssumption,
         Typed, NEW c \in Calls, Tells(c, call[c], span[c], sink[c]), Acquire(c)
  PROVE  KeepsOwn(c) /\ Aside(c)
<1> USE DEF Tells, BeforeAsking, OpenedSpan, Asking, HasResult, HasFailed, Counting, Answered,
            SameRest, SameAsked
<1>1. call[c].pc = "queued"
  BY DEF Acquire, At
<1>2. UNCHANGED <<vendor, keyed, sink, span, notes, paid>>
  BY DEF Acquire
<1>3. /\ call' \in [Calls -> CallRecord] /\ Aside(c)
      /\ call'[c] \in CallRecord /\ call'[c].pc = "thread" /\ SameRest(call'[c], call[c])
  BY MovesOn DEF Stages, Acquire
<1>4. Tells(c, call'[c], span[c], sink[c])
  BY <1>1, <1>3 DEF ProviderCallAssumption
<1> QED
  BY <1>2, <1>3, <1>4, CallAlone

LEMMA AcquireTimeoutKeeps ==
  ASSUME Typed, NEW c \in Calls, Tells(c, call[c], span[c], sink[c]), AcquireTimeout(c)
  PROVE  KeepsOwn(c) /\ Aside(c)
<1> USE DEF Tells, BeforeAsking, OpenedSpan, Asking, HasResult, HasFailed, Counting, Answered,
            SameRest, SameAsked
<1>1. call[c].pc = "queued"
  BY DEF AcquireTimeout, At
<1>2. UNCHANGED <<vendor, keyed, sink, span, notes, paid>>
  BY DEF AcquireTimeout
<1>3. /\ call' \in [Calls -> CallRecord] /\ Aside(c)
      /\ call'[c] \in CallRecord /\ call'[c].pc = "finish" /\ call'[c].answer = "busy"
      /\ SameAsked(call'[c], call[c])
  BY Ends DEF Codes, AcquireTimeout
<1>4. Tells(c, call'[c], span[c], sink[c])
  BY <1>1, <1>3
<1> QED
  BY <1>2, <1>3, <1>4, CallAlone

LEMMA NothingToAskKeeps ==
  ASSUME Typed, NEW c \in Calls, Tells(c, call[c], span[c], sink[c]), NothingToAsk(c)
  PROVE  KeepsOwn(c) /\ Aside(c)
<1> USE DEF Tells, BeforeAsking, OpenedSpan, Asking, HasResult, HasFailed, Counting, Answered,
            SameRest, SameAsked
<1>1. call[c].pc = "thread" /\ call[c].blank /\ call[c] \in CallRecord
  BY DEF NothingToAsk, At, Typed
<1>2. UNCHANGED <<vendor, keyed, sink, span, notes, paid>>
  BY DEF NothingToAsk
<1> DEFINE q == Return(c, "empty")
<1>3. q \in CallRecord /\ q.pc = "returned" /\ q.op = call[c].op /\ q.blank = call[c].blank
      /\ q.asked = call[c].asked /\ q.met = call[c].met /\ q.told = call[c].told /\ q.got = "empty"
  BY <1>1 DEF Return, CallRecord, Stages
<1>4. call' \in [Calls -> CallRecord] /\ call'[c] = q /\ Aside(c)
  BY <1>3, NewCall DEF NothingToAsk
<1> HIDE DEF q
<1>5. Tells(c, call'[c], span[c], sink[c])
  BY <1>1, <1>3, <1>4 DEF NoSink
<1> QED
  BY <1>2, <1>4, <1>5, CallAlone

LEMMA RaisedKeeps ==
  ASSUME Typed, NEW c \in Calls, Tells(c, call[c], span[c], sink[c]), Raised(c)
  PROVE  KeepsOwn(c) /\ Aside(c)
<1> USE DEF Tells, BeforeAsking, OpenedSpan, Asking, HasResult, HasFailed, Counting, Answered,
            SameRest, SameAsked
<1>1. call[c].pc = "raised"
  BY DEF Raised, At
<1>2. UNCHANGED <<vendor, keyed, sink, span, notes, paid>>
  BY DEF Raised
<1> DEFINE code == IF call[c].got = "exhausted" THEN "busy" ELSE "error"
<1>3. /\ call' \in [Calls -> CallRecord] /\ Aside(c)
      /\ call'[c] \in CallRecord /\ call'[c].pc = "finish" /\ call'[c].answer = code
      /\ SameAsked(call'[c], call[c])
  <2>1. code \in Codes /\ Answer(c, code)
    BY DEF Codes, Raised
  <2> HIDE DEF code
  <2> QED
    BY <2>1, Ends
<1>4. Tells(c, call'[c], span[c], sink[c])
  BY <1>1, <1>3
<1> QED
  BY <1>2, <1>3, <1>4, CallAlone

LEMMA RecordKeeps ==
  ASSUME Typed, NEW c \in Calls, Tells(c, call[c], span[c], sink[c]), Record(c)
  PROVE  KeepsOwn(c) /\ Aside(c)
<1> USE DEF Tells, BeforeAsking, OpenedSpan, Asking, HasResult, HasFailed, Counting, Answered,
            SameRest, SameAsked
<1>1. call[c].pc = "record" /\ span[c] \in SpanRecord /\ call[c] \in CallRecord
  BY DEF Record, At, Typed
<1>2. UNCHANGED <<vendor, keyed, sink, notes>>
  BY DEF Record
<1> DEFINE s == [span[c] EXCEPT !.state = "success"]
<1>3. /\ span' \in [Calls -> SpanRecord] /\ \A d \in Calls \ {c} : span'[d] = span[d]
      /\ span'[c].state = "success" /\ span'[c].usage = span[c].usage
      /\ span'[c].counted = span[c].counted /\ span'[c].retries = span[c].retries
  <2>1. s \in SpanRecord /\ span' = [span EXCEPT ![c] = s]
    BY <1>1 DEF SpanRecord, Record
  <2>2. s.state = "success" /\ s.usage = span[c].usage /\ s.counted = span[c].counted
        /\ s.retries = span[c].retries
    BY <1>1 DEF SpanRecord
  <2> QED
    BY <2>1, <2>2, NewSpan
<1>4. paid' \in SUBSET Texts
  BY <1>1 DEF Record, CallRecord, Typed
<1>5. CASE call[c].op = "explain" /\ Goto(c, "write")
  <2>1. /\ call' \in [Calls -> CallRecord] /\ Aside(c)
        /\ call'[c] \in CallRecord /\ call'[c].pc = "write" /\ SameRest(call'[c], call[c])
    BY <1>5, MovesOn DEF Stages
  <2>2. Tells(c, call'[c], span'[c], sink'[c])
    BY <1>1, <1>2, <1>3, <1>5, <2>1
  <2> QED
    BY <1>2, <1>3, <1>4, <2>1, <2>2 DEF KeepsOwn, Typed
<1>6. CASE Answer(c, "ok")
  <2>1. /\ call' \in [Calls -> CallRecord] /\ Aside(c)
        /\ call'[c] \in CallRecord /\ call'[c].pc = "finish" /\ call'[c].answer = "ok"
        /\ SameAsked(call'[c], call[c])
    BY <1>6, Ends DEF Codes
  <2>2. Tells(c, call'[c], span'[c], sink'[c])
    BY <1>1, <1>2, <1>3, <2>1
  <2> QED
    BY <1>2, <1>3, <1>4, <2>1, <2>2 DEF KeepsOwn, Typed
<1> QED
  BY <1>5, <1>6 DEF Record

LEMMA RecordFailsKeeps ==
  ASSUME Typed, NEW c \in Calls, Tells(c, call[c], span[c], sink[c]),
         RecordFails(c) \/ WriteFails(c)
  PROVE  KeepsOwn(c) /\ Aside(c)
<1> USE DEF Tells, BeforeAsking, OpenedSpan, Asking, HasResult, HasFailed, Counting, Answered,
            SameRest, SameAsked
<1>1. call[c].pc \in {"record", "write"} /\ Answer(c, "error")
  BY DEF RecordFails, WriteFails, At
<1>2. UNCHANGED <<vendor, keyed, sink, span, notes, paid>>
  BY DEF RecordFails, WriteFails
<1>3. /\ call' \in [Calls -> CallRecord] /\ Aside(c)
      /\ call'[c] \in CallRecord /\ call'[c].pc = "finish" /\ call'[c].answer = "error"
      /\ SameAsked(call'[c], call[c])
  BY <1>1, Ends DEF Codes
<1>4. Tells(c, call'[c], span[c], sink[c])
  BY <1>1, <1>3
<1> QED
  BY <1>2, <1>3, <1>4, CallAlone

LEMMA FinalizeKeeps ==
  ASSUME ProviderCallAssumption,
         Typed, NEW c \in Calls, Tells(c, call[c], span[c], sink[c]), Finalize(c)
  PROVE  KeepsOwn(c) /\ Aside(c)
<1> USE DEF Tells, BeforeAsking, OpenedSpan, Asking, HasResult, HasFailed, Counting, Answered,
            SameRest, SameAsked
<1>1. UNCHANGED <<vendor, keyed, notes, paid>>
  BY DEF Finalize
<1>2. call' \in [Calls -> CallRecord] /\ call'[c] = Fresh /\ Aside(c)
  BY FreshTyped, NewCall DEF Finalize
<1>3. span' \in [Calls -> SpanRecord] /\ span'[c] = NoSpan /\ \A d \in Calls \ {c} : span'[d] = span[d]
  BY FreshTyped, NewSpan DEF Finalize
<1>4. sink' \in [Calls -> SinkRecord] /\ sink'[c] = NoSink /\ \A d \in Calls \ {c} : sink'[d] = sink[d]
  BY FreshTyped, NewSink DEF Finalize
<1>5. Tells(c, Fresh, NoSpan, NoSink)
  BY DEF Fresh, ProviderCallAssumption
<1> QED
  BY <1>1, <1>2, <1>3, <1>4, <1>5 DEF KeepsOwn, Typed

LEMMA AttemptFailsKeeps ==
  ASSUME ProviderCallAssumption,
         Typed, NEW c \in Calls, Tells(c, call[c], span[c], sink[c]), AttemptFails(c)
  PROVE  KeepsOwn(c) /\ Aside(c)
<1> USE DEF Tells, BeforeAsking, OpenedSpan, Asking, HasResult, HasFailed, Counting, Answered,
            SameRest, SameAsked
<1>1. call[c].pc = "thread" /\ ~call[c].blank /\ call[c] \in CallRecord /\ vendor # "fake"
      /\ vendor \in {"groq", "gemini"}
  BY DEF AttemptFails, At, Typed, ProviderCallAssumption
<1>2. UNCHANGED <<vendor, keyed, span, notes, paid>>
  BY DEF AttemptFails
<1>3. PICK fault \in Faults :
        /\ Become(c, AfterFault(c, fault))
        /\ sink' = IF AfterFault(c, fault).got = "exhausted"
                   THEN [sink EXCEPT ![SinkOf(c)].retries = MaxAttempts - 1]
                   ELSE sink
  BY DEF AttemptFails
<1>4. fault \in AllFaults /\ (IsTransient(fault) => fault # "request")
  BY <1>1 DEF ProviderCallAssumption, IsTransient, GroqTransient, GeminiTransient
<1>5. call[c].asked + 1 \in Nat /\ call[c].met \cup {fault} \in SUBSET AllFaults
      /\ call[c].met \cup {fault} # {}
  BY <1>1, <1>4 DEF CallRecord
<1> DEFINE met == [call[c] EXCEPT !.asked = @ + 1, !.met = @ \cup {fault}]
<1>6. /\ met \in CallRecord /\ met.pc = "thread" /\ met.asked = call[c].asked + 1
      /\ met.met = call[c].met \cup {fault} /\ met.blank = call[c].blank /\ met.op = call[c].op
      /\ met.told = NoUsage /\ met.got = "none"
  BY <1>1, <1>5 DEF CallRecord
<1> HIDE DEF met
<1>7. sink' \in [Calls -> SinkRecord] /\ \A d \in Calls \ {c} : sink'[d] = sink[d]
  <2>1. CASE sink' = sink
    BY <2>1 DEF Typed
  <2>2. CASE sink' = [sink EXCEPT ![SinkOf(c)].retries = MaxAttempts - 1]
    <3> DEFINE k == [sink[c] EXCEPT !.retries = MaxAttempts - 1]
    <3>1. k \in SinkRecord
      <4>1. MaxAttempts - 1 \in Nat /\ sink[c] \in SinkRecord
        BY DEF ProviderCallAssumption, Typed
      <4> QED
        BY <4>1 DEF SinkRecord
    <3>2. sink' = [sink EXCEPT ![c] = k]
      BY <2>2 DEF SinkOf
    <3> QED
      BY <3>1, <3>2, NewSink
  <2> QED
    BY <1>3, <2>1, <2>2
<1>8. SUFFICES /\ AfterFault(c, fault) \in CallRecord
               /\ Tells(c, AfterFault(c, fault), span[c], sink'[c])
  BY <1>2, <1>3, <1>7, NewCall DEF KeepsOwn, Typed
<1>9. CASE ~IsTransient(fault)
  <2> DEFINE q == [met EXCEPT !.pc = "raised", !.got = "fault"]
  <2>1. q \in CallRecord
    BY <1>6 DEF CallRecord, Stages
  <2>2. /\ q.pc = "raised" /\ q.op = met.op /\ q.blank = met.blank /\ q.got = "fault"
        /\ q.asked = met.asked /\ q.met = met.met /\ q.told = met.told
    BY <1>6 DEF CallRecord
  <2>3. AfterFault(c, fault) = q
    BY <1>9 DEF AfterFault, met
  <2> HIDE DEF q
  <2>4. Tells(c, q, span[c], sink'[c])
    BY <1>1, <1>5, <1>6, <2>2 DEF CallRecord, ProviderCallAssumption
  <2> QED
    BY <2>1, <2>3, <2>4
<1>10. CASE IsTransient(fault) /\ met.asked = MaxAttempts
  <2> DEFINE q == [met EXCEPT !.pc = "raised", !.got = "exhausted"]
  <2>1. q \in CallRecord
    BY <1>6 DEF CallRecord, Stages
  <2>2. /\ q.pc = "raised" /\ q.op = met.op /\ q.blank = met.blank /\ q.got = "exhausted"
        /\ q.asked = met.asked /\ q.met = met.met /\ q.told = met.told
    BY <1>6 DEF CallRecord
  <2>3. AfterFault(c, fault) = q
    BY <1>10 DEF AfterFault, met
  <2> HIDE DEF q
  <2>4. Tells(c, q, span[c], sink'[c])
    BY <1>1, <1>4, <1>5, <1>6, <1>10, <2>2 DEF CallRecord, ProviderCallAssumption
  <2> QED
    BY <2>1, <2>3, <2>4
<1>11. CASE IsTransient(fault) /\ met.asked # MaxAttempts
  <2>1. AfterFault(c, fault) = met
    BY <1>11 DEF AfterFault, met
  <2>2. sink' = sink
    BY <1>3, <1>6, <2>1
  <2>3. Tells(c, met, span[c], sink[c])
    BY <1>1, <1>4, <1>5, <1>6, <1>11 DEF CallRecord, ProviderCallAssumption
  <2> QED
    BY <1>6, <2>1, <2>2, <2>3
<1> QED
  BY <1>9, <1>10, <1>11

LEMMA AttemptAnswersKeeps ==
  ASSUME ProviderCallAssumption,
         Typed, NEW c \in Calls, Tells(c, call[c], span[c], sink[c]), AttemptAnswers(c)
  PROVE  KeepsOwn(c) /\ Aside(c)
<1> USE DEF Tells, BeforeAsking, OpenedSpan, Asking, HasResult, HasFailed, Counting, Answered,
            SameRest, SameAsked
<1>1. call[c].pc = "thread" /\ ~call[c].blank /\ call[c] \in CallRecord
  BY DEF AttemptAnswers, At, Typed
<1>2. UNCHANGED <<vendor, keyed, span, notes, paid>>
  BY DEF AttemptAnswers
<1>3. PICK content \in {"full", "nothing", "garbage"}, usage \in {NoUsage, UsageOf(c)} :
        LET got == ResultOf(call[c].op, content)
        IN  /\ sink' = [sink EXCEPT ![SinkOf(c)] =
                          [usage   |-> IF usage = NoUsage THEN @.usage ELSE usage,
                           retries |-> call[c].asked]]
            /\ Become(c, [call[c] EXCEPT !.asked = @ + 1, !.told = usage, !.got = got,
                            !.pc = IF got = "fault" THEN "raised" ELSE "returned"])
  BY DEF AttemptAnswers
<1> DEFINE got == ResultOf(call[c].op, content)
           pc  == IF got = "fault" THEN "raised" ELSE "returned"
           q   == [call[c] EXCEPT !.asked = @ + 1, !.told = usage, !.got = got, !.pc = pc]
           k   == [usage |-> usage, retries |-> call[c].asked]
<1>4. got \in {"full", "empty", "fault"}
  BY DEF ResultOf, GroqResult, GroqParsed, GeminiResult, FakeResult
<1>5. usage \in Usages /\ usage \in {NoUsage, <<c, call[c].asked + 1>>}
  BY <1>1 DEF UsageOf, Usages, CallRecord
<1>6. pc \in Stages /\ call[c].asked + 1 \in Nat
  BY <1>1 DEF Stages, CallRecord
<1>7. k \in SinkRecord /\ k.usage = usage /\ k.retries = call[c].asked
  BY <1>1, <1>5 DEF SinkRecord, CallRecord
<1>8. sink' = [sink EXCEPT ![c] = k]
  <2>1. sink[c].usage = NoUsage
    BY <1>1 DEF NoSink
  <2>2. (IF usage = NoUsage THEN sink[c].usage ELSE usage) = usage
    BY <2>1
  <2>3. sink' = [sink EXCEPT ![c] = [usage   |-> IF usage = NoUsage THEN sink[c].usage ELSE usage,
                                     retries |-> call[c].asked]]
    BY <1>3 DEF SinkOf
  <2> QED
    BY <2>2, <2>3
<1>9. Become(c, q)
  BY <1>3
<1> HIDE DEF got, pc, k
<1>10. /\ q \in CallRecord
       /\ q.pc = pc /\ q.asked = call[c].asked + 1 /\ q.told = usage /\ q.got = got
       /\ q.op = call[c].op /\ q.blank = call[c].blank /\ q.met = call[c].met
  BY <1>1, <1>4, <1>5, <1>6 DEF CallRecord
<1> HIDE DEF q
<1>11. call' \in [Calls -> CallRecord] /\ call'[c] = q /\ Aside(c)
  BY <1>9, <1>10, NewCall
<1>12. sink' \in [Calls -> SinkRecord] /\ sink'[c] = k /\ \A d \in Calls \ {c} : sink'[d] = sink[d]
  BY <1>7, <1>8, NewSink
<1>13. Tells(c, q, span[c], k)
  <2>1. pc \in {"raised", "returned"} /\ (pc = "raised" <=> got = "fault")
    BY DEF pc
  <2> QED
    BY <1>1, <1>4, <1>5, <1>7, <1>10, <2>1 DEF CallRecord, ProviderCallAssumption
<1> QED
  BY <1>2, <1>11, <1>12, <1>13 DEF KeepsOwn, Typed

LEMMA ReturnedKeeps ==
  ASSUME Typed, NEW c \in Calls, Tells(c, call[c], span[c], sink[c]), Returned(c)
  PROVE  KeepsOwn(c) /\ Aside(c)
<1> USE DEF Tells, BeforeAsking, OpenedSpan, Asking, HasResult, HasFailed, Counting, Answered,
            SameRest, SameAsked
<1>1. /\ call[c].pc = "returned" /\ call[c] \in CallRecord
      /\ span[c] \in SpanRecord /\ sink[c] \in SinkRecord
  BY DEF Returned, At, Typed
<1>2. UNCHANGED <<vendor, keyed, sink, notes, paid>>
  BY DEF Returned
<1> DEFINE s == [span[c] EXCEPT !.usage = sink[c].usage, !.retries = sink[c].retries,
                                !.counted = sink[c].usage]
<1>3. s \in SpanRecord /\ s.state = span[c].state /\ s.usage = sink[c].usage
      /\ s.counted = sink[c].usage /\ s.retries = sink[c].retries
  BY <1>1 DEF SpanRecord, SinkRecord
<1>4. span' = [span EXCEPT ![c] = s]
  BY DEF Returned, SinkOf, RecordTokens
<1> HIDE DEF s
<1>5. span' \in [Calls -> SpanRecord] /\ span'[c] = s /\ \A d \in Calls \ {c} : span'[d] = span[d]
  BY <1>3, <1>4, NewSpan
<1>6. CASE call[c].op = "generate" /\ call[c].got = "empty" /\ Answer(c, "ok")
  <2>1. /\ call' \in [Calls -> CallRecord] /\ Aside(c)
        /\ call'[c] \in CallRecord /\ call'[c].pc = "finish" /\ call'[c].answer = "ok"
        /\ SameAsked(call'[c], call[c])
    BY <1>6, Ends DEF Codes
  <2>2. Tells(c, call'[c], span'[c], sink'[c])
    BY <1>1, <1>2, <1>3, <1>5, <2>1
  <2> QED
    BY <1>2, <1>5, <2>1, <2>2 DEF KeepsOwn, Typed
<1>7. CASE ~(call[c].op = "generate" /\ call[c].got = "empty") /\ Goto(c, "record")
  <2>1. /\ call' \in [Calls -> CallRecord] /\ Aside(c)
        /\ call'[c] \in CallRecord /\ call'[c].pc = "record" /\ SameRest(call'[c], call[c])
    BY <1>7, MovesOn DEF Stages
  <2>2. call[c].asked > 0
    BY <1>1, <1>7 DEF CallRecord
  <2>3. Tells(c, call'[c], span'[c], sink'[c])
    BY <1>1, <1>2, <1>3, <1>5, <2>1, <2>2
  <2> QED
    BY <1>2, <1>5, <2>1, <2>3 DEF KeepsOwn, Typed
<1> QED
  BY <1>6, <1>7 DEF Returned, AfterResult

LEMMA WriteNotesKeeps ==
  ASSUME Typed, EachTells, NEW c \in Calls, WriteNotes(c)
  PROVE  KeepsOwn(c) /\ \A d \in Calls : Tells(d, call'[d], span'[d], sink'[d])
<1> USE DEF Tells, BeforeAsking, OpenedSpan, Asking, HasResult, HasFailed, Counting, Answered,
            SameRest, SameAsked
<1>1. UNCHANGED <<vendor, keyed, sink, span, paid>>
  BY DEF WriteNotes
<1>2. notes' \in [Cards -> SUBSET Texts]
  BY DEF WriteNotes, Written, NewNotes, Typed, CallRecord
<1>3. /\ call'[c] \in CallRecord /\ Tells(c, call'[c], span[c], sink[c])
  <2> DEFINE q == Closing(call[c], "ok")
  <2>1. call[c] \in CallRecord /\ call[c].pc = "write" /\ Tells(c, call[c], span[c], sink[c])
    BY DEF Typed, WriteNotes, At, EachTells
  <2>2. "ok" \in Codes
    BY DEF Codes
  <2>3. q \in CallRecord /\ q.pc = "finish" /\ q.answer = "ok" /\ SameAsked(q, call[c])
    BY <2>1, <2>2, ClosingTyped
  <2>4. call'[c] = q
    BY DEF WriteNotes
  <2> HIDE DEF q
  <2> QED
    BY <2>1, <2>3, <2>4
<1>4. ASSUME NEW d \in Calls \ {c}
      PROVE  call'[d] \in CallRecord /\ Tells(d, call'[d], span[d], sink[d])
  <2> DEFINE since == IF UnderWay(d) THEN call[d].since \cup UNION {notes'[k] \ notes[k] : k \in Cards}
                      ELSE call[d].since
             q == [call[d] EXCEPT !.since = since]
  <2>1. call[d] \in CallRecord /\ Tells(d, call[d], span[d], sink[d])
    BY DEF Typed, EachTells
  <2>2. since \in SUBSET Texts
    <3>1. UNION {notes'[k] \ notes[k] : k \in Cards} \in SUBSET Texts
      BY <1>2
    <3> QED
      BY <2>1, <3>1 DEF CallRecord
  <2>3. call'[d] = q
    BY DEF WriteNotes
  <2> HIDE DEF since
  <2>4. /\ q \in CallRecord /\ q.pc = call[d].pc /\ q.op = call[d].op /\ q.blank = call[d].blank
        /\ q.asked = call[d].asked /\ q.met = call[d].met /\ q.told = call[d].told
        /\ q.got = call[d].got /\ q.answer = call[d].answer
    BY <2>1, <2>2 DEF CallRecord
  <2> HIDE DEF q
  <2> QED
    BY <2>1, <2>3, <2>4
<1>5. call' \in [Calls -> CallRecord]
  <2>1. call' = [d \in Calls |-> call'[d]]
    BY DEF WriteNotes
  <2> QED
    BY <1>3, <1>4, <2>1
<1> QED
  BY <1>1, <1>2, <1>3, <1>4, <1>5 DEF KeepsOwn, Typed

(* One of the operations for one call.                                     *)
Operation(c) ==
  \/ Serve(c)
  \/ \E op \in {"explain", "generate", "suggest"}, word \in Texts, blank \in BOOLEAN :
       (blank => op = "generate") /\ Start(c, op, word, blank)

(* A step that is no card being saved is that.                             *)
LEMMA StepsOfOne ==
  ASSUME Next, ~\E k \in Cards, with \in SUBSET Words : SaveCard(k, with)
  PROVE  \E c \in Calls : Operation(c) /\ UNCHANGED <<saved, given, beside>>
BY DEF Next, Requested, Texts, Operation

(* A card that is saved changes nothing of the calls.                      *)
LEMMA SaveCardKeeps ==
  ASSUME Typed, EachTells, CardsTyped, NEW k \in Cards, NEW with \in SUBSET Words, SaveCard(k, with)
  PROVE  Typed' /\ EachTells' /\ CardsTyped'
<1>1. UNCHANGED <<vendor, keyed, call, sink, span, paid>>
  BY DEF SaveCard
<1>2. with \in SUBSET Texts
  BY DEF Texts
<1>3. Typed'
  BY <1>1, <1>2 DEF SaveCard, Typed
<1>4. EachTells'
  BY <1>1 DEF EachTells, Tells, BeforeAsking, OpenedSpan, Asking, HasResult, HasFailed, Counting,
              Answered, HasKey
<1>5. CardsTyped'
  BY <1>2 DEF SaveCard, CardsTyped
<1> QED
  BY <1>3, <1>4, <1>5

(* A step leaves what the other calls know as it was.                      *)
LEMMA OthersStand ==
  ASSUME EachTells, NEW c \in Calls, KeepsOwn(c), Aside(c)
  PROVE  EachTells'
<1>1. \A d \in Calls : Tells(d, call'[d], span'[d], sink'[d])
  BY DEF EachTells, KeepsOwn, Aside
<1> QED
  BY <1>1 DEF EachTells, KeepsOwn, Tells, BeforeAsking, OpenedSpan, Asking, HasResult, HasFailed,
              Counting, Answered, HasKey

LEMMA TellsInit ==
  ASSUME ProviderCallAssumption, Init
  PROVE  Typed /\ EachTells /\ CardsTyped
<1>1. Typed /\ CardsTyped
  BY FreshTyped DEF Init, Typed, CardsTyped, Texts
<1>2. \A c \in Calls : Tells(c, Fresh, NoSpan, NoSink)
  BY DEF Tells, BeforeAsking, OpenedSpan, Asking, HasResult, HasFailed, Counting, Answered, Fresh,
         ProviderCallAssumption
<1> QED
  BY <1>1, <1>2 DEF EachTells, Init

LEMMA TellsStep ==
  ASSUME ProviderCallAssumption, Typed, EachTells, CardsTyped, [Next]_vars
  PROVE  Typed' /\ EachTells' /\ CardsTyped'
<1>1. CASE UNCHANGED vars
  BY <1>1 DEF vars, Typed, CardsTyped, EachTells, Tells, BeforeAsking, OpenedSpan, Asking,
              HasResult, HasFailed, Counting, Answered, HasKey
<1>2. CASE \E k \in Cards, with \in SUBSET Words : SaveCard(k, with)
  <2>1. PICK k \in Cards, with \in SUBSET Words : SaveCard(k, with)
    BY <1>2
  <2> QED
    BY <2>1, SaveCardKeeps
<1>3. CASE Next /\ ~\E k \in Cards, with \in SUBSET Words : SaveCard(k, with)
  <2>1. PICK c \in Calls : Operation(c) /\ UNCHANGED <<saved, given, beside>>
    BY <1>3, StepsOfOne
  <2>2. Tells(c, call[c], span[c], sink[c])
    BY DEF EachTells
  <2>3. ASSUME WriteNotes(c) PROVE Typed' /\ EachTells'
    <3>1. KeepsOwn(c) /\ \A d \in Calls : Tells(d, call'[d], span'[d], sink'[d])
      BY <2>3, WriteNotesKeeps
    <3> QED
      BY <3>1 DEF EachTells, KeepsOwn, Tells, BeforeAsking, OpenedSpan, Asking, HasResult,
                  HasFailed, Counting, Answered, HasKey
  <2>4. ASSUME ~WriteNotes(c) PROVE Typed' /\ EachTells'
    <3>1. KeepsOwn(c) /\ Aside(c)
      BY <2>1, <2>2, <2>4, StartKeeps, LookUpNoteKeeps, LookUpPreviewKeeps, CheckKeeps,
         PrepareKeeps, DispatchKeeps, AcquireKeeps, AcquireTimeoutKeeps, NothingToAskKeeps,
         AttemptFailsKeeps, AttemptAnswersKeeps, ReturnedKeeps, RaisedKeeps, RecordKeeps,
         RecordFailsKeeps, FinalizeKeeps
      DEF Operation, Serve
    <3> QED
      BY <3>1, OthersStand DEF KeepsOwn
  <2>5. CardsTyped'
    BY <2>1 DEF CardsTyped
  <2> QED
    BY <2>3, <2>4, <2>5
<1> QED
  BY <1>1, <1>2, <1>3

LEMMA TellsInvariant ==
  ASSUME ProviderCallAssumption
  PROVE  Spec => [](Typed /\ EachTells /\ CardsTyped)
<1>1. Init => Typed /\ EachTells /\ CardsTyped
  BY TellsInit
<1>2. Typed /\ EachTells /\ CardsTyped /\ [Next]_vars => (Typed /\ EachTells /\ CardsTyped)'
  BY TellsStep
<1> QED
  BY <1>1, <1>2, PTL DEF Spec

(* What a call told its span and what was counted for it is the usage of   *)
(* its own last request, however many calls run at the same time.          *)
THEOREM SpansTellTheirCalls ==
  ASSUME ProviderCallAssumption
  PROVE  Spec => []SpanTellsOwnCall
<1>1. ASSUME Typed, EachTells PROVE SpanTellsOwnCall
  <2> SUFFICES ASSUME NEW c \in Calls
      PROVE  /\ span[c].counted # NoUsage =>
                  span[c].counted = <<c, call[c].asked>> /\ call[c].got \in {"full", "empty"}
             /\ span[c].state = "success" =>
                  /\ span[c].usage = call[c].told
                  /\ span[c].counted = call[c].told
                  /\ span[c].retries = call[c].asked - 1
    BY DEF SpanTellsOwnCall
  <2>1. Tells(c, call[c], span[c], sink[c]) /\ call[c].pc \in Stages
    BY <1>1 DEF EachTells, Typed, CallRecord
  <2> QED
    BY <2>1 DEF Tells, OpenedSpan, Counting, Answered, Stages, NoSpan
<1> QED
  BY <1>1, TellsInvariant, PTL

(* "Try again in a moment" answers calls that found no permit or only      *)
(* temporary faults, as often as the retries allow, and no other; what is  *)
(* free, refused or missing asked nobody; without a key there are only     *)
(* errors.                                                                 *)
THEOREM AnswersAreHonest ==
  ASSUME ProviderCallAssumption
  PROVE  Spec => []AnswersTellFaults
<1>1. ASSUME Typed, EachTells PROVE AnswersTellFaults
  <2>1. vendor \in {"groq", "gemini", "fake"}
    BY <1>1 DEF Typed, ProviderCallAssumption
  <2>2. ASSUME NEW c \in Calls, Ended(c)
        PROVE  /\ Tells(c, call[c], span[c], sink[c]) /\ call[c].pc = "finish"
               /\ call[c].asked \in 0 .. MaxAttempts
    <3>1. Tells(c, call[c], span[c], sink[c]) /\ call[c].pc = "finish" /\ call[c].asked \in Nat
      BY <1>1, <2>2 DEF EachTells, Ended, Typed, CallRecord
    <3> QED
      BY <3>1 DEF Tells, ProviderCallAssumption
  <2> QED
    BY <2>1, <2>2 DEF AnswersTellFaults, Tells, Answered, HasKey
<1> QED
  BY <1>1, TellsInvariant, PTL
-----------------------------------------------------------------------------
(* The cards of the sentence: what each was saved with is on it, what else *)
(* is there was counted, and is on the older cards as well.                *)
CardsKnown ==
  /\ \A k \in Cards \ saved : notes[k] = {}
  /\ \A k \in saved :
       /\ beside[k] \subseteq saved
       /\ notes[k] \subseteq given[k] \cup paid
       /\ given[k] \subseteq notes[k]
       /\ \A older \in beside[k] : notes[k] \ given[k] \subseteq notes[older]

(* What an explanation under way knows of a card it has read: the same of  *)
(* the notes as they were read; what else is there by now appeared since.  *)
CardRead(c, k) ==
  /\ call[c].read[k] \subseteq given[k] \cup paid
  /\ given[k] \subseteq call[c].read[k]
  /\ notes[k] \subseteq call[c].read[k] \cup call[c].since
  /\ beside[k] \subseteq call[c].seen
  /\ \A older \in beside[k] : call[c].read[k] \ given[k] \subseteq call[c].read[older]

(* And of the cards: a card it has not read was saved while it was under   *)
(* way, so that nothing is said of the cards beside it.                    *)
HasRead(c) ==
  UnderWay(c) =>
    /\ call[c].seen \subseteq saved
    /\ \A k \in call[c].seen : CardRead(c, k)
    /\ \A k \in saved \ call[c].seen : beside[k] = {}
    /\ At(c, "write") => call[c].word \in paid

NotesKnown == CardsKnown /\ \A c \in Calls : HasRead(c)

(* A step that writes no notes keeps the notes and what was counted, and   *)
(* the call it is about keeps what it has read, reads it now or is over.   *)
KeepsRead(c) ==
  /\ notes' = notes /\ paid \subseteq paid'
  /\ \/ SameCards(call'[c], call[c]) /\ (UnderWay(c)' => UnderWay(c))
     \/ call'[c].read = notes /\ call'[c].seen = saved
     \/ ~UnderWay(c)'
  /\ call'[c].pc = "write" => call'[c].word \in paid'

LEMMA AnswerKeepsRead ==
  ASSUME Typed, NEW c \in Calls, NEW code \in Codes, Answer(c, code),
         notes' = notes, paid \subseteq paid'
  PROVE  KeepsRead(c)
<1>1. call'[c].pc = "finish"
  BY Ends
<1> QED
  BY <1>1 DEF KeepsRead, UnderWay

LEMMA MoveKeepsRead ==
  ASSUME Typed, NEW c \in Calls, NEW stage \in Stages, Goto(c, stage),
         call[c].op = "explain" => call[c].pc \notin {"cache", "finish", "done"},
         stage = "write" => call[c].word \in paid',
         notes' = notes, paid \subseteq paid'
  PROVE  KeepsRead(c)
<1>1. call'[c].pc = stage /\ SameRest(call'[c], call[c])
  BY MovesOn
<1> QED
  BY <1>1 DEF KeepsRead, SameRest, SameAsked, UnderWay

LEMMA AttemptKeepsRead ==
  ASSUME Typed, NEW c \in Calls,
         NothingToAsk(c) \/ AttemptFails(c) \/ AttemptAnswers(c)
  PROVE  KeepsRead(c)
<1>1. call[c] \in CallRecord /\ call[c].pc = "thread" /\ notes' = notes /\ paid' = paid
  BY DEF Typed, NothingToAsk, AttemptFails, AttemptAnswers, At
<1>2. ASSUME NEW n, NEW met, NEW told, NEW got, NEW pc \in {"thread", "raised", "returned"},
             Become(c, [call[c] EXCEPT !.asked = n, !.met = met, !.told = told, !.got = got,
                                       !.pc = pc])
      PROVE  KeepsRead(c)
  <2> DEFINE q == [call[c] EXCEPT !.asked = n, !.met = met, !.told = told, !.got = got, !.pc = pc]
  <2>1. /\ q.pc = pc /\ q.op = call[c].op
        /\ SameCards(q, call[c])
    BY <1>1 DEF CallRecord, SameCards
  <2>2. call'[c] = q
    BY <1>2 DEF Become, Typed
  <2> QED
    BY <1>1, <2>1, <2>2 DEF KeepsRead, UnderWay
<1>3. CASE NothingToAsk(c)
  <2>1. Become(c, [call[c] EXCEPT !.asked = call[c].asked, !.met = call[c].met, !.told = call[c].told,
                                  !.got = "empty", !.pc = "returned"])
    BY <1>1, <1>3 DEF NothingToAsk, Become, Return, CallRecord
  <2> QED
    BY <1>2, <2>1
<1>4. CASE AttemptFails(c)
  <2>1. PICK fault \in Faults : Become(c, AfterFault(c, fault))
    BY <1>4 DEF AttemptFails
  <2> DEFINE met == [call[c] EXCEPT !.asked = @ + 1, !.met = @ \cup {fault}]
  <2>2. AfterFault(c, fault) \in {met, [met EXCEPT !.pc = "raised", !.got = "fault"],
                                  [met EXCEPT !.pc = "raised", !.got = "exhausted"]}
    BY DEF AfterFault
  <2>3. /\ AfterFault(c, fault).pc \in {"thread", "raised"}
        /\ AfterFault(c, fault).op = call[c].op
        /\ SameCards(AfterFault(c, fault), call[c])
    BY <1>1, <2>2 DEF CallRecord, SameCards
  <2>4. call'[c] = AfterFault(c, fault)
    BY <2>1 DEF Become, Typed
  <2> QED
    BY <1>1, <2>3, <2>4 DEF KeepsRead, UnderWay
<1>5. CASE AttemptAnswers(c)
  <2>1. PICK content \in {"full", "nothing", "garbage"}, usage \in {NoUsage, UsageOf(c)} :
          LET got == ResultOf(call[c].op, content)
          IN  Become(c, [call[c] EXCEPT !.asked = @ + 1, !.told = usage, !.got = got,
                           !.pc = IF got = "fault" THEN "raised" ELSE "returned"])
    BY <1>5 DEF AttemptAnswers
  <2> DEFINE got == ResultOf(call[c].op, content)
             pc  == IF got = "fault" THEN "raised" ELSE "returned"
  <2>2. Become(c, [call[c] EXCEPT !.asked = call[c].asked + 1, !.told = usage, !.got = got, !.pc = pc])
    BY <2>1
  <2>3. pc \in {"thread", "raised", "returned"}
    OBVIOUS
  <2> HIDE DEF got, pc
  <2>4. Become(c, [call[c] EXCEPT !.asked = call[c].asked + 1, !.met = call[c].met, !.told = usage,
                                  !.got = got, !.pc = pc])
    BY <1>1, <2>2 DEF Become, CallRecord
  <2> QED
    BY <1>2, <2>3, <2>4
<1> QED
  BY <1>3, <1>4, <1>5

LEMMA LookKeepsRead ==
  ASSUME Typed, NEW c \in Calls, LookUpNote(c) \/ LookUpPreview(c)
  PROVE  KeepsRead(c)
<1>1. notes' = notes /\ paid' = paid /\ call[c] \in CallRecord
  BY DEF LookUpNote, LookUpPreview, Typed
<1>2. ASSUME NEW code \in {"missing", "free"}, Answer(c, code) PROVE KeepsRead(c)
  BY <1>1, <1>2, AnswerKeepsRead DEF Codes
<1>3. CASE LookUpNote(c)
  <2>1. CASE Become(c, [call[c] EXCEPT !.pc = "gate", !.seen = saved, !.read = notes])
    <3> DEFINE q == [call[c] EXCEPT !.pc = "gate", !.seen = saved, !.read = notes]
    <3>1. q.pc = "gate" /\ q.read = notes /\ q.seen = saved
      BY <1>1 DEF CallRecord
    <3>2. call'[c] = q
      BY <2>1 DEF Become, Typed
    <3> QED
      BY <1>1, <3>1, <3>2 DEF KeepsRead
  <2> QED
    BY <1>2, <1>3, <2>1 DEF LookUpNote
<1>4. CASE LookUpPreview(c)
  <2>1. CASE Goto(c, "gate")
    <3>1. call[c].op # "explain" /\ "gate" \in Stages
      BY <1>4 DEF LookUpPreview, Stages
    <3> QED
      BY <1>1, <2>1, <3>1, MoveKeepsRead
  <2> QED
    BY <1>2, <1>4, <2>1 DEF LookUpPreview
<1> QED
  BY <1>3, <1>4

LEMMA StartKeepsRead ==
  ASSUME Typed, NEW c \in Calls, NEW op, NEW word, NEW blank, Start(c, op, word, blank)
  PROVE  KeepsRead(c)
<1>1. notes' = notes /\ paid' = paid
  BY DEF Start
<1> DEFINE asking == [Fresh EXCEPT !.op = op, !.word = word, !.blank = blank]
           q == IF HasKey THEN [asking EXCEPT !.pc = FirstStage(op)]
                          ELSE [asking EXCEPT !.pc = "finish", !.answer = "error"]
<1>2. call'[c] = q
  BY DEF Start, Become, Typed
<1>3. q.op = op /\ q.pc \in {"finish", FirstStage(op)}
  BY DEF Fresh
<1>4. FirstStage(op) \in {"gate", "cache"} /\ (op = "explain" => FirstStage(op) = "cache")
  BY DEF FirstStage
<1> HIDE DEF q
<1> QED
  BY <1>1, <1>2, <1>3, <1>4 DEF KeepsRead, UnderWay

LEMMA StepKeepsRead ==
  ASSUME Typed, EachTells, NEW c \in Calls, Serve(c), ~WriteNotes(c)
  PROVE  KeepsRead(c)
<1>1. CASE LookUpNote(c) \/ LookUpPreview(c)
  BY <1>1, LookKeepsRead
<1>2. CASE Check(c) \/ Prepare(c) \/ Dispatch(c) \/ Acquire(c) \/ Returned(c)
  <2>1. /\ call[c].pc \in {"gate", "prepare", "dispatch", "queued", "returned"}
        /\ notes' = notes /\ paid' = paid
    BY <1>2 DEF Check, Prepare, Dispatch, Acquire, Returned, At
  <2>2. \/ \E code \in {"refused", "missing", "ok"} : Answer(c, code)
        \/ \E stage \in {"prepare", "dispatch", "queued", "thread", "record"} : Goto(c, stage)
    BY <1>2 DEF Check, Prepare, Dispatch, Acquire, Returned, AfterResult
  <2>3. ASSUME NEW code \in {"refused", "missing", "ok"}, Answer(c, code) PROVE KeepsRead(c)
    BY <2>1, <2>3, AnswerKeepsRead DEF Codes
  <2>4. ASSUME NEW stage \in {"prepare", "dispatch", "queued", "thread", "record"}, Goto(c, stage)
        PROVE  KeepsRead(c)
    BY <2>1, <2>4, MoveKeepsRead DEF Stages
  <2> QED
    BY <2>2, <2>3, <2>4
<1>3. CASE AcquireTimeout(c) \/ Raised(c) \/ RecordFails(c) \/ WriteFails(c)
  <2>1. PICK code \in {"busy", "error"} : Answer(c, code)
    BY <1>3 DEF AcquireTimeout, Raised, RecordFails, WriteFails
  <2> QED
    BY <1>3, <2>1, AnswerKeepsRead DEF Codes, AcquireTimeout, Raised, RecordFails, WriteFails
<1>4. CASE NothingToAsk(c) \/ AttemptFails(c) \/ AttemptAnswers(c)
  BY <1>4, AttemptKeepsRead
<1>5. CASE Record(c)
  <2>1. notes' = notes /\ paid \subseteq paid' /\ call[c].pc = "record"
        /\ (call[c].op = "explain" => call[c].word \in paid')
    BY <1>5 DEF Record, At
  <2>2. CASE call[c].op = "explain" /\ Goto(c, "write")
    BY <2>1, <2>2, MoveKeepsRead DEF Stages
  <2>3. CASE Answer(c, "ok")
    BY <2>1, <2>3, AnswerKeepsRead DEF Codes
  <2> QED
    BY <1>5, <2>2, <2>3 DEF Record
<1>6. CASE Finalize(c)
  <2>1. call'[c] = Fresh /\ notes' = notes /\ paid' = paid
    BY <1>6 DEF Finalize, Become, Typed
  <2> QED
    BY <2>1 DEF Fresh, KeepsRead, UnderWay
<1> QED
  BY <1>1, <1>2, <1>3, <1>4, <1>5, <1>6 DEF Serve

LEMMA NotesStepAlone ==
  ASSUME NotesKnown, CardsTyped, NEW c \in Calls, KeepsRead(c), Aside(c),
         UNCHANGED <<saved, given, beside>>
  PROVE  NotesKnown'
<1>1. notes' = notes /\ paid \subseteq paid' /\ saved' = saved /\ given' = given /\ beside' = beside
  BY DEF KeepsRead
<1>2. CardsKnown'
  BY <1>1 DEF NotesKnown, CardsKnown
<1>3. ASSUME NEW d \in Calls PROVE HasRead(d)'
  <2>1. CASE d = c
    <3>1. CASE SameCards(call'[c], call[c]) /\ (UnderWay(c)' => UnderWay(c))
      BY <1>1, <2>1, <3>1 DEF KeepsRead, NotesKnown, HasRead, CardRead, SameCards, At
    <3>2. CASE call'[c].read = notes /\ call'[c].seen = saved
      BY <1>1, <2>1, <3>2 DEF KeepsRead, NotesKnown, CardsKnown, HasRead, CardRead, At
    <3>3. CASE ~UnderWay(c)'
      BY <2>1, <3>3 DEF HasRead
    <3> QED
      BY <3>1, <3>2, <3>3 DEF KeepsRead
  <2>2. CASE d # c
    <3>1. call'[d] = call[d]
      BY <2>2 DEF Aside
    <3> QED
      BY <1>1, <3>1 DEF NotesKnown, HasRead, CardRead, UnderWay, At
  <2> QED
    BY <2>1, <2>2
<1> QED
  BY <1>2, <1>3 DEF NotesKnown

(* A card that is saved has the notes it is saved with, and is beside the  *)
(* others only for explanations that will read it.                         *)
LEMMA NotesStepSaved ==
  ASSUME Typed, CardsTyped, NotesKnown,
         NEW k \in Cards, NEW with \in SUBSET Words, SaveCard(k, with)
  PROVE  NotesKnown'
<1>1. /\ k \notin saved /\ saved' = saved \cup {k} /\ call' = call /\ paid' = paid
      /\ notes'[k] = with /\ given'[k] = with
      /\ beside'[k] = (IF \E c \in Calls : UnderWay(c) THEN {} ELSE saved)
  BY DEF SaveCard, Typed, CardsTyped
<1>2. \A j \in Cards \ {k} : notes'[j] = notes[j] /\ given'[j] = given[j] /\ beside'[j] = beside[j]
  BY DEF SaveCard, Typed, CardsTyped
<1>3. saved \subseteq Cards
  BY DEF CardsTyped
<1>4. CardsKnown'
  <2>1. \A j \in Cards \ saved' : notes'[j] = {}
    BY <1>1, <1>2 DEF NotesKnown, CardsKnown
  <2>2. ASSUME NEW j \in saved'
        PROVE  /\ beside'[j] \subseteq saved'
               /\ notes'[j] \subseteq given'[j] \cup paid'
               /\ given'[j] \subseteq notes'[j]
               /\ \A older \in beside'[j] : notes'[j] \ given'[j] \subseteq notes'[older]
    <3>1. CASE j = k
      BY <1>1, <3>1
    <3>2. CASE j # k
      <4>1. j \in saved /\ beside[j] \subseteq saved
        BY <1>1, <3>2 DEF NotesKnown, CardsKnown
      <4>2. \A older \in beside[j] : older \in Cards \ {k}
        BY <1>1, <1>3, <4>1
      <4> QED
        BY <1>1, <1>2, <1>3, <3>2, <4>1, <4>2 DEF NotesKnown, CardsKnown
    <3> QED
      BY <3>1, <3>2
  <2> QED
    BY <2>1, <2>2 DEF CardsKnown
<1>5. ASSUME NEW c \in Calls, UnderWay(c)
      PROVE  /\ call[c].seen \subseteq saved'
             /\ \A j \in call[c].seen : CardRead(c, j)'
             /\ \A j \in saved' \ call[c].seen : beside'[j] = {}
             /\ At(c, "write") => call[c].word \in paid'
  <2>1. /\ call[c].seen \subseteq saved
        /\ \A j \in call[c].seen : CardRead(c, j)
        /\ \A j \in saved \ call[c].seen : beside[j] = {}
        /\ At(c, "write") => call[c].word \in paid
    BY <1>5 DEF NotesKnown, HasRead
  <2>2. ASSUME NEW j \in call[c].seen PROVE CardRead(c, j)'
    <3>1. j \in Cards \ {k} /\ CardRead(c, j)
      BY <1>1, <1>3, <2>1
    <3> QED
      BY <1>1, <1>2, <3>1 DEF CardRead
  <2>3. beside'[k] = {}
    BY <1>1, <1>5
  <2>4. ASSUME NEW j \in saved' \ call[c].seen PROVE beside'[j] = {}
    BY <1>1, <1>2, <1>3, <2>1, <2>3
  <2> QED
    BY <1>1, <2>1, <2>2, <2>4
<1>6. \A c \in Calls : HasRead(c)'
  BY <1>1, <1>5 DEF HasRead, UnderWay, At
<1> QED
  BY <1>4, <1>6 DEF NotesKnown

(* The explanation that is written puts its note on every card it has      *)
(* read; the others under way are told what appeared.                      *)
LEMMA NotesStepWritten ==
  ASSUME Typed, EachTells, CardsTyped, NotesKnown, NEW c \in Calls, WriteNotes(c),
         UNCHANGED <<saved, given, beside>>
  PROVE  NotesKnown'
<1>1. /\ call[c] \in CallRecord /\ call[c].pc = "write" /\ UnderWay(c)
      /\ paid' = paid /\ saved' = saved /\ given' = given /\ beside' = beside
  BY DEF WriteNotes, At, Typed, EachTells, Tells, Counting, UnderWay
<1>2. /\ call[c].seen \subseteq saved
      /\ \A k \in call[c].seen : CardRead(c, k)
      /\ \A k \in saved \ call[c].seen : beside[k] = {}
      /\ call[c].word \in paid
  BY <1>1 DEF NotesKnown, HasRead, At
<1>3. saved \subseteq Cards
  BY DEF CardsTyped
<1>4. /\ \A k \in call[c].seen : notes'[k] = call[c].read[k] \cup {call[c].word}
      /\ \A k \in Cards \ call[c].seen : notes'[k] = notes[k]
  BY <1>2, <1>3 DEF WriteNotes, Written, NewNotes
<1>5. CardsKnown'
  <2>1. \A k \in Cards \ saved : notes'[k] = {}
    BY <1>2, <1>4 DEF NotesKnown, CardsKnown
  <2>2. ASSUME NEW k \in saved
        PROVE  /\ notes'[k] \subseteq given[k] \cup paid
               /\ given[k] \subseteq notes'[k]
               /\ \A older \in beside[k] : notes'[k] \ given[k] \subseteq notes'[older]
    <3>1. CASE k \in call[c].seen
      <4>1. CardRead(c, k)
        BY <1>2, <3>1
      <4>2. \A older \in beside[k] : older \in call[c].seen
        BY <4>1 DEF CardRead
      <4> QED
        BY <1>2, <1>4, <3>1, <4>1, <4>2 DEF CardRead
    <3>2. CASE k \notin call[c].seen
      <4>1. beside[k] = {} /\ notes'[k] = notes[k]
        BY <1>2, <1>3, <1>4, <3>2
      <4> QED
        BY <4>1 DEF NotesKnown, CardsKnown
    <3> QED
      BY <3>1, <3>2
  <2>3. \A k \in saved : beside[k] \subseteq saved
    BY DEF NotesKnown, CardsKnown
  <2> QED
    BY <1>1, <2>1, <2>2, <2>3 DEF CardsKnown
<1>6. ASSUME NEW d \in Calls PROVE HasRead(d)'
  <2>1. CASE d = c
    <3>1. call'[d].pc = "finish"
      BY <1>1, <2>1, ClosingTyped DEF WriteNotes, Codes
    <3> QED
      BY <3>1 DEF HasRead, UnderWay
  <2>2. CASE d # c
    <3> DEFINE new == UNION {notes'[k] \ notes[k] : k \in Cards}
               since == IF UnderWay(d) THEN call[d].since \cup new ELSE call[d].since
               q == [call[d] EXCEPT !.since = since]
    <3>1. call[d] \in CallRecord
      BY DEF Typed
    <3>2. call'[d] = q
      BY <2>2 DEF WriteNotes
    <3> HIDE DEF since
    <3>3. /\ q.pc = call[d].pc /\ q.op = call[d].op /\ q.word = call[d].word
          /\ q.seen = call[d].seen /\ q.read = call[d].read /\ q.since = since
      BY <3>1 DEF CallRecord
    <3> HIDE DEF q
    <3>4. ASSUME UnderWay(d), NEW k \in call[d].seen
          PROVE  notes'[k] \subseteq call[d].read[k] \cup since
      <4>1. k \in Cards /\ notes[k] \subseteq call[d].read[k] \cup call[d].since
        BY <1>3, <3>4 DEF NotesKnown, HasRead, CardRead
      <4>2. ASSUME NEW w \in notes'[k], w \notin notes[k] PROVE w \in since
        <5>1. w \in new
          BY <4>1, <4>2
        <5> QED
          BY <3>4, <5>1 DEF since
      <4>3. call[d].since \subseteq since
        BY DEF since
      <4> QED
        BY <4>1, <4>2, <4>3
    <3>5. ASSUME UnderWay(d) PROVE \A k \in call[d].seen : CardRead(d, k)'
      <4> SUFFICES ASSUME NEW k \in call[d].seen PROVE CardRead(d, k)'
        OBVIOUS
      <4>1. CardRead(d, k)
        BY <3>5 DEF NotesKnown, HasRead
      <4> QED
        BY <1>1, <3>2, <3>3, <3>4, <3>5, <4>1 DEF CardRead
    <3> QED
      BY <1>1, <3>2, <3>3, <3>5 DEF NotesKnown, HasRead, UnderWay, At
  <2> QED
    BY <2>1, <2>2
<1> QED
  BY <1>5, <1>6 DEF NotesKnown

LEMMA NotesStep ==
  ASSUME ProviderCallAssumption, Typed, EachTells, CardsTyped, NotesKnown, [Next]_vars
  PROVE  NotesKnown'
<1>1. CASE UNCHANGED vars
  BY <1>1 DEF vars, NotesKnown, CardsKnown, HasRead, CardRead, At, UnderWay
<1>2. CASE \E k \in Cards, with \in SUBSET Words : SaveCard(k, with)
  BY <1>2, NotesStepSaved
<1>3. CASE Next /\ ~\E k \in Cards, with \in SUBSET Words : SaveCard(k, with)
  <2>1. PICK c \in Calls : Operation(c) /\ UNCHANGED <<saved, given, beside>>
    BY <1>3, StepsOfOne
  <2>2. Tells(c, call[c], span[c], sink[c])
    BY DEF EachTells
  <2>3. CASE WriteNotes(c)
    BY <2>1, <2>3, NotesStepWritten
  <2>4. CASE ~WriteNotes(c)
    <3>1. KeepsRead(c)
      BY <2>1, <2>4, StepKeepsRead, StartKeepsRead DEF Operation
    <3>2. Aside(c)
      BY <2>1, <2>2, <2>4, StartKeeps, LookUpNoteKeeps, LookUpPreviewKeeps, CheckKeeps,
         PrepareKeeps,
         DispatchKeeps, AcquireKeeps, AcquireTimeoutKeeps, NothingToAskKeeps, AttemptFailsKeeps,
         AttemptAnswersKeeps, ReturnedKeeps, RaisedKeeps, RecordKeeps, RecordFailsKeeps, FinalizeKeeps
      DEF Operation, Serve
    <3> QED
      BY <2>1, <3>1, <3>2, NotesStepAlone
  <2> QED
    BY <2>3, <2>4
<1> QED
  BY <1>1, <1>2, <1>3

LEMMA NotesInvariant ==
  ASSUME ProviderCallAssumption
  PROVE  Spec => []NotesKnown
<1>1. ASSUME Init PROVE NotesKnown
  <2>1. \A c \in Calls : ~UnderWay(c)
    BY <1>1 DEF Init, Fresh, UnderWay
  <2>2. CardsKnown
    BY <1>1 DEF Init, CardsKnown
  <2> QED
    BY <2>1, <2>2 DEF NotesKnown, HasRead
<1>2. Typed /\ EachTells /\ CardsTyped /\ NotesKnown /\ [Next]_vars => NotesKnown'
  BY NotesStep
<1> QED
  BY <1>1, <1>2, TellsInvariant, PTL DEF Spec

(* A note that is served free was saved with its card or counted as an     *)
(* explanation; what a card was saved with stays on it; and what was       *)
(* explained on a card is on the older cards of the sentence as well,      *)
(* unless an explanation was under way when the card was saved.            *)
THEOREM NotesArePaidAndShared ==
  ASSUME ProviderCallAssumption
  PROVE  Spec => []NotesPaidAndShared
<1>1. NotesKnown => NotesPaidAndShared
  BY DEF NotesKnown, CardsKnown, NotesPaidAndShared
<1> QED
  BY <1>1, NotesInvariant, PTL

(* A note is lost only to an explanation that was under way when the note  *)
(* appeared on the card, never to one that read the cards later.           *)
THEOREM OnlyOverlapLosesNotes ==
  ASSUME ProviderCallAssumption
  PROVE  Spec => LostToOverlapOnly
<1> DEFINE LostToOverlap == \A k \in Cards : \A w \in notes[k] \ notes'[k] :
                              \E c \in Calls : At(c, "write") /\ w \in call[c].since
<1>1. ASSUME Typed, EachTells, CardsTyped, NotesKnown, [Next]_vars PROVE [LostToOverlap]_vars
  <2> SUFFICES ASSUME NEW k \in Cards, NEW w \in notes[k] \ notes'[k]
               PROVE  \E c \in Calls : At(c, "write") /\ w \in call[c].since
    OBVIOUS
  <2>1. Next
    BY <1>1 DEF vars
  <2>7. ASSUME NEW j \in Cards, NEW with \in SUBSET Words, SaveCard(j, with) PROVE FALSE
    <3>1. notes'[k] = notes[k] \/ (k = j /\ j \notin saved)
      BY <1>1, <2>7 DEF SaveCard, Typed
    <3> QED
      BY <1>1, <3>1 DEF NotesKnown, CardsKnown
  <2>2. PICK c \in Calls : Operation(c)
    BY <2>1, <2>7, StepsOfOne
  <2>3. WriteNotes(c)
    <3>1. ASSUME ~WriteNotes(c) PROVE FALSE
      <4>1. KeepsRead(c)
        BY <1>1, <2>2, <3>1, StepKeepsRead, StartKeepsRead DEF Operation
      <4> QED
        BY <4>1 DEF KeepsRead
    <3> QED
      BY <3>1
  <2>4. UnderWay(c) /\ At(c, "write")
    <3>1. Tells(c, call[c], span[c], sink[c]) /\ call[c].pc = "write"
      BY <1>1, <2>3 DEF EachTells, WriteNotes, At
    <3> QED
      BY <3>1 DEF Tells, Counting, UnderWay, At
  <2>5. k \in call[c].seen /\ notes'[k] = call[c].read[k] \cup {call[c].word}
    BY <2>3 DEF WriteNotes, Written, NewNotes
  <2>6. w \in call[c].since
    BY <1>1, <2>4, <2>5 DEF NotesKnown, HasRead, CardRead
  <2> QED
    BY <2>4, <2>6
<1> QED
  BY <1>1, TellsInvariant, NotesInvariant, PTL DEF Spec, LostToOverlapOnly

-----------------------------------------------------------------------------
(* Discover: what is suggested, cached, written and saved, for any words,  *)
(* keys, requests and provider.                                            *)

(* Every set of numbers has a least one: induction, without a predicate.   *)
Precedes == {p \in Nat \X Nat : p[1] < p[2]}

LEMMA PrecedesIsWellFounded == IsWellFoundedOn(Precedes, Nat)
<1>1. Precedes = OpToRel(<, Nat)
  BY DEF Precedes, OpToRel
<1>2. QED
  BY <1>1, NatLessThanWellFounded

LEMMA LeastNumber ==
  ASSUME NEW T, T \subseteq Nat, T # {}
  PROVE  \E x \in T : \A y \in T : x <= y
<1>1. PICK x \in T : \A y \in T : ~(<<y, x>> \in Precedes)
  BY PrecedesIsWellFounded, WFMin
<1>2. ASSUME NEW y \in T PROVE x <= y
  <2>1. x \in Nat /\ y \in Nat
    OBVIOUS
  <2>2. <<y, x>> \notin Precedes
    BY <1>1
  <2>3. QED
    BY <2>1, <2>2 DEF Precedes
<1>3. QED
  BY <1>2

(* What is so at 0 and goes from each number below n to the next is so     *)
(* up to n.                                                                *)
LEMMA UpTo ==
  ASSUME NEW n \in Nat, NEW T, 0 \in T, \A i \in 1 .. n : i - 1 \in T => i \in T
  PROVE  0 .. n \subseteq T
<1> SUFFICES ASSUME ~(0 .. n \subseteq T) PROVE FALSE
  OBVIOUS
<1> DEFINE U == (0 .. n) \ T
<1>1. PICK x \in U : \A y \in U : x <= y
  <2>1. U \subseteq Nat /\ U # {}
    OBVIOUS
  <2> HIDE DEF U
  <2>2. QED
    BY <2>1, LeastNumber
<1>2. x \in 1 .. n /\ x - 1 \in 0 .. n /\ ~(x <= x - 1)
  BY <1>1
<1>3. QED
  BY <1>1, <1>2

(* And every bounded one has a greatest one.                               *)
LEMMA GreatestNumber ==
  ASSUME NEW n \in Nat, NEW T, T \subseteq 1 .. n, T # {}
  PROVE  Max(T) \in T /\ \A y \in T : y <= Max(T)
<1> DEFINE U == {n - y : y \in T}
<1>1. U \subseteq Nat /\ U # {}
  <2>1. \A y \in T : n - y \in Nat
    OBVIOUS
  <2>2. QED
    BY <2>1
<1> HIDE DEF U
<1>2. PICK u \in U : \A v \in U : u <= v
  BY <1>1, LeastNumber
<1>3. PICK x \in T : u = n - x
  BY DEF U
<1>4. \A y \in T : x >= y
  <2> TAKE y \in T
  <2>1. n - x <= n - y
    BY <1>2, <1>3 DEF U
  <2>2. QED
    BY <2>1
<1>5. Max(T) \in T /\ \A y \in T : Max(T) >= y
  BY <1>4 DEF Max
<1>6. QED
  BY <1>5

-----------------------------------------------------------------------------
(* How _dedup_unknown goes through a suggestion, word by word.             *)
Taken(kept, w, have) ==
  IF \/ Len(kept) >= Count \/ w = Blank
     \/ Folded[w] \in {Folded[v] : v \in have} \cup {Folded[kept[i]] : i \in DOMAIN kept}
  THEN kept ELSE Append(kept, w)

Taking(raw, have, n, take) ==
  take = [T \in SUBSET (1 .. n) |->
            IF T = {} THEN <<>> ELSE Taken(take[T \ {Max(T)}], raw[Max(T)], have)]

LEMMA TakingIsThere ==
  ASSUME NEW raw, NEW have, NEW n \in Nat
  PROVE  \E take : Taking(raw, have, n, take)
<1> DEFINE Further(f, T) == IF T = {} THEN <<>> ELSE Taken(f[T \ {Max(T)}], raw[Max(T)], have)
           N == {i \in 0 .. n : \E take : Taking(raw, have, i, take)}
<1>1. 0 \in N
  <2>1. SUBSET (1 .. 0) = {{}}
    OBVIOUS
  <2>2. Taking(raw, have, 0, [T \in SUBSET (1 .. 0) |-> <<>>])
    BY <2>1 DEF Taking
  <2>3. QED
    BY <2>2
<1>2. ASSUME NEW i \in 1 .. n, i - 1 \in N PROVE i \in N
  <2>1. PICK f : Taking(raw, have, i - 1, f)
    BY <1>2
  <2>2. f = [T \in SUBSET (1 .. i - 1) |-> Further(f, T)]
    BY <2>1 DEF Taking
  <2> DEFINE g == [T \in SUBSET (1 .. i) |-> Further(f, T)]
  <2>3. ASSUME NEW T \in SUBSET (1 .. i - 1) PROVE g[T] = f[T]
    <3>1. T \in SUBSET (1 .. i)
      OBVIOUS
    <3>2. g[T] = Further(f, T)
      BY <3>1
    <3>3. f[T] = Further(f, T)
      BY <2>2
    <3>4. QED
      BY <3>2, <3>3
  <2>4. ASSUME NEW T \in SUBSET (1 .. i) PROVE g[T] = Further(g, T)
    <3>1. CASE T = {}
      BY <3>1
    <3>2. CASE T # {}
      <4>1. Max(T) \in T /\ \A y \in T : y <= Max(T)
        <5>1. i \in Nat
          OBVIOUS
        <5>2. QED
          BY <3>2, <5>1, GreatestNumber
      <4>2. T \ {Max(T)} \in SUBSET (1 .. i - 1)
        <5> DEFINE m == Max(T)
        <5>1. m \in 1 .. i /\ \A y \in T : y \in 1 .. i /\ y <= m
          BY <4>1
        <5> HIDE DEF m
        <5>2. \A y \in T \ {m} : y \in 1 .. i - 1
          BY <5>1
        <5>3. QED
          BY <5>2 DEF m
      <4>3. g[T] = Further(f, T)
        OBVIOUS
      <4> HIDE DEF g
      <4>4. g[T \ {Max(T)}] = f[T \ {Max(T)}]
        BY <2>3, <4>2
      <4>5. QED
        BY <3>2, <4>3, <4>4
    <3>3. QED
      BY <3>1, <3>2
  <2>5. g = [T \in SUBSET (1 .. i) |-> g[T]]
    OBVIOUS
  <2> HIDE DEF g
  <2>6. Taking(raw, have, i, g)
    <3>1. g = [T \in SUBSET (1 .. i) |-> Further(g, T)]
      BY <2>4, <2>5
    <3>2. QED
      BY <3>1 DEF Taking
  <2>7. QED
    BY <2>6
<1> HIDE DEF N
<1>3. 0 .. n \subseteq N
  BY <1>1, <1>2, UpTo
<1>4. n \in N
  BY <1>3
<1>5. QED
  BY <1>4 DEF N

LEMMA DedupTakes ==
  ASSUME NEW raw \in Seq(Surfaces \cup {Blank}), NEW have
  PROVE  \E took : /\ took[0] = <<>>
                   /\ \A i \in 1 .. Len(raw) : took[i] = Taken(took[i - 1], raw[i], have)
                   /\ DedupUnknown(raw, have) = took[Len(raw)]
<1> DEFINE n == Len(raw)
           take == CHOOSE f : Taking(raw, have, n, f)
           took == [i \in 0 .. n |-> take[1 .. i]]
<1>1. n \in Nat /\ DOMAIN raw = 1 .. n
  OBVIOUS
<1>2. DedupUnknown(raw, have) = take[1 .. n]
  BY <1>1 DEF DedupUnknown, FoldLeft, MapThenFoldSet, Taking, Taken
<1> HIDE DEF n
<1>3. Taking(raw, have, n, take)
  BY <1>1, TakingIsThere
<1> HIDE DEF take
<1>4. \A T \in SUBSET (1 .. n) :
        take[T] = IF T = {} THEN <<>> ELSE Taken(take[T \ {Max(T)}], raw[Max(T)], have)
  BY <1>3 DEF Taking
<1>5. ASSUME NEW i \in 1 .. n PROVE take[1 .. i] = Taken(take[1 .. i - 1], raw[i], have)
  <2>1. 1 .. i \in SUBSET (1 .. n) /\ 1 .. i # {} /\ i \in Nat
    BY <1>1
  <2>2. Max(1 .. i) = i
    <3> DEFINE T == 1 .. i
    <3>1. T \subseteq 1 .. i /\ T # {} /\ i \in T /\ \A y \in T : y \in Nat /\ y <= i
      BY <2>1
    <3>2. Max(T) \in T /\ \A y \in T : y <= Max(T)
      <4> HIDE DEF T
      <4>1. QED
        BY <2>1, <3>1, GreatestNumber
    <3> HIDE DEF T
    <3>3. Max(T) <= i /\ i <= Max(T) /\ Max(T) \in Nat
      BY <3>1, <3>2
    <3>4. Max(T) = i
      BY <2>1, <3>3
    <3>5. QED
      BY <3>4 DEF T
  <2>3. (1 .. i) \ {i} = 1 .. i - 1
    BY <2>1
  <2>4. QED
    BY <1>4, <2>1, <2>2, <2>3
<1>6. took[0] = <<>>
  <2>1. 0 \in 0 .. n /\ 1 .. 0 = {} /\ {} \in SUBSET (1 .. n)
    BY <1>1
  <2>2. QED
    BY <1>4, <2>1
<1>7. \A i \in 1 .. n : took[i] = Taken(took[i - 1], raw[i], have)
  <2>1. \A i \in 1 .. n : i \in 0 .. n /\ i - 1 \in 0 .. n
    BY <1>1
  <2>2. QED
    BY <1>5, <2>1
<1>8. took[n] = take[1 .. n]
  BY <1>1
<1> HIDE DEF took
<1>9. QED
  BY <1>2, <1>6, <1>7, <1>8 DEF n

(* What is left of a suggestion is short, no two words of it are matched   *)
(* as the same, and none as a known one.                                   *)
NewTo(words, have) == Image(Range(words)) \cap Image(have) = {}

LEMMA DedupIsNew ==
  ASSUME NEW raw \in RawAnswers, NEW have
  PROVE  /\ DedupUnknown(raw, have) \in Previews \cup {<<>>}
         /\ NewTo(DedupUnknown(raw, have), have)
<1>1. raw \in Seq(Surfaces \cup {Blank}) /\ Count \in Nat
  BY DiscoverAssumption
<1>2. PICK took : /\ took[0] = <<>>
                  /\ \A i \in 1 .. Len(raw) : took[i] = Taken(took[i - 1], raw[i], have)
                  /\ DedupUnknown(raw, have) = took[Len(raw)]
  BY <1>1, DedupTakes
<1>3. Len(raw) \in Nat
  BY <1>1
<1> DEFINE Good(r) == /\ r \in Seq(Surfaces) /\ Len(r) <= Count
                      /\ \A i, j \in 1 .. Len(r) : Folded[r[i]] = Folded[r[j]] => i = j
                      /\ \A i \in 1 .. Len(r) : Folded[r[i]] \notin Image(have)
           N == {i \in 0 .. Len(raw) : Good(took[i])}
<1>4. 0 \in N
  <2>1. Good(<<>>)
    BY <1>1
  <2> HIDE DEF Good
  <2>2. QED
    BY <1>2, <1>3, <2>1
<1>5. ASSUME NEW i \in 1 .. Len(raw), i - 1 \in N PROVE i \in N
  <2> DEFINE r == took[i - 1]
             w == raw[i]
             skip == \/ Len(r) >= Count \/ w = Blank
                     \/ Folded[w] \in {Folded[v] : v \in have} \cup {Folded[r[j]] : j \in DOMAIN r}
  <2>1. Good(r)
    BY <1>5
  <2>2. took[i] = IF skip THEN r ELSE Append(r, w)
    BY <1>2 DEF Taken
  <2>3. w \in Surfaces \cup {Blank}
    BY <1>1, ElementOfSeq
  <2>4. i \in 0 .. Len(raw)
    BY <1>3
  <2>5. CASE skip
    <3> HIDE DEF skip, r, Good
    <3>1. Good(took[i])
      BY <2>1, <2>2, <2>5
    <3>2. QED
      BY <2>4, <3>1
  <2>6. CASE ~skip
    <3>1. /\ ~(Len(r) >= Count) /\ w \in Surfaces
          /\ Folded[w] \notin Image(have) /\ \A j \in DOMAIN r : Folded[r[j]] # Folded[w]
      BY <2>3, <2>6 DEF Image
    <3> HIDE DEF skip, r, w
    <3>2. r \in Seq(Surfaces) /\ Len(r) \in Nat /\ DOMAIN r = 1 .. Len(r)
      BY <2>1
    <3> DEFINE a == Append(r, w)
    <3>3. /\ a \in Seq(Surfaces) /\ Len(a) = Len(r) + 1
          /\ a[Len(r) + 1] = w /\ \A m \in 1 .. Len(r) : a[m] = r[m]
      BY <3>1, <3>2, AppendProperties
    <3> HIDE DEF a
    <3>4. ASSUME NEW m \in 1 .. Len(a), NEW k \in 1 .. Len(a), Folded[a[m]] = Folded[a[k]]
          PROVE  m = k
      <4>1. CASE m \in 1 .. Len(r) /\ k \in 1 .. Len(r)
        BY <2>1, <3>3, <3>4, <4>1
      <4>2. CASE m = Len(r) + 1 \/ k = Len(r) + 1
        BY <3>1, <3>2, <3>3, <3>4, <4>2
      <4>3. QED
        BY <3>2, <3>3, <4>1, <4>2
    <3>5. ASSUME NEW m \in 1 .. Len(a) PROVE Folded[a[m]] \notin Image(have)
      <4>1. m = Len(r) + 1 \/ m \in 1 .. Len(r)
        BY <3>2, <3>3
      <4>2. QED
        BY <2>1, <3>1, <3>3, <4>1
    <3>6. Len(a) <= Count
      BY <1>1, <3>1, <3>2, <3>3
    <3>7. Good(a)
      BY <3>3, <3>4, <3>5, <3>6
    <3>8. took[i] = a
      BY <2>2, <2>6 DEF a
    <3> HIDE DEF Good
    <3>9. QED
      BY <2>4, <3>7, <3>8
  <2>7. QED
    BY <2>5, <2>6
<1>6. Len(raw) \in N
  <2> HIDE DEF N
  <2>1. 0 .. Len(raw) \subseteq N
    BY <1>3, <1>4, <1>5, UpTo
  <2>2. QED
    BY <1>3, <2>1
<1> DEFINE r == DedupUnknown(raw, have)
<1>7. Good(r)
  BY <1>2, <1>6
<1> HIDE DEF r
<1>8. r \in Previews \cup {<<>>}
  <2>1. Len(r) \in Nat /\ DOMAIN r = 1 .. Len(r) /\ r \in [1 .. Len(r) -> Surfaces]
    BY <1>7
  <2>2. CASE Len(r) = 0
    BY <1>7, <2>2
  <2>3. CASE Len(r) # 0
    <3>1. Len(r) \in 1 .. Count
      BY <1>1, <1>7, <2>1, <2>3
    <3>2. QED
      BY <1>7, <2>1, <3>1 DEF Previews
  <2>4. QED
    BY <2>2, <2>3
<1>9. NewTo(r, have)
  BY <1>7 DEF NewTo, Image, Range
<1>10. QED
  BY <1>8, <1>9 DEF r

-----------------------------------------------------------------------------
(* An entry of the cache is what was stored; its words were new to the     *)
(* deck they were suggested for.                                           *)
CacheEntry == {e \in Entry : NewTo(e.words, e.deck)}
StoreRecord == [key : Keys, at : 0 .. MaxTime, value : Previews]

StoredAs(e, s) == s.key = e.key /\ s.at = e.at /\ s.value = e.words

Latest(st, i) == \A j \in DOMAIN st : j > i => st[j].key # st[i].key
Since(st, i)  == {st[j].key : j \in {n \in DOMAIN st : n > i}}

(* Too old at t, or crowded out by other keys.                             *)
Gone(st, t, i) == t - st[i].at >= Ttl \/ Cardinality(Since(st, i)) >= MaxEntries

(* The entries es mirror the stores st at t: from some store on they are   *)
(* the latest of their keys, in their order; those before it are gone.     *)
Sources(src, es, st) ==
  /\ src \in [DOMAIN es -> DOMAIN st]
  /\ \A i, j \in DOMAIN es : i < j => src[i] < src[j]
  /\ \A i \in DOMAIN es : Latest(st, src[i]) /\ StoredAs(es[i], st[src[i]])

Others(src, es, st, t) ==
  \A n \in DOMAIN st : Latest(st, n) /\ (\A i \in DOMAIN es : src[i] # n) =>
    Gone(st, t, n) /\ \A i \in DOMAIN es : n < src[i]

Mirrors(src, es, st, t) == Sources(src, es, st) /\ Others(src, es, st, t)

LEMMA LatestIsThere ==
  ASSUME NEW st \in Seq(StoreRecord), NEW m \in DOMAIN st
  PROVE  \E n \in DOMAIN st : n >= m /\ st[n].key = st[m].key /\ Latest(st, n)
<1> DEFINE len == Len(st)
           T == {i \in 1 .. len : st[i].key = st[m].key}
           n == Max(T)
<1>1. len \in Nat /\ DOMAIN st = 1 .. len
  OBVIOUS
<1>2. T \subseteq 1 .. len /\ m \in T
  BY <1>1
<1> HIDE DEF len
<1>3. n \in T /\ \A y \in T : y <= n
  <2> HIDE DEF T
  <2>1. QED
    BY <1>1, <1>2, GreatestNumber
<1> HIDE DEF n
<1>4. n \in 1 .. len /\ st[n].key = st[m].key /\ m <= n
  BY <1>2, <1>3
<1>5. Latest(st, n)
  <2> SUFFICES ASSUME NEW j \in DOMAIN st, j > n, st[j].key = st[n].key PROVE FALSE
    BY DEF Latest
  <2>1. j \in T
    BY <1>1, <1>4
  <2>2. j <= n
    BY <1>3, <2>1
  <2>3. QED
    BY <1>1, <1>4, <2>2
<1>6. QED
  BY <1>1, <1>4, <1>5

LEMMA SinceIsFinite ==
  ASSUME NEW st \in Seq(StoreRecord), NEW i
  PROVE  IsFiniteSet(Since(st, i)) /\ Cardinality(Since(st, i)) \in Nat
<1> DEFINE D == {n \in DOMAIN st : n > i}
           f == [n \in D |-> st[n].key]
<1>1. IsFiniteSet(D)
  <2>1. Len(st) \in Nat /\ DOMAIN st = 1 .. Len(st)
    OBVIOUS
  <2>2. IsFiniteSet(1 .. Len(st))
    BY <2>1, FS_Interval
  <2>3. D \in SUBSET (1 .. Len(st))
    BY <2>1
  <2>4. QED
    BY <2>2, <2>3, FS_Subset
<1>2. f \in Surjection(D, Since(st, i))
  BY DEF Surjection, Since
<1>3. QED
  BY <1>1, <1>2, FS_Surjection, FS_CardinalityType

(* What was stored after an entry is what stands behind it.                *)
LEMMA SinceIsBehind ==
  ASSUME NEW es \in Seq(CacheEntry), NEW st \in Seq(StoreRecord), NEW src, NEW t,
         Mirrors(src, es, st, t), NEW i \in DOMAIN es
  PROVE  Cardinality(Since(st, src[i])) = Len(es) - i
<1> DEFINE len == Len(es)
           D == i + 1 .. len
           f == [j \in D |-> es[j].key]
<1>1. /\ len \in Nat /\ DOMAIN es = 1 .. len /\ i \in 1 .. len
      /\ DOMAIN st = 1 .. Len(st) /\ Len(st) \in Nat
  OBVIOUS
<1>2. /\ \A j \in 1 .. len : /\ src[j] \in DOMAIN st /\ Latest(st, src[j])
                            /\ st[src[j]].key = es[j].key
      /\ \A j, k \in 1 .. len : j < k => src[j] < src[k]
  BY <1>1 DEF Mirrors, Sources, StoredAs
<1> HIDE DEF len
<1>3. \A j \in D : j \in 1 .. len /\ i < j
  BY <1>1
<1>4. ASSUME NEW j \in D, NEW k \in D, j < k PROVE es[j].key # es[k].key
  <2>1. src[j] < src[k] /\ src[k] \in DOMAIN st /\ Latest(st, src[j])
    BY <1>2, <1>3, <1>4
  <2>2. st[src[k]].key # st[src[j]].key
    BY <1>1, <1>2, <1>3, <2>1 DEF Latest
  <2>3. QED
    BY <1>2, <1>3, <2>2
<1>5. \A j \in D : es[j].key \in Since(st, src[i])
  <2> TAKE j \in D
  <2>1. src[i] < src[j] /\ src[j] \in DOMAIN st /\ st[src[j]].key = es[j].key
    BY <1>1, <1>2, <1>3
  <2>2. src[j] > src[i]
    BY <1>1, <1>2, <2>1
  <2>3. QED
    BY <2>1, <2>2 DEF Since
<1>6. ASSUME NEW k \in Since(st, src[i]) PROVE \E j \in D : es[j].key = k
  <2>1. PICK m \in DOMAIN st : m > src[i] /\ st[m].key = k
    BY DEF Since
  <2>2. PICK n \in DOMAIN st : n >= m /\ st[n].key = st[m].key /\ Latest(st, n)
    BY LatestIsThere
  <2>3. n > src[i] /\ ~(n < src[i])
    BY <1>1, <1>2, <2>1, <2>2
  <2>4. PICK j \in DOMAIN es : src[j] = n
    BY <2>2, <2>3 DEF Mirrors, Others
  <2>5. j \in 1 .. len /\ ~(j <= i)
    <3>1. j = i => src[j] = src[i]
      OBVIOUS
    <3>2. j < i => src[j] < src[i]
      BY <1>1, <1>2
    <3>3. QED
      BY <1>1, <1>2, <2>3, <2>4, <3>1, <3>2
  <2>6. j \in D
    BY <1>1, <2>5
  <2>7. QED
    BY <1>2, <2>1, <2>2, <2>4, <2>5, <2>6
<1>7. f \in Bijection(D, Since(st, src[i]))
  <2>1. f \in [D -> Since(st, src[i])]
    BY <1>5
  <2>2. \A j, k \in D : f[j] = f[k] => j = k
    <3> TAKE j, k \in D
    <3>1. j \in Int /\ k \in Int /\ f[j] = es[j].key /\ f[k] = es[k].key
      OBVIOUS
    <3>2. QED
      BY <1>4, <3>1
  <2>3. \A k \in Since(st, src[i]) : \E j \in D : f[j] = k
    BY <1>6
  <2>4. QED
    BY <2>1, <2>2, <2>3 DEF Bijection, Injection, Surjection, IsInjective
<1>8. IsFiniteSet(D) /\ Cardinality(D) = len - i
  <2>1. i + 1 \in Int /\ len \in Int
    BY <1>1
  <2>2. Cardinality(D) = IF i + 1 > len THEN 0 ELSE len - (i + 1) + 1
    BY <2>1, FS_Interval
  <2>3. IsFiniteSet(D)
    BY <2>1, FS_Interval
  <2>4. i + 1 > len => i = len
    BY <1>1
  <2>5. CASE i + 1 > len
    <3>1. Cardinality(D) = 0 /\ len - i = 0
      BY <1>1, <2>2, <2>4, <2>5
    <3>2. QED
      BY <2>3, <3>1
  <2>6. CASE ~(i + 1 > len)
    <3> DEFINE c == Cardinality(D)
    <3>1. c = len - (i + 1) + 1
      BY <2>2, <2>6
    <3> HIDE DEF c
    <3>2. c = len - i
      BY <1>1, <3>1
    <3>3. QED
      BY <2>3, <3>2 DEF c
  <2>7. QED
    BY <2>5, <2>6
<1>9. Cardinality(Since(st, src[i])) = Cardinality(D)
  BY <1>7, <1>8, FS_Bijection DEF ExistsBijection
<1>10. QED
  BY <1>8, <1>9 DEF len

(* What a sequence is without its first d elements.                        *)
LEMMA CutFront ==
  ASSUME NEW S, NEW es \in Seq(S), NEW d \in 0 .. Len(es)
  PROVE  LET rest == SubSeq(es, d + 1, Len(es))
         IN  /\ rest \in Seq(S) /\ Len(rest) = Len(es) - d
             /\ \A i \in 1 .. Len(es) - d : rest[i] = es[i + d]
<1> DEFINE rest == SubSeq(es, d + 1, Len(es))
           n == Len(es) - d
<1>1. /\ Len(es) \in Nat /\ DOMAIN es = 1 .. Len(es) /\ n \in Nat
  OBVIOUS
<1>2. rest \in Seq(S) /\ Len(rest) = n /\ \A i \in 1 .. n : rest[i] = es[i + d]
  <2>1. CASE d = Len(es)
    <3>1. Len(es) + 1 \in Int /\ Len(es) \in Int /\ Len(es) < Len(es) + 1 /\ n = 0
      BY <1>1, <2>1
    <3>2. rest = <<>>
      BY <2>1, <3>1, SubSeqEmpty
    <3> HIDE DEF rest, n
    <3>3. QED
      BY <3>1, <3>2
  <2>2. CASE d # Len(es)
    <3> DEFINE len == Len(es)
    <3>1. len \in Nat /\ d \in 0 .. len /\ d # len /\ n = len - d
      BY <1>1, <2>2
    <3>2. \A i \in 1 .. len : es[i] \in S
      BY <1>1, ElementOfSeq
    <3>3. rest = SubSeq(es, d + 1, len)
      OBVIOUS
    <3> HIDE DEF rest, n, len
    <3>4. d \in Int /\ 0 <= d /\ d < len
      BY <3>1
    <3>5. d + 1 \in Int /\ len \in Int /\ d + 1 <= len
      BY <3>1, <3>4
    <3>6. \A i \in d + 1 .. len : es[i] \in S
      BY <3>2, <3>4, <3>5
    <3>7. /\ rest \in Seq(S)
          /\ Len(rest) = IF d + 1 <= len THEN len - (d + 1) + 1 ELSE 0
          /\ \A i \in 1 .. len - (d + 1) + 1 : rest[i] = es[(d + 1) + i - 1]
      BY <3>3, <3>5, <3>6, SubSeqProperties
    <3>8. \A i \in 1 .. n : i \in 1 .. len - (d + 1) + 1 /\ (d + 1) + i - 1 = i + d
      BY <3>1, <3>4
    <3>9. Len(rest) = n
      BY <3>1, <3>4, <3>5, <3>7
    <3>10. \A i \in 1 .. n : rest[i] = es[i + d]
      BY <3>7, <3>8
    <3>11. QED
      BY <3>7, <3>9, <3>10
  <2>3. QED
    BY <2>1, <2>2
<1>3. QED
  BY <1>2

(* Entries may be dropped from the front when they are gone.               *)
LEMMA DropGone ==
  ASSUME NEW es \in Seq(CacheEntry), NEW st \in Seq(StoreRecord), NEW src, NEW t,
         Mirrors(src, es, st, t), NEW d \in 0 .. Len(es), \A j \in 1 .. d : Gone(st, t, src[j])
  PROVE  LET rest == SubSeq(es, d + 1, Len(es))
         IN  /\ rest \in Seq(CacheEntry) /\ Len(rest) = Len(es) - d
             /\ \A i \in 1 .. Len(es) - d : rest[i] = es[i + d]
             /\ Mirrors([i \in 1 .. Len(es) - d |-> src[i + d]], rest, st, t)
<1> DEFINE rest == SubSeq(es, d + 1, Len(es))
           n == Len(es) - d
           new == [i \in 1 .. n |-> src[i + d]]
<1>1. /\ Len(es) \in Nat /\ DOMAIN es = 1 .. Len(es) /\ n \in Nat
      /\ DOMAIN st = 1 .. Len(st) /\ Len(st) \in Nat
  OBVIOUS
<1>2. rest \in Seq(CacheEntry) /\ Len(rest) = n /\ \A i \in 1 .. n : rest[i] = es[i + d]
  BY CutFront
<1>3. DOMAIN rest = 1 .. n
  BY <1>2
<1> HIDE DEF rest
<1>4. \A i \in 1 .. n : i + d \in 1 .. Len(es) /\ new[i] = src[i + d]
  BY <1>1
<1>5. /\ \A j \in 1 .. Len(es) : /\ src[j] \in DOMAIN st /\ Latest(st, src[j])
                                /\ StoredAs(es[j], st[src[j]])
      /\ \A j, k \in 1 .. Len(es) : j < k => src[j] < src[k]
  BY <1>1 DEF Mirrors, Sources
<1>6. Sources(new, rest, st)
  <2>1. new \in [1 .. n -> DOMAIN st]
    BY <1>4, <1>5
  <2>2. \A i, j \in 1 .. n : i < j => new[i] < new[j]
    <3> TAKE i, j \in 1 .. n
    <3>1. i < j => i + d < j + d
      BY <1>1
    <3>2. QED
      BY <1>4, <1>5, <3>1
  <2> HIDE DEF new, n
  <2>3. QED
    BY <1>2, <1>3, <1>4, <1>5, <2>1, <2>2 DEF Sources
<1>7. Others(new, rest, st, t)
  <2> SUFFICES ASSUME NEW m \in DOMAIN st, Latest(st, m), \A i \in 1 .. n : new[i] # m
               PROVE  Gone(st, t, m) /\ \A i \in 1 .. n : m < new[i]
    BY <1>3 DEF Others
  <2>1. CASE \A i \in DOMAIN es : src[i] # m
    BY <1>1, <1>4, <2>1 DEF Mirrors, Others
  <2>2. ASSUME NEW j \in DOMAIN es, src[j] = m
        PROVE  Gone(st, t, m) /\ \A i \in 1 .. n : m < new[i]
    <3>1. j \in 1 .. d
      <4> SUFFICES ASSUME j \notin 1 .. d PROVE FALSE
        OBVIOUS
      <4>1. j - d \in 1 .. n /\ (j - d) + d = j
        BY <1>1
      <4>2. new[j - d] = m
        BY <1>4, <2>2, <4>1
      <4>3. QED
        BY <2>2, <4>1, <4>2
    <3>2. ASSUME NEW i \in 1 .. n PROVE m < new[i]
      <4>1. j < i + d
        BY <1>1, <3>1
      <4>2. QED
        BY <1>1, <1>4, <1>5, <2>2, <4>1
    <3>3. QED
      BY <2>2, <3>1, <3>2
  <2>3. QED
    BY <2>1, <2>2
<1>8. QED
  BY <1>2, <1>6, <1>7 DEF rest, Mirrors

-----------------------------------------------------------------------------
(* _evict_expired drops some entries from the front, all of them expired,  *)
(* and stops at one that is not.                                           *)
LEMMA EvictedIs ==
  ASSUME NEW es \in Seq(CacheEntry)
  PROVE  \E d \in 0 .. Len(es) : /\ EvictExpired(es) = SubSeq(es, d + 1, Len(es))
                                 /\ \A j \in 1 .. d : Expired(es[j])
                                 /\ d < Len(es) => ~Expired(es[d + 1])
<1> DEFINE len == Len(es)
           Goal(d) == /\ EvictExpired(es) = SubSeq(es, d + 1, len)
                      /\ \A j \in 1 .. d : Expired(es[j])
                      /\ d < len => ~Expired(es[d + 1])
           First(i) == /\ ~Expired(es[i])
                       /\ \A j \in 1 .. i - 1 : Expired(es[j])
<1>1. len \in Nat /\ DOMAIN es = 1 .. len
  OBVIOUS
<1>2. CASE \A i \in DOMAIN es : Expired(es[i])
  <2>1. EvictExpired(es) = <<>>
    BY <1>2 DEF EvictExpired
  <2> HIDE DEF len
  <2>2. len + 1 \in Int /\ len \in Int /\ len < len + 1 /\ len \in 0 .. len /\ ~(len < len)
    BY <1>1
  <2>3. SubSeq(es, len + 1, len) = <<>>
    BY <2>2, SubSeqEmpty
  <2>4. Goal(len)
    BY <1>1, <1>2, <2>1, <2>2, <2>3
  <2>5. QED
    BY <2>2, <2>4 DEF len
<1>3. CASE ~\A i \in DOMAIN es : Expired(es[i])
  <2> DEFINE first == CHOOSE i \in DOMAIN es : First(i)
             T == {i \in DOMAIN es : ~Expired(es[i])}
  <2>1. EvictExpired(es) = SubSeq(es, first, len)
    BY <1>3 DEF EvictExpired
  <2> HIDE DEF len
  <2>2. T \subseteq Nat /\ T # {}
    BY <1>1, <1>3
  <2>3. PICK i \in T : \A y \in T : i <= y
    <3> HIDE DEF T
    <3>1. QED
      BY <2>2, LeastNumber
  <2>4. i \in DOMAIN es /\ First(i)
    <3> SUFFICES ASSUME NEW j \in 1 .. i - 1, ~Expired(es[j]) PROVE FALSE
      BY <2>3
    <3>1. j \in 1 .. len /\ ~(i <= j)
      BY <1>1, <2>3
    <3>2. QED
      BY <1>1, <2>3, <3>1
  <2> HIDE DEF First
  <2>5. first \in DOMAIN es /\ First(first)
    BY <2>4
  <2> HIDE DEF first
  <2>6. first - 1 \in 0 .. len /\ (first - 1) + 1 = first
    BY <1>1, <2>5
  <2>7. Goal(first - 1)
    BY <2>1, <2>5, <2>6 DEF First
  <2>8. QED
    BY <2>6, <2>7 DEF len
<1>4. QED
  BY <1>2, <1>3

(* Taking a key out leaves the other entries as they stand.                *)
Keeps(keep, w, es, k) ==
  /\ keep \in [DOMAIN w -> DOMAIN es]
  /\ \A i, j \in DOMAIN w : i < j => keep[i] < keep[j]
  /\ \A i \in DOMAIN w : w[i] = es[keep[i]] /\ w[i].key # k
  /\ \A j \in DOMAIN es : es[j].key # k => \E i \in DOMAIN w : keep[i] = j

LEMMA WithoutKeeps ==
  ASSUME NEW es \in Seq(CacheEntry), NEW k,
         \A i, j \in DOMAIN es : es[i].key = es[j].key => i = j
  PROVE  /\ Without(es, k) \in Seq(CacheEntry)
         /\ \E keep : Keeps(keep, Without(es, k), es, k)
<1> DEFINE len == Len(es)
           w == Without(es, k)
<1>1. len \in Nat /\ DOMAIN es = 1 .. len
  OBVIOUS
<1>2. CASE ~\E i \in DOMAIN es : es[i].key = k
  <2>1. w = es
    BY <1>2 DEF Without
  <2> HIDE DEF w, len
  <2>2. Keeps([i \in 1 .. len |-> i], w, es, k)
    BY <1>1, <1>2, <2>1 DEF Keeps
  <2>3. QED
    BY <2>1, <2>2 DEF w
<1>3. CASE \E i \in DOMAIN es : es[i].key = k
  <2> DEFINE m == CHOOSE i \in DOMAIN es : es[i].key = k
             front == SubSeq(es, 1, m - 1)
             back == SubSeq(es, m + 1, len)
             keep == [i \in 1 .. len - 1 |-> IF i <= m - 1 THEN i ELSE i + 1]
  <2>1. m \in DOMAIN es /\ es[m].key = k
    BY <1>3
  <2>2. w = front \o back
    BY <1>3 DEF Without, RemoveAt
  <2> HIDE DEF len, m
  <2>3. m \in Int /\ 1 <= m /\ m <= len /\ len \in Int
    BY <1>1, <2>1
  <2>4. /\ front \in Seq(CacheEntry) /\ Len(front) = m - 1
        /\ \A i \in 1 .. m - 1 : front[i] = es[i]
    <3>1. 1 \in Int /\ m - 1 \in Int /\ \A i \in 1 .. m - 1 : es[i] \in CacheEntry
      <4>1. \A i \in 1 .. m - 1 : i \in 1 .. len
        BY <2>3
      <4>2. QED
        BY <1>1, <2>3, <4>1, ElementOfSeq DEF len
    <3>2. /\ front \in Seq(CacheEntry)
          /\ Len(front) = IF 1 <= m - 1 THEN m - 1 - 1 + 1 ELSE 0
          /\ \A i \in 1 .. m - 1 - 1 + 1 : front[i] = es[1 + i - 1]
      BY <3>1, SubSeqProperties
    <3> HIDE DEF front
    <3>3. Len(front) = m - 1
      BY <2>3, <3>2
    <3>4. \A i \in 1 .. m - 1 : i \in 1 .. m - 1 - 1 + 1 /\ 1 + i - 1 = i
      BY <2>3
    <3>5. QED
      BY <3>2, <3>3, <3>4
  <2>5. /\ back \in Seq(CacheEntry) /\ Len(back) = len - m
        /\ \A i \in 1 .. len - m : back[i] = es[i + m]
    <3>1. m \in 0 .. Len(es)
      BY <2>3 DEF len
    <3>2. QED
      BY <3>1, CutFront DEF len
  <2> HIDE DEF front, back
  <2>6. /\ w \in Seq(CacheEntry) /\ Len(w) = (m - 1) + (len - m)
        /\ \A i \in 1 .. (m - 1) + (len - m) :
             w[i] = IF i <= m - 1 THEN front[i] ELSE back[i - (m - 1)]
    <3> DEFINE both == front \o back
    <3>1. /\ both \in Seq(CacheEntry) /\ Len(both) = Len(front) + Len(back)
          /\ \A i \in 1 .. Len(front) + Len(back) :
               both[i] = IF i <= Len(front) THEN front[i] ELSE back[i - Len(front)]
      BY <2>4, <2>5, ConcatProperties
    <3>2. w = both
      BY <2>2
    <3> HIDE DEF both, w
    <3>3. QED
      BY <2>4, <2>5, <3>1, <3>2
  <2> HIDE DEF w
  <2>7. DOMAIN w = 1 .. len - 1 /\ (m - 1) + (len - m) = len - 1
    BY <2>3, <2>6
  <2>8. ASSUME NEW i \in 1 .. len - 1
        PROVE  keep[i] \in 1 .. len /\ keep[i] # m /\ w[i] = es[keep[i]]
    <3>1. CASE i <= m - 1
      <4>1. keep[i] = i /\ i \in 1 .. m - 1 /\ i \in 1 .. len /\ i # m
        BY <2>3, <3>1
      <4>2. QED
        BY <2>4, <2>6, <2>7, <3>1, <4>1
    <3>2. CASE ~(i <= m - 1)
      <4>1. /\ keep[i] = i + 1 /\ i + 1 \in 1 .. len /\ i + 1 # m
            /\ i - (m - 1) \in 1 .. len - m /\ (i - (m - 1)) + m = i + 1
        BY <2>3, <3>2
      <4>2. w[i] = back[i - (m - 1)]
        BY <2>6, <2>7, <3>2
      <4>3. QED
        BY <2>5, <4>1, <4>2
    <3>3. QED
      BY <3>1, <3>2
  <2>9. \A i, j \in 1 .. len - 1 : i < j => keep[i] < keep[j]
    BY <2>3
  <2>10. ASSUME NEW j \in 1 .. len, es[j].key # k PROVE \E i \in 1 .. len - 1 : keep[i] = j
    <3>1. j # m
      BY <2>1, <2>10
    <3>2. CASE j < m
      <4>1. j \in 1 .. len - 1 /\ keep[j] = j
        BY <2>3, <3>2
      <4>2. QED
        BY <4>1
    <3>3. CASE j > m
      <4>1. j - 1 \in 1 .. len - 1 /\ keep[j - 1] = j
        BY <2>3, <3>3
      <4>2. QED
        BY <4>1
    <3>4. QED
      BY <2>3, <3>1, <3>2, <3>3
  <2>11. \A i \in 1 .. len - 1 : w[i].key # k
    <3> TAKE i \in 1 .. len - 1
    <3>1. es[keep[i]].key # es[m].key
      BY <1>1, <2>1, <2>8
    <3>2. QED
      BY <2>1, <2>8, <3>1
  <2>12. keep \in [1 .. len - 1 -> 1 .. len]
    BY <2>8
  <2> HIDE DEF keep
  <2>13. Keeps(keep, w, es, k)
    BY <1>1, <2>7, <2>8, <2>9, <2>10, <2>11, <2>12 DEF Keeps
  <2>14. QED
    BY <2>6, <2>13 DEF w
<1>4. QED
  BY <1>2, <1>3

(* What is gone stays gone, whatever is stored later.                      *)
LEMMA GoneStays ==
  ASSUME NEW st \in Seq(StoreRecord), NEW r \in StoreRecord, NEW t, NEW n \in DOMAIN st,
         Gone(st, t, n)
  PROVE  Gone(Append(st, r), t, n)
<1> DEFINE more == Append(st, r)
<1>1. /\ more \in Seq(StoreRecord) /\ Len(more) = Len(st) + 1 /\ Len(st) \in Nat
      /\ \A i \in 1 .. Len(st) : more[i] = st[i]
  BY AppendProperties
<1>2. DOMAIN st = 1 .. Len(st) /\ DOMAIN more = 1 .. Len(st) + 1
  BY <1>1
<1> HIDE DEF more
<1>3. Since(st, n) \subseteq Since(more, n)
  BY <1>1, <1>2 DEF Since
<1>4. /\ IsFiniteSet(Since(more, n)) /\ Cardinality(Since(more, n)) \in Nat
      /\ Cardinality(Since(st, n)) \in Nat
  BY <1>1, SinceIsFinite
<1>5. Cardinality(Since(st, n)) <= Cardinality(Since(more, n))
  BY <1>3, <1>4, FS_Subset
<1>6. MaxEntries \in Nat
  BY DiscoverAssumption
<1>7. more[n] = st[n]
  BY <1>1, <1>2
<1> DEFINE a == Cardinality(Since(st, n))
           b == Cardinality(Since(more, n))
<1>8. a >= MaxEntries => b >= MaxEntries
  <2>1. a \in Nat /\ b \in Nat /\ a <= b
    BY <1>4, <1>5
  <2> HIDE DEF a, b
  <2>2. QED
    BY <1>6, <2>1
<1>9. QED
  BY <1>7, <1>8 DEF Gone, more

(* A store takes its key out of the cache and puts it last: what is        *)
(* mirrored is the new history.                                            *)
LEMMA StoreMirrored ==
  ASSUME NEW es \in Seq(CacheEntry), NEW st \in Seq(StoreRecord), NEW src, NEW t,
         Mirrors(src, es, st, t),
         NEW e \in CacheEntry, NEW r \in StoreRecord, StoredAs(e, r),
         NEW w \in Seq(CacheEntry), NEW keep, Keeps(keep, w, es, e.key)
  PROVE  \E new : Mirrors(new, Append(w, e), Append(st, r), t)
<1> DEFINE all == Append(w, e)
           more == Append(st, r)
           a == Len(w)
           m == Len(st)
           new == [i \in 1 .. a + 1 |-> IF i <= a THEN src[keep[i]] ELSE m + 1]
<1>1. /\ all \in Seq(CacheEntry) /\ Len(all) = a + 1 /\ a \in Nat
      /\ all[a + 1] = e /\ \A i \in 1 .. a : all[i] = w[i]
  BY AppendProperties
<1>2. /\ more \in Seq(StoreRecord) /\ Len(more) = m + 1 /\ m \in Nat
      /\ more[m + 1] = r /\ \A i \in 1 .. m : more[i] = st[i]
  BY AppendProperties
<1>3. /\ DOMAIN all = 1 .. a + 1 /\ DOMAIN more = 1 .. m + 1
      /\ DOMAIN w = 1 .. a /\ DOMAIN st = 1 .. m
  BY <1>1, <1>2
<1> HIDE DEF all, more, a, m
<1>4. /\ \A i \in 1 .. a : keep[i] \in DOMAIN es /\ w[i] = es[keep[i]] /\ w[i].key # e.key
      /\ \A i, j \in 1 .. a : i < j => keep[i] < keep[j]
      /\ \A j \in DOMAIN es : es[j].key # e.key => \E i \in 1 .. a : keep[i] = j
  BY <1>3 DEF Keeps
<1>5. /\ \A j \in DOMAIN es : /\ src[j] \in 1 .. m /\ Latest(st, src[j])
                             /\ StoredAs(es[j], st[src[j]])
      /\ \A j, k \in DOMAIN es : j < k => src[j] < src[k]
  BY <1>3 DEF Mirrors, Sources
<1>6. new[a + 1] = m + 1 /\ \A i \in 1 .. a : new[i] = src[keep[i]] /\ new[i] \in 1 .. m
  BY <1>1, <1>4, <1>5
<1>7. \A i \in 1 .. a + 1 : i = a + 1 \/ i \in 1 .. a
  BY <1>1
<1>8. r.key = e.key
  BY DEF StoredAs
<1>9. \A n \in 1 .. m : Latest(more, n) <=> Latest(st, n) /\ st[n].key # e.key
  <2> TAKE n \in 1 .. m
  <2>1. \A j \in 1 .. m + 1 : j = m + 1 \/ j \in 1 .. m
    BY <1>2
  <2>2. m + 1 \in 1 .. m + 1 /\ m + 1 > n /\ \A j \in 1 .. m : j \in 1 .. m + 1
    BY <1>2
  <2>3. ASSUME Latest(more, n) PROVE Latest(st, n) /\ st[n].key # e.key
    BY <1>2, <1>3, <1>8, <2>2, <2>3 DEF Latest
  <2>4. ASSUME Latest(st, n), st[n].key # e.key PROVE Latest(more, n)
    <3> SUFFICES ASSUME NEW j \in 1 .. m + 1, j > n PROVE more[j].key # more[n].key
      BY <1>3 DEF Latest
    <3>1. CASE j = m + 1
      BY <1>2, <1>8, <2>4, <3>1
    <3>2. CASE j \in 1 .. m
      BY <1>2, <1>3, <2>4, <3>2 DEF Latest
    <3>3. QED
      BY <2>1, <3>1, <3>2
  <2>5. QED
    BY <2>3, <2>4
<1>10. Latest(more, m + 1)
  BY <1>2, <1>3 DEF Latest
<1>11. Sources(new, all, more)
  <2>1. new \in [1 .. a + 1 -> 1 .. m + 1]
    <3>1. new = [i \in 1 .. a + 1 |-> new[i]]
      OBVIOUS
    <3> HIDE DEF new
    <3>2. \A i \in 1 .. a + 1 : new[i] \in 1 .. m + 1
      BY <1>2, <1>6, <1>7
    <3>3. QED
      BY <3>1, <3>2
  <2> HIDE DEF new
  <2>2. ASSUME NEW i \in 1 .. a + 1, NEW j \in 1 .. a + 1, i < j PROVE new[i] < new[j]
    <3>1. i \in 1 .. a
      BY <1>1, <2>2
    <3>2. CASE j = a + 1
      BY <1>2, <1>6, <3>1, <3>2
    <3>3. CASE j \in 1 .. a
      <4>1. keep[i] < keep[j] /\ keep[i] \in DOMAIN es /\ keep[j] \in DOMAIN es
        BY <1>4, <2>2, <3>1, <3>3
      <4>2. QED
        BY <1>5, <1>6, <3>1, <3>3, <4>1
    <3>4. QED
      BY <1>7, <3>2, <3>3
  <2>3. ASSUME NEW i \in 1 .. a + 1
        PROVE  Latest(more, new[i]) /\ StoredAs(all[i], more[new[i]])
    <3>1. CASE i = a + 1
      BY <1>1, <1>2, <1>6, <1>10, <3>1
    <3>2. CASE i \in 1 .. a
      <4>1. /\ Latest(st, src[keep[i]]) /\ StoredAs(es[keep[i]], st[src[keep[i]]])
            /\ src[keep[i]] \in 1 .. m /\ es[keep[i]].key # e.key
        BY <1>4, <1>5, <3>2
      <4>2. st[src[keep[i]]].key # e.key
        BY <4>1 DEF StoredAs
      <4>3. Latest(more, src[keep[i]])
        BY <1>9, <4>1, <4>2
      <4>4. all[i] = es[keep[i]] /\ more[src[keep[i]]] = st[src[keep[i]]]
        BY <1>1, <1>2, <1>4, <3>2, <4>1
      <4>5. QED
        BY <1>6, <3>2, <4>1, <4>3, <4>4
    <3>3. QED
      BY <1>7, <3>1, <3>2
  <2>4. QED
    BY <1>3, <2>1, <2>2, <2>3 DEF Sources
<1>12. Others(new, all, more, t)
  <2> SUFFICES ASSUME NEW n \in 1 .. m + 1, Latest(more, n), \A i \in 1 .. a + 1 : new[i] # n
               PROVE  Gone(more, t, n) /\ \A i \in 1 .. a + 1 : n < new[i]
    BY <1>3 DEF Others
  <2>1. n \in 1 .. m
    <3>1. a + 1 \in 1 .. a + 1
      BY <1>1
    <3>2. n # m + 1
      BY <1>6, <3>1
    <3>3. QED
      BY <1>2, <3>2
  <2>2. Latest(st, n) /\ st[n].key # e.key
    BY <1>9, <2>1
  <2>3. \A j \in DOMAIN es : src[j] # n
    <3> SUFFICES ASSUME NEW j \in DOMAIN es, src[j] = n PROVE FALSE
      OBVIOUS
    <3>1. es[j].key # e.key
      BY <1>5, <2>2 DEF StoredAs
    <3>2. PICK i \in 1 .. a : keep[i] = j
      BY <1>4, <3>1
    <3>3. i \in 1 .. a + 1 /\ new[i] = n
      BY <1>1, <1>6, <3>2
    <3>4. QED
      BY <3>3
  <2>4. Gone(st, t, n) /\ \A j \in DOMAIN es : n < src[j]
    BY <1>3, <2>1, <2>2, <2>3 DEF Mirrors, Others
  <2>5. Gone(more, t, n)
    BY <1>3, <2>1, <2>4, GoneStays DEF more
  <2>6. \A i \in 1 .. a + 1 : n < new[i]
    <3> TAKE i \in 1 .. a + 1
    <3>1. CASE i = a + 1
      BY <1>2, <1>6, <2>1, <3>1
    <3>2. CASE i \in 1 .. a
      BY <1>4, <1>6, <2>4, <3>2
    <3>3. QED
      BY <1>7, <3>1, <3>2
  <2>7. QED
    BY <2>5, <2>6
<1> HIDE DEF new
<1>13. Mirrors(new, all, more, t)
  BY <1>11, <1>12 DEF Mirrors
<1>14. QED
  BY <1>13 DEF all, more

(* No key is in the cache twice.                                           *)
LEMMA MirroredOnce ==
  ASSUME NEW es \in Seq(CacheEntry), NEW st \in Seq(StoreRecord), NEW src, NEW t,
         Mirrors(src, es, st, t), NEW i \in DOMAIN es, NEW j \in DOMAIN es,
         es[i].key = es[j].key
  PROVE  i = j
<1>1. i \in Int /\ j \in Int
  OBVIOUS
<1>2. /\ src[i] \in DOMAIN st /\ Latest(st, src[i]) /\ StoredAs(es[i], st[src[i]])
      /\ src[j] \in DOMAIN st /\ Latest(st, src[j]) /\ StoredAs(es[j], st[src[j]])
      /\ i < j => src[i] < src[j]
      /\ j < i => src[j] < src[i]
  BY DEF Mirrors, Sources
<1>3. st[src[i]].key = st[src[j]].key
  BY <1>2 DEF StoredAs
<1>4. src[i] \in Int /\ src[j] \in Int
  BY <1>2
<1>5. ~(src[i] < src[j]) /\ ~(src[j] < src[i])
  BY <1>2, <1>3, <1>4 DEF Latest
<1>6. QED
  BY <1>1, <1>2, <1>5

(* _evict_expired, as a step of the mirror.                                *)
LEMMA EvictMirrored ==
  ASSUME NEW es \in Seq(CacheEntry), NEW st \in Seq(StoreRecord), NEW src,
         Mirrors(src, es, st, now)
  PROVE  /\ EvictExpired(es) \in Seq(CacheEntry) /\ Len(EvictExpired(es)) <= Len(es)
         /\ Len(EvictExpired(es)) > 0 => ~Expired(EvictExpired(es)[1])
         /\ \E new : Mirrors(new, EvictExpired(es), st, now)
<1>1. PICK d \in 0 .. Len(es) : /\ EvictExpired(es) = SubSeq(es, d + 1, Len(es))
                                /\ \A j \in 1 .. d : Expired(es[j])
                                /\ d < Len(es) => ~Expired(es[d + 1])
  BY EvictedIs
<1> DEFINE live == EvictExpired(es)
           new == [i \in 1 .. Len(es) - d |-> src[i + d]]
<1>2. Len(es) \in Nat /\ DOMAIN es = 1 .. Len(es)
  OBVIOUS
<1>3. \A j \in 1 .. d : Gone(st, now, src[j])
  <2> TAKE j \in 1 .. d
  <2>1. j \in DOMAIN es
    BY <1>2
  <2>2. StoredAs(es[j], st[src[j]])
    BY <2>1 DEF Mirrors, Sources
  <2>3. QED
    BY <1>1, <2>2 DEF StoredAs, Expired, Gone
<1>4. /\ live \in Seq(CacheEntry) /\ Len(live) = Len(es) - d
      /\ \A i \in 1 .. Len(es) - d : live[i] = es[i + d]
      /\ Mirrors(new, live, st, now)
  <2> DEFINE rest == SubSeq(es, d + 1, Len(es))
  <2>1. /\ rest \in Seq(CacheEntry) /\ Len(rest) = Len(es) - d
        /\ \A i \in 1 .. Len(es) - d : rest[i] = es[i + d]
        /\ Mirrors(new, rest, st, now)
    BY <1>3, DropGone
  <2>2. live = rest
    BY <1>1
  <2> HIDE DEF live, rest, new
  <2>3. QED
    BY <2>1, <2>2
<1> HIDE DEF live
<1>5. Len(live) <= Len(es)
  BY <1>2, <1>4
<1>6. Len(live) > 0 => d < Len(es) /\ live[1] = es[d + 1]
  <2>1. ASSUME Len(live) > 0 PROVE 1 \in 1 .. Len(es) - d /\ 1 + d = d + 1 /\ d < Len(es)
    BY <1>2, <1>4, <2>1
  <2>2. QED
    BY <1>4, <2>1
<1>7. QED
  BY <1>1, <1>4, <1>5, <1>6 DEF live

(* The put of InProcessDiscoverCache, as a step of the mirror.             *)
LEMMA PutMirrored ==
  ASSUME entries \in Seq(CacheEntry), stores \in Seq(StoreRecord), now \in 0 .. MaxTime,
         NEW src, Mirrors(src, entries, stores, now),
         NEW k \in Keys, NEW words \in Previews, NEW have \in SUBSET Surfaces, NewTo(words, have)
  PROVE  LET r == [key |-> k, at |-> now, value |-> words]
         IN  /\ Put(k, words, have) \in Seq(CacheEntry) /\ Len(Put(k, words, have)) <= MaxEntries
             /\ \E new : Mirrors(new, Put(k, words, have), Append(stores, r), now)
<1> DEFINE r == [key |-> k, at |-> now, value |-> words]
           e == [key |-> k, at |-> now, words |-> words, deck |-> have]
           live == EvictExpired(entries)
           w == Without(live, k)
           all == Append(w, e)
           more == Append(stores, r)
           d == Len(all) - MaxEntries
           rest == SubSeq(all, d + 1, Len(all))
<1>1. r \in StoreRecord /\ e \in CacheEntry /\ StoredAs(e, r) /\ e.key = k
  BY DEF StoreRecord, CacheEntry, Entry, StoredAs
<1>2. Put(k, words, have) = IF Len(all) > MaxEntries THEN rest ELSE all
  BY DEF Put
<1> HIDE DEF r, e, live
<1>3. live \in Seq(CacheEntry) /\ \E new : Mirrors(new, live, stores, now)
  BY EvictMirrored DEF live
<1>4. PICK one : Mirrors(one, live, stores, now)
  BY <1>3
<1>5. w \in Seq(CacheEntry) /\ \E keep : Keeps(keep, w, live, k)
  <2>1. \A i, j \in DOMAIN live : live[i].key = live[j].key => i = j
    BY <1>3, <1>4, MirroredOnce
  <2>2. QED
    BY <1>3, <2>1, WithoutKeeps
<1>6. PICK keep : Keeps(keep, w, live, k)
  BY <1>5
<1> HIDE DEF w
<1>7. PICK two : Mirrors(two, all, more, now)
  <2>1. Keeps(keep, w, live, e.key)
    BY <1>1, <1>6
  <2>2. QED
    BY <1>1, <1>3, <1>4, <1>5, <2>1, StoreMirrored
<1>8. all \in Seq(CacheEntry) /\ more \in Seq(StoreRecord) /\ Len(all) \in Nat /\ MaxEntries \in Nat
  BY <1>1, <1>5, AppendProperties, DiscoverAssumption
<1> HIDE DEF all, more
<1>9. CASE Len(all) <= MaxEntries
  <2>1. Put(k, words, have) = all
    BY <1>2, <1>8, <1>9
  <2>2. QED
    BY <1>7, <1>8, <1>9, <2>1 DEF more, r
<1>10. CASE ~(Len(all) <= MaxEntries)
  <2>1. Put(k, words, have) = rest /\ d \in 0 .. Len(all)
    BY <1>2, <1>8, <1>10
  <2>2. ASSUME NEW j \in 1 .. d PROVE Gone(more, now, two[j])
    <3>1. j \in 1 .. Len(all) /\ j \in DOMAIN all /\ Len(all) - j >= MaxEntries
      BY <1>8, <2>1
    <3>2. Cardinality(Since(more, two[j])) = Len(all) - j
      BY <1>7, <1>8, <3>1, SinceIsBehind
    <3>3. QED
      BY <3>1, <3>2 DEF Gone
  <2> DEFINE three == [i \in 1 .. Len(all) - d |-> two[i + d]]
  <2>3. d + MaxEntries = Len(all) /\ Len(all) - d = MaxEntries
    BY <1>8
  <2> HIDE DEF d
  <2>4. /\ rest \in Seq(CacheEntry) /\ Len(rest) = Len(all) - d
        /\ Mirrors(three, rest, more, now)
    BY <1>7, <1>8, <2>1, <2>2, DropGone
  <2>5. Len(rest) <= MaxEntries
    BY <1>8, <2>3, <2>4
  <2>6. QED
    BY <2>1, <2>4, <2>5 DEF more, r
<1>11. QED
  BY <1>9, <1>10

-----------------------------------------------------------------------------
(* The inductive invariant: what each kind of request carries, how the     *)
(* cache mirrors what was stored, and what the saved cards are made of.    *)
Stands(card) == \A w \in card.used : AppearsAsRun(card.sentence, Bare(w))

Request == [pc : ReqStages, key : Keys \cup {Nothing}, known : SUBSET Surfaces,
            knownAtAsk : SUBSET Surfaces, hit : BOOLEAN, words : Previews \cup {Nothing},
            vocab : SUBSET Surfaces, built : SUBSET Built]

Carries(r, all) ==
  /\ r.pc \in {"lookup", "read", "calling"} => r.key \in Keys
  /\ r.pc \in {"lookup", "read"} => r.knownAtAsk \subseteq all
  /\ r.pc = "calling" \/ (r.pc = "answer" /\ ~r.hit) => r.knownAtAsk \subseteq r.known
  /\ r.pc = "answer" => NewTo(r.words, r.known)
  /\ \A card \in r.built : Stands(card)

LearnerTyped == /\ now \in 0 .. MaxTime
                /\ entries \in Seq(CacheEntry) /\ Len(entries) <= MaxEntries
                /\ deck \subseteq Built
                /\ asked \in 0 .. MaxAsks
                /\ req \in [Handlers -> Request]
                /\ stores \in Seq(StoreRecord)
                /\ found \in Previews \cup {Nothing}

InTime   == \A i, j \in DOMAIN stores :
              i <= j => stores[i].at <= stores[j].at /\ stores[j].at <= now
Mirrored == \E src : Mirrors(src, entries, stores, now)

LearnerInv == /\ LearnerTyped /\ InTime /\ Mirrored
              /\ \A card \in deck : Stands(card)
              /\ \A h \in Handlers : Carries(req[h], KnownWords)

LEMMA OthersCarry ==
  ASSUME NEW h \in Handlers, req \in [Handlers -> Request],
         \A g \in Handlers : Carries(req[g], KnownWords), KnownWords \subseteq KnownWords',
         NEW r \in Request, Carries(r, KnownWords'), req' = [req EXCEPT ![h] = r]
  PROVE  /\ req' \in [Handlers -> Request]
         /\ \A g \in Handlers : Carries(req'[g], KnownWords')
<1>1. req' \in [Handlers -> Request]
  OBVIOUS
<1>2. ASSUME NEW g \in Handlers PROVE Carries(req'[g], KnownWords')
  <2>1. CASE g = h
    BY <2>1
  <2>2. CASE g # h
    <3>1. req'[g] = req[g] /\ Carries(req[g], KnownWords)
      BY <2>2
    <3>2. QED
      BY <3>1 DEF Carries
  <2>3. QED
    BY <2>1, <2>2
<1>3. QED
  BY <1>1, <1>2

(* build_cards: what a card is said to use stands in its sentence.         *)
LEMMA BuiltIsWritten ==
  ASSUME NEW card \in RawCards, NEW vocab
  PROVE  BuiltCard(card, vocab) \in Built /\ Stands(BuiltCard(card, vocab))
<1>1. card.used \in Seq(Surfaces)
  BY DiscoverAssumption
<1>2. \A n \in DOMAIN card.used : card.used[n] \in Surfaces
  BY <1>1, ElementOfSeq
<1>3. VerifiedUsedWords(card, vocab) \subseteq Surfaces
  BY <1>2 DEF VerifiedUsedWords
<1>4. \A w \in VerifiedUsedWords(card, vocab) : AppearsAsRun(card.sentence, Bare(w))
  BY DEF VerifiedUsedWords
<1>5. QED
  BY <1>3, <1>4 DEF BuiltCard, Built, Stands

LEMMA LearnerInitInv ==
  ASSUME LearnerInit
  PROVE  LearnerInv
<1>1. 0 \in 0 .. MaxTime /\ 0 \in 0 .. MaxAsks /\ 0 <= MaxEntries
  BY DiscoverAssumption
<1>2. /\ <<>> \in Seq(CacheEntry) /\ <<>> \in Seq(StoreRecord)
      /\ Len(<<>>) = 0 /\ DOMAIN <<>> = {}
  OBVIOUS
<1>3. Idle \in Request /\ Carries(Idle, KnownWords)
  BY DEF Idle, Nothing, Request, ReqStages, Carries
<1>4. LearnerTyped
  BY <1>1, <1>2, <1>3 DEF LearnerInit, LearnerTyped
<1>5. InTime
  BY <1>2 DEF LearnerInit, InTime
<1>6. Mirrored
  <2>1. Mirrors(<<>>, <<>>, <<>>, now)
    <3>1. <<>> \in [{} -> {}]
      OBVIOUS
    <3>2. QED
      BY <1>2, <3>1 DEF Mirrors, Sources, Others
  <2>2. QED
    BY <2>1 DEF LearnerInit, Mirrored
<1>7. QED
  BY <1>3, <1>4, <1>5, <1>6 DEF LearnerInit, LearnerInv

(* A step that leaves clock, cache and stores alone, for a request that    *)
(* goes on as r.                                                           *)
LEMMA QuietStep ==
  ASSUME LearnerInv, NEW h \in Handlers, NEW r \in Request, Carries(r, KnownWords'),
         ReqBecome(h, r), UNCHANGED <<now, entries, stores, found>>,
         asked' \in 0 .. MaxAsks, deck \subseteq deck', deck' \subseteq Built,
         \A card \in deck' : Stands(card)
  PROVE  LearnerInv'
<1>1. KnownWords \subseteq KnownWords'
  BY DEF KnownWords
<1>2. /\ req' \in [Handlers -> Request]
      /\ \A g \in Handlers : Carries(req'[g], KnownWords')
  BY <1>1, OthersCarry DEF LearnerInv, LearnerTyped, ReqBecome
<1>3. LearnerTyped'
  BY <1>2 DEF LearnerInv, LearnerTyped
<1>4. InTime' /\ Mirrored'
  BY DEF LearnerInv, InTime, Mirrored
<1>5. QED
  BY <1>2, <1>3, <1>4 DEF LearnerInv

LEMMA LearnerStepInv ==
  ASSUME LearnerInv, [LearnerNext]_learnerVars
  PROVE  LearnerInv'
<1> USE DEF LearnerTyped
<1>1. /\ now \in 0 .. MaxTime /\ entries \in Seq(CacheEntry) /\ stores \in Seq(StoreRecord)
      /\ Len(entries) <= MaxEntries /\ deck \subseteq Built /\ asked \in 0 .. MaxAsks
      /\ req \in [Handlers -> Request] /\ found \in Previews \cup {Nothing}
      /\ \A card \in deck : Stands(card)
      /\ \A h \in Handlers : Carries(req[h], KnownWords)
  BY DEF LearnerInv
<1>2. MaxTime \in Nat /\ MaxAsks \in Nat /\ MaxEntries \in Nat /\ Ttl \in Nat
  BY DiscoverAssumption
<1>3. KnownWords \subseteq Surfaces
  BY <1>1 DEF KnownWords, Built
<1>4. Idle \in Request /\ \A all : Carries(Idle, all)
  BY DEF Idle, Nothing, Request, ReqStages, Carries
<1>5. asked < MaxAsks => asked + 1 \in 0 .. MaxAsks
  BY <1>1, <1>2
<1>6. CASE Tick
  <2>1. now' = now + 1 /\ UNCHANGED <<entries, deck, asked, req, stores, found>>
    BY <1>6 DEF Tick
  <2>2. now + 1 \in 0 .. MaxTime
    BY <1>1, <1>2, <1>6 DEF Tick
  <2>0. \A j \in DOMAIN stores : stores[j].at \in 0 .. MaxTime
    <3>1. stores \in Seq(StoreRecord)
      BY <1>1
    <3>2. \A j \in 1 .. Len(stores) : stores[j] \in StoreRecord
      BY <3>1, ElementOfSeq
    <3>3. DOMAIN stores = 1 .. Len(stores)
      BY <3>1
    <3>4. QED
      BY <3>2, <3>3 DEF StoreRecord
  <2>3. InTime'
    <3>1. \A j \in DOMAIN stores : stores[j].at \in 0 .. MaxTime
      BY <2>0
    <3>2. ASSUME NEW i \in DOMAIN stores, NEW j \in DOMAIN stores, i <= j
          PROVE  stores[i].at <= stores[j].at /\ stores[j].at <= now + 1
      <4>1. stores[i].at <= stores[j].at /\ stores[j].at <= now /\ stores[j].at \in 0 .. MaxTime
        BY <3>1, <3>2 DEF LearnerInv, InTime
      <4>2. QED
        BY <1>1, <4>1
    <3>3. QED
      BY <2>1, <3>2 DEF InTime
  <2>4. Mirrored'
    <3>1. PICK src : Mirrors(src, entries, stores, now)
      BY DEF LearnerInv, Mirrored
    <3>2. ASSUME NEW n \in DOMAIN stores, Gone(stores, now, n) PROVE Gone(stores, now + 1, n)
      <4> DEFINE at == stores[n].at
      <4>1. at \in 0 .. MaxTime
        BY <2>0
      <4>2. now - at >= Ttl \/ Cardinality(Since(stores, n)) >= MaxEntries
        BY <3>2 DEF Gone
      <4> DEFINE next == now + 1
      <4> HIDE DEF at
      <4>3. now - at >= Ttl => next - at >= Ttl
        BY <1>1, <1>2, <4>1
      <4>4. next - at >= Ttl \/ Cardinality(Since(stores, n)) >= MaxEntries
        BY <4>2, <4>3
      <4> HIDE DEF next
      <4>5. Gone(stores, next, n)
        BY <4>4 DEF Gone, at
      <4>6. QED
        BY <4>5 DEF next
    <3>3. Mirrors(src, entries, stores, now + 1)
      BY <3>1, <3>2 DEF Mirrors, Others
    <3>4. QED
      BY <2>1, <3>3 DEF Mirrored
  <2>5. KnownWords' = KnownWords
    BY <2>1 DEF KnownWords
  <2>6. QED
    BY <1>1, <2>1, <2>2, <2>3, <2>4, <2>5 DEF LearnerInv
<1>7. ASSUME NEW h \in Handlers, Ask(h) PROVE LearnerInv'
  <2>1. PICK k \in Keys, stage \in {"lookup", "read"} :
          ReqBecome(h, [Idle EXCEPT !.pc = stage, !.key = k, !.knownAtAsk = KnownWords])
    BY <1>7 DEF Ask
  <2> DEFINE r == [Idle EXCEPT !.pc = stage, !.key = k, !.knownAtAsk = KnownWords]
  <2>2. KnownWords' = KnownWords /\ asked' \in 0 .. MaxAsks
    BY <1>5, <1>7 DEF Ask, KnownWords
  <2>3. r \in Request /\ Carries(r, KnownWords)
    BY <1>3 DEF Idle, Nothing, Request, ReqStages, Carries
  <2> HIDE DEF r
  <2>4. ReqBecome(h, r)
    BY <2>1 DEF r
  <2>5. QED
    BY <1>1, <1>7, <2>2, <2>3, <2>4, QuietStep DEF Ask
<1>8. ASSUME NEW h \in Handlers, ReadKnown(h) PROVE LearnerInv'
  <2> DEFINE r == [req[h] EXCEPT !.pc = "calling", !.known = KnownWords]
  <2>1. KnownWords' = KnownWords
    BY <1>8 DEF ReadKnown, KnownWords
  <2>2. req[h] \in Request /\ req[h].pc = "read" /\ Carries(req[h], KnownWords)
    BY <1>1, <1>8 DEF ReadKnown, ReqAt
  <2>3. r \in Request /\ Carries(r, KnownWords)
    BY <1>3, <2>2 DEF Request, ReqStages, Carries
  <2> HIDE DEF r
  <2>4. ReqBecome(h, r)
    BY <1>8 DEF ReadKnown, r
  <2>5. QED
    BY <1>1, <1>8, <2>1, <2>3, <2>4, QuietStep DEF ReadKnown
<1>9. ASSUME NEW h \in Handlers, AskForCards(h) PROVE LearnerInv'
  <2>1. PICK vocab \in SUBSET Surfaces \ {{}} :
          ReqBecome(h, [Idle EXCEPT !.pc = "writing", !.vocab = vocab])
    BY <1>9 DEF AskForCards
  <2> DEFINE r == [Idle EXCEPT !.pc = "writing", !.vocab = vocab]
  <2>2. KnownWords' = KnownWords /\ asked' \in 0 .. MaxAsks
    BY <1>5, <1>9 DEF AskForCards, KnownWords
  <2>3. r \in Request /\ Carries(r, KnownWords)
    BY DEF Idle, Nothing, Request, ReqStages, Carries
  <2> HIDE DEF r
  <2>4. ReqBecome(h, r)
    BY <2>1 DEF r
  <2>5. QED
    BY <1>1, <1>9, <2>2, <2>3, <2>4, QuietStep DEF AskForCards
<1>10. ASSUME NEW h \in Handlers, Accept(h) PROVE LearnerInv'
  <2> DEFINE r == [Idle EXCEPT !.pc = "accepting", !.vocab = Range(req[h].words)]
  <2>1. KnownWords' = KnownWords /\ asked' \in 0 .. MaxAsks
    BY <1>5, <1>10 DEF Accept, KnownWords
  <2>2. Range(req[h].words) \subseteq Surfaces
    <3>1. req[h].words \in Previews \cup {<<>>}
      BY <1>1 DEF Request, Nothing
    <3>2. QED
      BY <3>1 DEF Previews, Range
  <2>3. r \in Request /\ Carries(r, KnownWords)
    BY <2>2 DEF Idle, Nothing, Request, ReqStages, Carries
  <2> HIDE DEF r
  <2>4. ReqBecome(h, r)
    BY <1>10 DEF Accept, r
  <2>5. QED
    BY <1>1, <1>10, <2>1, <2>3, <2>4, QuietStep DEF Accept
<1>11. ASSUME NEW h \in Handlers, Generate(h) PROVE LearnerInv'
  <2> DEFINE stage == IF ReqAt(h, "writing") THEN "built" ELSE "keeping"
  <2>1. PICK cards \in SUBSET RawCards :
          ReqBecome(h, [Idle EXCEPT !.pc = stage,
                                    !.built = {BuiltCard(card, req[h].vocab) : card \in cards}])
    BY <1>11 DEF Generate
  <2> DEFINE built == {BuiltCard(card, req[h].vocab) : card \in cards}
             r == [Idle EXCEPT !.pc = stage, !.built = built]
  <2>2. KnownWords' = KnownWords
    BY <1>11 DEF Generate, KnownWords
  <2>3. built \subseteq Built /\ \A card \in built : Stands(card)
    BY BuiltIsWritten
  <2>4. stage \in {"built", "keeping"}
    OBVIOUS
  <2> HIDE DEF built, stage
  <2>5. r \in Request /\ Carries(r, KnownWords)
    BY <2>3, <2>4 DEF Idle, Nothing, Request, ReqStages, Carries
  <2> HIDE DEF r
  <2>6. ReqBecome(h, r)
    BY <2>1 DEF r, built
  <2>7. QED
    BY <1>1, <1>11, <2>2, <2>5, <2>6, QuietStep DEF Generate
<1>12. ASSUME NEW h \in Handlers, SaveChosen(h) \/ SaveAccepted(h) PROVE LearnerInv'
  <2>1. PICK cards \in SUBSET req[h].built : Store(h, cards)
    BY <1>12 DEF SaveChosen, SaveAccepted
  <2>2. req[h].built \subseteq Built /\ \A card \in cards : Stands(card)
    BY <1>1 DEF Request, Carries
  <2>3. /\ deck' = deck \cup cards /\ ReqBecome(h, Idle)
        /\ UNCHANGED <<now, entries, asked, stores, found>>
    BY <2>1 DEF Store, SaveCards
  <2>4. deck' \subseteq Built /\ deck \subseteq deck' /\ \A card \in deck' : Stands(card)
    BY <1>1, <2>2, <2>3
  <2>5. QED
    BY <1>1, <1>4, <2>3, <2>4, QuietStep
<1>13. ASSUME NEW h \in Handlers, Fail(h) PROVE LearnerInv'
  BY <1>1, <1>4, <1>13, QuietStep DEF Fail
<1>14. ASSUME NEW h \in Handlers, Lookup(h) PROVE LearnerInv'
  <2> DEFINE live == EvictExpired(entries)
  <2>1. PICK src : Mirrors(src, entries, stores, now)
    BY DEF LearnerInv, Mirrored
  <2>2. /\ live \in Seq(CacheEntry) /\ Len(live) <= Len(entries)
        /\ \E new : Mirrors(new, live, stores, now)
    BY <1>1, <2>1, EvictMirrored
  <2>3. /\ req[h].pc = "lookup" /\ entries' = live /\ UNCHANGED <<now, deck, asked, stores>>
        /\ \/ \E i \in DOMAIN live : /\ ReqAnswer(h, live[i].words, live[i].deck, TRUE)
                                     /\ found' = live[i].words
           \/ ReqBecome(h, [req[h] EXCEPT !.pc = "read"]) /\ found' = Nothing
    BY <1>14 DEF Lookup, ReqAt
  <2> HIDE DEF live
  <2>4. Len(live) <= MaxEntries
    <3>1. Len(live) \in Nat /\ Len(entries) \in Nat
      BY <1>1, <2>2
    <3>2. QED
      BY <1>1, <1>2, <2>2, <3>1
  <2>5. KnownWords' = KnownWords
    BY <2>3 DEF KnownWords
  <2>6. req[h] \in Request /\ Carries(req[h], KnownWords)
    BY <1>1
  <2>7. \E r \in Request : /\ Carries(r, KnownWords) /\ ReqBecome(h, r)
                           /\ found' \in Previews \cup {Nothing}
    <3>1. CASE ReqBecome(h, [req[h] EXCEPT !.pc = "read"]) /\ found' = Nothing
      <4> DEFINE r == [req[h] EXCEPT !.pc = "read"]
      <4>1. r \in Request /\ Carries(r, KnownWords)
        BY <2>3, <2>6 DEF Request, ReqStages, Carries
      <4> HIDE DEF r
      <4>2. ReqBecome(h, r)
        BY <3>1 DEF r
      <4>3. QED
        BY <3>1, <4>1, <4>2
    <3>2. ASSUME NEW i \in DOMAIN live, ReqAnswer(h, live[i].words, live[i].deck, TRUE),
                 found' = live[i].words
          PROVE  \E r \in Request : /\ Carries(r, KnownWords) /\ ReqBecome(h, r)
                                    /\ found' \in Previews \cup {Nothing}
      <4> DEFINE e == live[i]
                 r == [req[h] EXCEPT !.pc = "answer", !.key = Nothing, !.words = e.words,
                                     !.known = e.deck, !.hit = TRUE]
      <4>1. e \in CacheEntry
        BY <2>2, ElementOfSeq
      <4>2. e.words \in Previews /\ e.deck \subseteq Surfaces /\ NewTo(e.words, e.deck)
        BY <4>1 DEF CacheEntry, Entry
      <4>3. ReqBecome(h, r) /\ found' = e.words
        BY <3>2 DEF ReqAnswer
      <4> HIDE DEF e
      <4>4. r \in Request /\ Carries(r, KnownWords)
        BY <2>6, <4>2 DEF Request, ReqStages, Carries
      <4> HIDE DEF r
      <4>5. QED
        BY <4>2, <4>3, <4>4
    <3>3. QED
      BY <2>3, <3>1, <3>2
  <2>8. /\ req' \in [Handlers -> Request]
        /\ \A g \in Handlers : Carries(req'[g], KnownWords')
    BY <1>1, <2>5, <2>7, OthersCarry DEF ReqBecome
  <2>9. InTime' /\ Mirrored'
    BY <2>2, <2>3 DEF LearnerInv, InTime, Mirrored
  <2>10. QED
    BY <1>1, <2>2, <2>3, <2>4, <2>7, <2>8, <2>9 DEF LearnerInv
<1>15. ASSUME NEW h \in Handlers, Suggest(h) PROVE LearnerInv'
  <2>1. PICK raw \in RawAnswers :
          LET words == DedupUnknown(raw, req[h].known)
          IN  /\ ReqAt(h, "calling")
              /\ ReqAnswer(h, words, req[h].known, FALSE)
              /\ IF words = <<>> THEN UNCHANGED <<entries, stores>>
                 ELSE /\ entries' = Put(req[h].key, words, req[h].known)
                      /\ stores' = Append(stores, [key |-> req[h].key, at |-> now, value |-> words])
              /\ UNCHANGED <<now, deck, asked, found>>
    BY <1>15 DEF Suggest
  <2> DEFINE words == DedupUnknown(raw, req[h].known)
             rec == [key |-> req[h].key, at |-> now, value |-> words]
             r == [req[h] EXCEPT !.pc = "answer", !.key = Nothing, !.words = words,
                                 !.known = req[h].known, !.hit = FALSE]
  <2>2. words \in Previews \cup {<<>>} /\ NewTo(words, req[h].known)
    BY DedupIsNew
  <2> HIDE DEF words
  <2>3. /\ req[h].pc = "calling" /\ ReqBecome(h, r)
        /\ words = <<>> => UNCHANGED <<entries, stores>>
        /\ words # <<>> => /\ entries' = Put(req[h].key, words, req[h].known)
                           /\ stores' = Append(stores, rec)
        /\ UNCHANGED <<now, deck, asked, found>>
    BY <2>1 DEF words, ReqAt, ReqAnswer
  <2>4. /\ req[h] \in Request /\ Carries(req[h], KnownWords)
        /\ req[h].key \in Keys /\ req[h].known \in SUBSET Surfaces
    BY <1>1, <2>3 DEF Request, Carries
  <2>5. KnownWords' = KnownWords
    BY <2>3 DEF KnownWords
  <2>6. r \in Request /\ Carries(r, KnownWords)
    BY <2>2, <2>3, <2>4 DEF Request, ReqStages, Carries, Nothing
  <2> HIDE DEF r
  <2>7. /\ req' \in [Handlers -> Request]
        /\ \A g \in Handlers : Carries(req'[g], KnownWords')
    BY <1>1, <2>3, <2>5, <2>6, OthersCarry DEF ReqBecome
  <2>8. CASE words = <<>>
    BY <1>1, <2>3, <2>5, <2>6, <2>8, QuietStep
  <2>9. CASE words # <<>>
    <3>1. PICK src : Mirrors(src, entries, stores, now)
      BY DEF LearnerInv, Mirrored
    <3>2. words \in Previews
      BY <2>2, <2>9
    <3>3. /\ entries' \in Seq(CacheEntry) /\ Len(entries') <= MaxEntries
          /\ \E new : Mirrors(new, entries', stores', now)
      BY <1>1, <2>2, <2>3, <2>4, <2>9, <3>1, <3>2, PutMirrored
    <3>4. rec \in StoreRecord /\ rec.at = now
      BY <1>1, <2>4, <3>2 DEF StoreRecord
    <3> HIDE DEF rec
    <3>5. /\ stores' \in Seq(StoreRecord) /\ Len(stores') = Len(stores) + 1
          /\ stores'[Len(stores) + 1] = rec /\ Len(stores) \in Nat
          /\ \A i \in 1 .. Len(stores) : stores'[i] = stores[i]
      BY <1>1, <2>3, <2>9, <3>4, AppendProperties
    <3>6. InTime'
      <4> SUFFICES ASSUME NEW i \in DOMAIN stores', NEW j \in DOMAIN stores', i <= j
                   PROVE  stores'[i].at <= stores'[j].at /\ stores'[j].at <= now
        BY <2>3 DEF InTime
      <4>1. /\ DOMAIN stores = 1 .. Len(stores) /\ DOMAIN stores' = 1 .. Len(stores) + 1
        BY <1>1, <3>5
      <4>2. \A m \in DOMAIN stores : stores'[m].at = stores[m].at /\ stores[m].at <= now
        <5>1. \A m \in DOMAIN stores : m <= m
          BY <4>1
        <5>2. QED
          BY <3>5, <4>1, <5>1 DEF LearnerInv, InTime
      <4>3. CASE j = Len(stores) + 1
        <5>1. stores'[j].at = now /\ now <= now
          BY <1>1, <3>4, <3>5, <4>3
        <5>2. i = Len(stores) + 1 \/ i \in DOMAIN stores
          BY <3>5, <4>1
        <5>3. QED
          BY <4>2, <4>3, <5>1, <5>2
      <4>4. CASE j # Len(stores) + 1
        <5>1. i \in DOMAIN stores /\ j \in DOMAIN stores
          BY <3>5, <4>1, <4>4
        <5>2. stores[i].at <= stores[j].at
          BY <5>1 DEF LearnerInv, InTime
        <5>3. QED
          BY <4>2, <5>1, <5>2
      <4>5. QED
        BY <4>3, <4>4
    <3>7. Mirrored'
      BY <2>3, <3>3 DEF Mirrored
    <3>8. QED
      BY <1>1, <2>3, <2>7, <3>3, <3>5, <3>6, <3>7 DEF LearnerInv
  <2>10. QED
    BY <2>8, <2>9
<1>16. CASE UNCHANGED learnerVars
  <2>1. KnownWords' = KnownWords
    BY <1>16 DEF learnerVars, KnownWords
  <2>2. InTime' /\ Mirrored'
    BY <1>16 DEF learnerVars, LearnerInv, InTime, Mirrored
  <2>3. QED
    BY <1>1, <1>16, <2>1, <2>2 DEF learnerVars, LearnerInv
<1>17. QED
  BY <1>6, <1>7, <1>8, <1>9, <1>10, <1>11, <1>12, <1>13, <1>14, <1>15, <1>16 DEF LearnerNext

-----------------------------------------------------------------------------
LEMMA LearnerInvHolds == LearnerSpec => []LearnerInv
<1>1. LearnerInit => LearnerInv
  BY LearnerInitInv
<1>2. LearnerInv /\ [LearnerNext]_learnerVars => LearnerInv'
  BY LearnerStepInv
<1>3. QED
  BY <1>1, <1>2, PTL DEF LearnerSpec

(* Whatever the provider answers and however requests, saves and failures  *)
(* come between each other: what _dedup_unknown leaves of a suggestion is  *)
(* new to the learner in every spelling, also out of the cache, which put  *)
(* keeps bounded and without empty previews; and what counts as known      *)
(* stands in a saved sentence (_verified_used_words).                      *)
THEOREM PreviewsAreNew == LearnerSpec => []PreviewsHold
<1>1. ASSUME LearnerInv PROVE PreviewsHold
  <2>1. LearnerTyped
    BY <1>1 DEF LearnerInv
  <2>2. entries \in Seq(Entry)
    <3>1. entries \in [1 .. Len(entries) -> CacheEntry] /\ Len(entries) \in Nat
      BY <2>1 DEF LearnerTyped
    <3>2. entries \in [1 .. Len(entries) -> Entry]
      BY <3>1 DEF CacheEntry
    <3>3. QED
      BY <3>1, <3>2
  <2>3. TypeOK
    BY <2>1, <2>2 DEF LearnerTyped, TypeOK, Request, StoreRecord, Built
  <2>4. OnlyLearnedSince
    BY <1>1 DEF LearnerInv, Carries, OnlyLearnedSince, ReqAt, NewTo
  <2>5. KnownIsWritten
    BY <1>1 DEF LearnerInv, Stands, KnownIsWritten, KnownWords
  <2>6. QED
    BY <2>3, <2>4, <2>5 DEF PreviewsHold
<1>2. QED
  BY <1>1, LearnerInvHolds, PTL

(* A lookup of the cache is one of the reuse window.                       *)
LEMMA LookupKeepsPromise ==
  ASSUME LearnerInv, NEW h \in Handlers, Lookup(h)
  PROVE  \E k \in Keys : Promise!Lookup(k)
<1> DEFINE live == EvictExpired(entries)
           k == req[h].key
<1>1. /\ entries \in Seq(CacheEntry) /\ stores \in Seq(StoreRecord)
      /\ Len(entries) <= MaxEntries /\ now \in 0 .. MaxTime
      /\ req[h] \in Request /\ Carries(req[h], KnownWords)
  BY DEF LearnerInv, LearnerTyped
<1>2. MaxTime \in Nat /\ MaxEntries \in Nat /\ Ttl \in Nat
  BY DiscoverAssumption
<1>3. k \in Keys
  BY <1>1 DEF Carries, Lookup, ReqAt
<1>4. PICK old : Mirrors(old, entries, stores, now)
  BY DEF LearnerInv, Mirrored
<1>5. /\ live \in Seq(CacheEntry) /\ Len(live) <= Len(entries)
      /\ Len(live) > 0 => ~Expired(live[1])
      /\ \E new : Mirrors(new, live, stores, now)
  BY <1>1, <1>4, EvictMirrored
<1>6. /\ UNCHANGED <<now, stores>>
      /\ \/ \E i \in DOMAIN live : live[i].key = k /\ found' = live[i].words
         \/ (\A i \in DOMAIN live : live[i].key # k) /\ found' = Nothing
  BY DEF Lookup, ReqAnswer
<1> HIDE DEF live, k
<1>7. PICK src : Mirrors(src, live, stores, now)
  BY <1>5
<1>8. DOMAIN live = 1 .. Len(live) /\ Len(live) \in Nat /\ Len(live) <= MaxEntries
  <2>1. Len(entries) \in Nat
    BY <1>1
  <2>2. QED
    BY <1>1, <1>2, <1>5, <2>1
<1>9. \A i \in DOMAIN live : /\ src[i] \in DOMAIN stores /\ Latest(stores, src[i])
                            /\ StoredAs(live[i], stores[src[i]])
  BY <1>7 DEF Mirrors, Sources
<1>10. \A n \in DOMAIN stores : stores[n].at \in 0 .. MaxTime
  <2>1. \A n \in 1 .. Len(stores) : stores[n] \in StoreRecord
    BY <1>1, ElementOfSeq
  <2>2. DOMAIN stores = 1 .. Len(stores)
    BY <1>1
  <2>3. QED
    BY <2>1, <2>2 DEF StoreRecord
<1>11. ASSUME NEW n \in DOMAIN stores
       PROVE  Promise!Kept(n) <=> Latest(stores, n) /\ ~Gone(stores, now, n)
  <2> DEFINE at == stores[n].at
             c == Cardinality(Since(stores, n))
  <2>1. Promise!Kept(n) <=> Latest(stores, n) /\ now - at < Ttl /\ c < MaxEntries
    <3>1. Promise!KeysSince(n) = Since(stores, n)
      BY DEF Promise!KeysSince, Since
    <3>2. Promise!IsLatest(n) <=> Latest(stores, n)
      BY DEF Promise!IsLatest, Latest
    <3>3. Promise!Kept(n) <=> /\ Promise!IsLatest(n) /\ now - stores[n].at < Ttl
                              /\ Promise!Cardinality(Promise!KeysSince(n)) < MaxEntries
      BY DEF Promise!Kept
    <3>4. Promise!Cardinality(Promise!KeysSince(n)) = c
      BY <3>1 DEF Promise!Cardinality, Cardinality
    <3> HIDE DEF c
    <3>5. QED
      BY <3>2, <3>3, <3>4
  <2>2. Gone(stores, now, n) <=> now - at >= Ttl \/ c >= MaxEntries
    BY DEF Gone
  <2>3. at \in 0 .. MaxTime /\ c \in Nat
    BY <1>1, <1>10, SinceIsFinite
  <2> HIDE DEF at, c
  <2>4. (now - at >= Ttl <=> ~(now - at < Ttl)) /\ (c >= MaxEntries <=> ~(c < MaxEntries))
    BY <1>1, <1>2, <2>3
  <2>5. QED
    BY <2>1, <2>2, <2>4
(* Every entry that is left is within the window: the first one is young,  *)
(* those behind it are younger, and fewer than MaxEntries are behind.      *)
<1>12. ASSUME NEW i \in DOMAIN live PROVE Promise!Kept(src[i])
  <2>1. 1 \in DOMAIN live /\ Len(live) > 0 /\ i >= 1 /\ i <= Len(live) /\ i \in Nat
    BY <1>8
  <2>2. src[1] <= src[i]
    <3>1. src[1] \in Nat
      BY <1>1, <1>9, <2>1
    <3>2. CASE i = 1
      BY <3>1, <3>2
    <3>3. CASE i # 1
      <4>1. 1 < i
        BY <2>1, <3>3
      <4>2. src[1] < src[i] /\ src[i] \in Nat
        BY <1>1, <1>7, <1>9, <2>1, <4>1 DEF Mirrors, Sources
      <4>3. QED
        BY <3>1, <4>2
    <3>4. QED
      BY <3>2, <3>3
  <2>3. stores[src[1]].at <= stores[src[i]].at
    BY <1>9, <2>1, <2>2 DEF LearnerInv, InTime
  <2>4. now - stores[src[i]].at < Ttl
    <3> DEFINE first == stores[src[1]].at
               this == stores[src[i]].at
    <3>1. ~(now - first >= Ttl)
      BY <1>5, <1>9, <2>1 DEF Expired, StoredAs
    <3>2. first \in 0 .. MaxTime /\ this \in 0 .. MaxTime /\ first <= this
      BY <1>9, <1>10, <2>1, <2>3
    <3> HIDE DEF first, this
    <3>3. now - this < Ttl
      BY <1>1, <1>2, <3>1, <3>2
    <3>4. QED
      BY <3>3 DEF this
  <2>5. Cardinality(Since(stores, src[i])) < MaxEntries
    <3>1. Cardinality(Since(stores, src[i])) = Len(live) - i
      BY <1>1, <1>5, <1>7, SinceIsBehind
    <3>2. Len(live) - i < MaxEntries
      BY <1>2, <1>8, <2>1
    <3>3. QED
      BY <3>1, <3>2
  <2>6. ~Gone(stores, now, src[i])
    <3> DEFINE at == stores[src[i]].at
               c == Cardinality(Since(stores, src[i]))
    <3>1. at \in 0 .. MaxTime /\ c \in Nat /\ now - at < Ttl /\ c < MaxEntries
      BY <1>1, <1>9, <1>10, <2>4, <2>5, SinceIsFinite
    <3>2. Gone(stores, now, src[i]) <=> now - at >= Ttl \/ c >= MaxEntries
      BY DEF Gone
    <3> HIDE DEF at, c
    <3>3. ~(now - at >= Ttl) /\ ~(c >= MaxEntries)
      BY <1>1, <1>2, <3>1
    <3>4. QED
      BY <3>2, <3>3
  <2>7. QED
    BY <1>9, <1>11, <2>6
<1>13. CASE \E i \in DOMAIN live : live[i].key = k /\ found' = live[i].words
  <2>1. PICK i \in DOMAIN live : live[i].key = k /\ found' = live[i].words
    BY <1>13
  <2>2. src[i] \in Promise!StoresOf(k) /\ found' = stores[src[i]].value
    BY <1>9, <2>1 DEF Promise!StoresOf, StoredAs
  <2>3. Promise!Kept(src[i])
    BY <1>12
  <2>4. QED
    BY <1>3, <1>6, <2>2, <2>3 DEF Promise!Lookup
<1>14. CASE (\A i \in DOMAIN live : live[i].key # k) /\ found' = Nothing
  <2>1. ASSUME NEW n \in Promise!StoresOf(k) PROVE ~Promise!Kept(n)
    <3>1. n \in DOMAIN stores /\ stores[n].key = k
      BY DEF Promise!StoresOf
    <3>2. \A i \in DOMAIN live : src[i] # n
      BY <1>9, <1>14, <3>1 DEF StoredAs
    <3>3. Latest(stores, n) => Gone(stores, now, n)
      BY <1>7, <3>1, <3>2 DEF Mirrors, Others
    <3>4. QED
      BY <1>11, <3>1, <3>3
  <2>2. QED
    BY <1>3, <1>6, <1>14, <2>1 DEF Promise!Lookup
<1>15. QED
  BY <1>6, <1>13, <1>14

(* Expiry from the front, eviction of the oldest and the new place of a    *)
(* key stored anew never show: a lookup finds exactly what the latest of   *)
(* all stores of its key says, if it is young and not crowded out.         *)
THEOREM CacheKeepsPromise == LearnerSpec => ImplementsReuseWindow
<1>1. LearnerInit => Promise!Init
  BY DEF LearnerInit, Promise!Init
<1>2. LearnerInv /\ [LearnerNext]_learnerVars => [Promise!Next]_(Promise!vars)
  <2> SUFFICES ASSUME LearnerInv, [LearnerNext]_learnerVars
               PROVE  Promise!Next \/ UNCHANGED <<now, stores, found>>
    BY DEF Promise!vars
  <2>1. CASE Tick
    BY <2>1 DEF Tick, Promise!Next, Promise!Tick
  <2>2. ASSUME NEW h \in Handlers, Lookup(h) PROVE Promise!Next
    BY <2>2, LookupKeepsPromise DEF Promise!Next
  <2>3. ASSUME NEW h \in Handlers, Suggest(h)
        PROVE  Promise!Next \/ UNCHANGED <<now, stores, found>>
    <3>1. PICK raw \in RawAnswers :
            LET words == DedupUnknown(raw, req[h].known)
            IN  /\ ReqAt(h, "calling")
                /\ IF words = <<>> THEN UNCHANGED <<entries, stores>>
                   ELSE stores' = Append(stores, [key |-> req[h].key, at |-> now, value |-> words])
                /\ UNCHANGED <<now, deck, asked, found>>
      BY <2>3 DEF Suggest
    <3> DEFINE words == DedupUnknown(raw, req[h].known)
    <3>2. words \in Previews \cup {<<>>}
      BY DedupIsNew
    <3> HIDE DEF words
    <3>3. /\ words = <<>> => UNCHANGED stores
          /\ words # <<>> =>
               stores' = Append(stores, [key |-> req[h].key, at |-> now, value |-> words])
          /\ UNCHANGED <<now, found>> /\ req[h].pc = "calling"
      BY <3>1 DEF words, ReqAt
    <3>4. req[h].key \in Keys
      BY <3>3 DEF LearnerInv, Carries
    <3>5. CASE words = <<>>
      BY <3>3, <3>5
    <3>6. CASE words # <<>>
      <4>1. words \in Previews
        BY <3>2, <3>6
      <4>2. Promise!Store(req[h].key, words)
        BY <3>3, <3>6 DEF Promise!Store
      <4>3. QED
        BY <3>4, <4>1, <4>2 DEF Promise!Next
    <3>7. QED
      BY <3>5, <3>6
  <2>4. ASSUME NEW h \in Handlers,
               \/ Ask(h) \/ ReadKnown(h) \/ AskForCards(h) \/ Accept(h) \/ Generate(h)
               \/ SaveChosen(h) \/ SaveAccepted(h) \/ Fail(h)
        PROVE  UNCHANGED <<now, stores, found>>
    BY <2>4 DEF Ask, ReadKnown, AskForCards, Accept, Generate, SaveChosen, SaveAccepted, Store, Fail
  <2>5. CASE UNCHANGED learnerVars
    BY <2>5 DEF learnerVars
  <2>6. QED
    BY <2>1, <2>2, <2>3, <2>4, <2>5 DEF LearnerNext
<1>3. QED
  BY <1>1, <1>2, LearnerInvHolds, PTL DEF LearnerSpec, ImplementsReuseWindow, Promise!Spec
=============================================================================
