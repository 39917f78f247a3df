-------------------------- MODULE OutputWorkerProofs --------------------------
(***************************************************************************)
(* Safety of the way of the output events for every scenario and every     *)
(* capacity of the two channels: the type invariant, that the telemetry    *)
(* attributes to a request only what happened to it, that the terminal     *)
(* shows what was emitted, and that a summary is complete.                 *)
(*                                                                         *)
(* The telemetry is behind the workers by the events that wait in the      *)
(* output channel.  The first invariant therefore speaks of the recorders  *)
(* ahead: the recorder now, the one after the first event that waits, and  *)
(* so on to the last, which has to agree with the workers as they are.     *)
(*                                                                         *)
(* The second invariant, SinksAhead, says the same of the words that the   *)
(* recorder gathers and of the sink inside, which is behind by the events  *)
(* of both channels: a way of events leads from the terminal as it is to   *)
(* one that has everything the workers did, and it is right after each of  *)
(* them.                                                                   *)
(***************************************************************************)
EXTENDS OutputWorker, TLAPS, SequenceTheorems, FiniteSetTheorems, WellFoundedInduction

-----------------------------------------------------------------------------
(* The inductive invariant: types *)

WindowsTyped ==
  /\ asked \in [Speakers -> 0..MaxQuestions] /\ text \in BOOLEAN /\ closing \in BOOLEAN
  /\ flushing \in [Speakers -> Owners]
  /\ flushPc \in [Speakers -> {"no", "resolve", "queue", "queued"}]
  /\ \A s \in Speakers :
       /\ flushing[s] = IF flushPc[s] = "no" THEN None ELSE <<s, asked[s]>>
       /\ flushPc[s] # "no" => asked[s] # 0
  /\ words \in Nat /\ places \in Nat

LlmTyped ==
  /\ requests \in Seq(Requests) /\ answering \in Owners /\ given \in Nat
  /\ llmPc \in {"idle", "streaming", "updated"} /\ (llmPc = "idle" <=> answering = None)
  /\ happened \in [Requests -> SUBSET Whats] /\ revisions \in Seq(Owners)

SinksTyped ==
  /\ inner \in Seq(Events)
  /\ sinkPc \in {"forwarding", "awaiting", "finishing", "ok", "error"}
  /\ innerPc \in {"running", "ended", "failed"}
  /\ innerOpen <=> sinkPc = "forwarding"
  /\ (summary # <<>>) <=> sinkPc = "ok"

Typing ==
  /\ scenario \in Scenarios /\ notices \in Nat
  /\ WindowsTyped /\ LlmTyped /\ SinksTyped
  /\ output \in Seq(Events)

-----------------------------------------------------------------------------
(* The inductive invariant: the workers *)

\* A question is asked once, queued once and answered once.
QuestionsGoOn ==
  /\ \A r \in Requests :
       /\ r[2] > asked[r[1]] => happened[r] = {}
       /\ "started" \in happened[r] => "queued" \in happened[r]
       /\ "completed" \in happened[r] \/ "failed" \in happened[r] =>
            "started" \in happened[r] /\ answering # r
       /\ ~("completed" \in happened[r] /\ "failed" \in happened[r])
  /\ \A s \in Speakers :
       flushPc[s] \in {"resolve", "queue"} => "queued" \notin happened[flushing[s]]
  /\ answering # None => "started" \in happened[answering]

QueueIsUnanswered ==
  \A i \in 1..Len(requests) :
    /\ "queued" \in happened[requests[i]] /\ "started" \notin happened[requests[i]]
    /\ \A k \in 1..Len(requests) : requests[k] = requests[i] => k = i

-----------------------------------------------------------------------------
(* The inductive invariant: the recorders ahead *)

\* The times of the speech are all of now.
AllOf(times, now) ==
  /\ times.draft \in {None, now} /\ times.final \in {None, now}
  /\ times.speechFinal \in {None, now} /\ times.utteranceEnd \in {None, now}
  /\ times.wordEnd \in {None, now} /\ times.toBoundary \in {None, now}

Recent(t) == AllOf(t.last, t.now) /\ (t.draftActive => t.last.draft = t.now)

\* What RequestsAreAttributed says of the metrics m of a request r, to which hap
\* happened.
Attributed(r, m, hap) ==
  /\ m.noted \subseteq hap
  /\ ~("completed" \in m.noted /\ "failed" \in m.noted)
  /\ m.answer = UpTo(Len(m.answer))
  /\ r[1] = "interviewer" /\ "ready" \in m.noted =>
       m.speech.draft = r[2] - 1 /\ AllOf(m.speech, r[2] - 1)

Fine(t, hap, rev) ==
  /\ \A r \in Requests : Attributed(r, t.requests[r], hap[r])
  /\ IsPrefix(t.liveCoding, rev)

\* recs[i] is the recorder after i of the events.
Recorders(recs, now, events, hap, rev) ==
  /\ recs \in [0..Len(events) -> Record]
  /\ recs[0] = now
  /\ \A i \in 1..Len(events) : recs[i] = Recorder!Record(recs[i - 1], events[i])
  /\ \A i \in 0..Len(events) : Fine(recs[i], hap, rev)

Leads(now, events, hap, rev, t) ==
  \E recs : Recorders(recs, now, events, hap, rev) /\ recs[Len(events)] = t

\* The recorder t has everything the workers did.
AnswersSettled(t) ==
  /\ \A r \in Requests :
       /\ t.requests[r].noted = happened[r]
       /\ "started" \notin happened[r] => t.requests[r].answer = <<>>
  /\ answering # None => t.requests[answering].answer = UpTo(given)
  /\ t.active = answering /\ t.liveCoding = revisions

SpeechSettled(t) ==
  /\ t.now = asked["interviewer"] /\ Recent(t)
  /\ text => t.last.draft = t.now

RecordersAhead ==
  /\ sinkPc # "error" =>
       \E t \in Record : /\ Leads(rec, output, happened, revisions, t)
                         /\ AnswersSettled(t) /\ SpeechSettled(t)
  /\ sinkPc = "error" => rec \in Record /\ Fine(rec, happened, revisions)

IInv ==
  /\ Typing
  /\ QuestionsGoOn
  /\ QueueIsUnanswered
  /\ RecordersAhead

-----------------------------------------------------------------------------
(* Lemmas about the recorder: requests *)

\* What is noted of r, and what stays.
NotedIn(s, t, r, what) ==
  /\ t \in Record
  /\ \A q \in Requests : q # r => t.requests[q] = s.requests[q]
  /\ t.requests[r].noted = s.requests[r].noted \cup {what}

SpeechKept(s, t) == t.now = s.now /\ t.last = s.last /\ t.draftActive = s.draftActive

RestKept(s, t, r) ==
  /\ t.requests[r].answer = s.requests[r].answer
  /\ t.requests[r].speech = s.requests[r].speech
  /\ SpeechKept(s, t)

LEMMA RequestsAre == \A r \in Requests : r \in Owners /\ r # None
BY NoneAssumption DEF Owners

LEMMA NoteIs ==
  ASSUME NEW s \in Record, NEW r \in Requests, NEW what \in Whats,
         NEW t, t = Recorder!Note(s, r, what)
  PROVE  /\ NotedIn(s, t, r, what) /\ RestKept(s, t, r)
         /\ t.active = s.active /\ t.liveCoding = s.liveCoding
<1> DEFINE m == [s.requests[r] EXCEPT !.noted = @ \cup {what}]
           all == [s.requests EXCEPT ![r] = m]
<1>1. s.requests \in [Requests -> Metrics]
  BY DEF Record
<1>2. s.requests[r] \in Metrics
  BY <1>1
<1>3. /\ m \in Metrics /\ m.noted = s.requests[r].noted \cup {what}
      /\ m.answer = s.requests[r].answer /\ m.speech = s.requests[r].speech
  BY <1>2 DEF Metrics
<1>4. t = [s EXCEPT !.requests = all]
  BY DEF Recorder!Note
<1> HIDE DEF m
<1>5. /\ all \in [Requests -> Metrics] /\ all[r] = m
      /\ \A q \in Requests : q # r => all[q] = s.requests[q]
  BY <1>1, <1>3
<1> HIDE DEF all
<1>6. /\ t.requests = all /\ t.now = s.now /\ t.last = s.last /\ t.draftActive = s.draftActive
      /\ t.active = s.active /\ t.liveCoding = s.liveCoding
  BY <1>4 DEF Record
<1>7. t \in Record
  BY <1>4, <1>5 DEF Record
<1> QED
  BY <1>3, <1>5, <1>6, <1>7 DEF NotedIn, RestKept, SpeechKept

LEMMA StartedIs ==
  ASSUME NEW s \in Record, NEW r \in Requests, NEW t, t = Recorder!Started(s, r)
  PROVE  /\ NotedIn(s, t, r, "started") /\ RestKept(s, t, r)
         /\ t.active = r /\ t.liveCoding = s.liveCoding
<1>1. PICK n : n = Recorder!Note(s, r, "started")
  OBVIOUS
<1>2. "started" \in Whats
  BY DEF Whats
<1>3. /\ NotedIn(s, n, r, "started") /\ RestKept(s, n, r)
      /\ n.active = s.active /\ n.liveCoding = s.liveCoding
  BY <1>1, <1>2, NoteIs
<1>4. n \in Record
  BY <1>3 DEF NotedIn
<1>5. t = [n EXCEPT !.active = r]
  BY <1>1 DEF Recorder!Started
<1>6. /\ t \in Record /\ t.active = r /\ t.requests = n.requests /\ t.liveCoding = n.liveCoding
      /\ SpeechKept(n, t)
  BY <1>4, <1>5, RequestsAre DEF Record, SpeechKept
<1> QED
  BY <1>3, <1>6 DEF NotedIn, RestKept, SpeechKept

\* The answer has come to its end, one way or the other.
Ended(s, r, what) == [Recorder!Note(s, r, what) EXCEPT !.active = None]

LEMMA EndedIs ==
  ASSUME NEW s \in Record, NEW r \in Requests, NEW what \in {"completed", "failed"}, NEW t,
         t = Ended(s, r, what)
  PROVE  /\ NotedIn(s, t, r, what) /\ RestKept(s, t, r)
         /\ t.active = None /\ t.liveCoding = s.liveCoding
<1>1. PICK n : n = Recorder!Note(s, r, what)
  OBVIOUS
<1>2. what \in Whats
  BY DEF Whats
<1>3. /\ NotedIn(s, n, r, what) /\ RestKept(s, n, r)
      /\ n.active = s.active /\ n.liveCoding = s.liveCoding
  BY <1>1, <1>2, NoteIs
<1>4. n \in Record
  BY <1>3 DEF NotedIn
<1>5. t = [n EXCEPT !.active = None]
  BY <1>1 DEF Ended
<1>6. /\ t \in Record /\ t.active = None /\ t.requests = n.requests
      /\ t.liveCoding = n.liveCoding /\ SpeechKept(n, t)
  BY <1>4, <1>5 DEF Record, Owners, SpeechKept
<1> QED
  BY <1>3, <1>6 DEF NotedIn, RestKept, SpeechKept

LEMMA DeltaIs ==
  ASSUME NEW s \in Record, NEW r \in Requests, NEW delta \in Nat, NEW t,
         t = Recorder!Delta(s, r, delta)
  PROVE  /\ NotedIn(s, t, r, "token")
         /\ t.requests[r].answer = Append(s.requests[r].answer, delta)
         /\ t.requests[r].speech = s.requests[r].speech
         /\ SpeechKept(s, t) /\ t.active = s.active /\ t.liveCoding = s.liveCoding
<1>1. PICK n : n = Recorder!Note(s, r, "token")
  OBVIOUS
<1>2. "token" \in Whats
  BY DEF Whats
<1>3. /\ NotedIn(s, n, r, "token") /\ RestKept(s, n, r)
      /\ n.active = s.active /\ n.liveCoding = s.liveCoding
  BY <1>1, <1>2, NoteIs
<1>4. n \in Record
  BY <1>3 DEF NotedIn
<1>5. n.requests \in [Requests -> Metrics]
  BY <1>4 DEF Record
<1>6. n.requests[r] \in Metrics
  BY <1>5
<1> DEFINE longer == Append(n.requests[r].answer, delta)
           m == [n.requests[r] EXCEPT !.answer = longer]
           all == [n.requests EXCEPT ![r] = m]
<1>7. longer \in Seq(Nat)
  BY <1>6, AppendProperties DEF Metrics
<1>8. t = [n EXCEPT !.requests = all]
  BY <1>1 DEF Recorder!Delta
<1>9. longer = Append(s.requests[r].answer, delta)
  BY <1>3 DEF RestKept
<1> HIDE DEF longer
<1>10. /\ m \in Metrics /\ m.noted = n.requests[r].noted
       /\ m.answer = longer /\ m.speech = n.requests[r].speech
  BY <1>6, <1>7 DEF Metrics
<1> HIDE DEF m
<1>11. /\ all \in [Requests -> Metrics] /\ all[r] = m
       /\ \A q \in Requests : q # r => all[q] = n.requests[q]
  BY <1>5, <1>10
<1> HIDE DEF all
<1>12. /\ t \in Record /\ t.requests = all /\ SpeechKept(n, t) /\ t.active = n.active
       /\ t.liveCoding = n.liveCoding
  BY <1>4, <1>8, <1>11 DEF Record, SpeechKept
<1> QED
  BY <1>3, <1>9, <1>10, <1>11, <1>12 DEF NotedIn, RestKept, SpeechKept

LEMMA NoTimesAre ==
  /\ Recorder!NoTimes \in Times
  /\ \A now : AllOf(Recorder!NoTimes, now)
BY DEF Recorder!NoTimes, Times, Time, AllOf

\* A question of the interviewer takes the times, one of the candidate does not.
LEMMA QuestionIs ==
  ASSUME NEW s \in Record, NEW r \in Requests, NEW t, t = Recorder!Question(s, r)
  PROVE  /\ NotedIn(s, t, r, "ready")
         /\ t.requests[r].answer = s.requests[r].answer
         /\ t.active = s.active /\ t.liveCoding = s.liveCoding
         /\ r[1] # "interviewer" => SpeechKept(s, t)
         /\ r[1] = "interviewer" =>
              /\ t.requests[r].speech = s.last /\ t.now = s.now + 1
              /\ t.last = Recorder!NoTimes /\ t.draftActive = FALSE
<1>1. PICK n : n = Recorder!Note(s, r, "ready")
  OBVIOUS
<1>2. "ready" \in Whats
  BY DEF Whats
<1>3. /\ NotedIn(s, n, r, "ready") /\ RestKept(s, n, r)
      /\ n.active = s.active /\ n.liveCoding = s.liveCoding
  BY <1>1, <1>2, NoteIs
<1>4. n \in Record
  BY <1>3 DEF NotedIn
<1>5. CASE r[1] # "interviewer"
  <2>1. t = n
    BY <1>1, <1>5 DEF Recorder!Question, Recorder!Interviewer
  <2> QED
    BY <1>3, <1>5, <2>1 DEF NotedIn, RestKept, SpeechKept
<1>6. CASE r[1] = "interviewer"
  <2>1. n.requests \in [Requests -> Metrics] /\ s.last \in Times /\ n.now \in Nat
    BY <1>4 DEF Record
  <2>2. n.requests[r] \in Metrics
    BY <2>1
  <2> DEFINE m == [n.requests[r] EXCEPT !.speech = s.last]
             all == [n.requests EXCEPT ![r] = m]
  <2>3. t = [n EXCEPT !.requests = all, !.last = Recorder!NoTimes, !.draftActive = FALSE,
                      !.now = n.now + 1]
    BY <1>1, <1>6 DEF Recorder!Question, Recorder!Interviewer
  <2>4. /\ m \in Metrics /\ m.noted = n.requests[r].noted
        /\ m.answer = n.requests[r].answer /\ m.speech = s.last
    BY <2>1, <2>2 DEF Metrics
  <2> HIDE DEF m
  <2>5. /\ all \in [Requests -> Metrics] /\ all[r] = m
        /\ \A q \in Requests : q # r => all[q] = n.requests[q]
    BY <2>1, <2>4
  <2> HIDE DEF all
  <2>6. n.now + 1 \in Nat
    BY <2>1
  <2>7. /\ t.requests = all /\ t.active = n.active /\ t.liveCoding = n.liveCoding
        /\ t.now = n.now + 1 /\ t.last = Recorder!NoTimes /\ t.draftActive = FALSE
    BY <1>4, <2>3 DEF Record
  <2>8. t \in Record
    BY <1>4, <2>3, <2>5, <2>6, NoTimesAre DEF Record
  <2> QED
    BY <1>3, <1>6, <2>4, <2>5, <2>7, <2>8 DEF NotedIn, RestKept, SpeechKept
<1> QED
  BY <1>5, <1>6

LEMMA RevisedIs ==
  ASSUME NEW s \in Record, NEW t, t = Recorder!Revised(s)
  PROVE  /\ t \in Record /\ t.requests = s.requests /\ SpeechKept(s, t)
         /\ t.active = s.active /\ t.liveCoding = Append(s.liveCoding, s.active)
<1> DEFINE longer == Append(s.liveCoding, s.active)
<1>1. longer \in Seq(Owners)
  BY AppendProperties DEF Record
<1>2. t = [s EXCEPT !.liveCoding = longer]
  BY DEF Recorder!Revised
<1> HIDE DEF longer
<1>3. /\ t \in Record /\ t.requests = s.requests /\ SpeechKept(s, t)
      /\ t.active = s.active /\ t.liveCoding = longer
  BY <1>1, <1>2 DEF Record, SpeechKept
<1> QED
  BY <1>3 DEF longer

-----------------------------------------------------------------------------
(* Lemmas about the recorder: speech *)

\* Speech leaves the requests alone and has no times but those of now.
Heard(s, t) ==
  /\ t \in Record /\ t.requests = s.requests /\ t.active = s.active
  /\ t.liveCoding = s.liveCoding /\ t.now = s.now
  /\ Recent(s) => Recent(t)
  /\ t.last.draft \in {s.last.draft, s.now}

LEMMA HeardNothing ==
  ASSUME NEW s \in Record
  PROVE  Heard(s, s)
BY DEF Heard

LEMMA HeardFurther ==
  ASSUME NEW s, NEW t, NEW u, Heard(s, t), Heard(t, u)
  PROVE  Heard(s, u)
BY DEF Heard

\* Only what is not about times changes.
Unheard(s, t) ==
  /\ t \in Record /\ t.requests = s.requests /\ t.active = s.active
  /\ t.liveCoding = s.liveCoding /\ SpeechKept(s, t)

LEMMA UnheardIsHeard ==
  ASSUME NEW s, NEW t, Unheard(s, t)
  PROVE  Heard(s, t)
BY DEF Unheard, SpeechKept, Heard, Recent

\* Several fields of the last times become now.
LEMMA TimesAreNow ==
  ASSUME NEW s \in Record, NEW t \in Record, NEW times \in Times,
         t.requests = s.requests, t.active = s.active, t.liveCoding = s.liveCoding,
         t.now = s.now, t.draftActive = s.draftActive, t.last = times,
         times.draft = s.last.draft, times.final \in {s.last.final, s.now},
         times.speechFinal \in {s.last.speechFinal, s.now},
         times.utteranceEnd \in {s.last.utteranceEnd, s.now},
         times.wordEnd \in {s.last.wordEnd, s.now},
         times.toBoundary \in {s.last.toBoundary, s.now}
  PROVE  Heard(s, t)
BY DEF Heard, Recent, AllOf

LEMMA StartDraftIs ==
  ASSUME NEW s \in Record, NEW t, t = Recorder!StartDraft(s)
  PROVE  /\ Heard(s, t) /\ t.last.draft = t.now /\ t.draftActive = TRUE /\ Recent(t)
         /\ t.utterances = s.utterances /\ t.utteranceOpen = s.utteranceOpen
<1> DEFINE times == [Recorder!NoTimes EXCEPT !.draft = s.now]
<1>1. s.now \in Nat
  BY DEF Record
<1>2. times \in Times /\ times.draft = s.now /\ AllOf(times, s.now)
  BY <1>1 DEF Recorder!NoTimes, Times, Time, AllOf
<1>3. t = [s EXCEPT !.draftActive = TRUE, !.last = times]
  BY DEF Recorder!StartDraft
<1> HIDE DEF times
<1>4. /\ t.requests = s.requests /\ t.active = s.active /\ t.liveCoding = s.liveCoding
      /\ t.now = s.now /\ t.draftActive = TRUE /\ t.last = times
      /\ t.utterances = s.utterances /\ t.utteranceOpen = s.utteranceOpen
  BY <1>3 DEF Record
<1>5. t \in Record
  BY <1>2, <1>3 DEF Record
<1> QED
  BY <1>2, <1>4, <1>5 DEF Heard, Recent

LEMMA DraftIs ==
  ASSUME NEW s \in Record, NEW empty \in BOOLEAN, NEW t, t = Recorder!Draft(s, empty)
  PROVE  /\ Heard(s, t)
         /\ ~empty /\ Recent(s) => t.last.draft = t.now
<1>1. CASE empty
  <2>1. t = [s EXCEPT !.draftActive = FALSE]
    BY <1>1 DEF Recorder!Draft
  <2>2. /\ t \in Record /\ t.requests = s.requests /\ t.active = s.active
        /\ t.liveCoding = s.liveCoding /\ t.now = s.now /\ t.last = s.last
        /\ t.draftActive = FALSE
    BY <2>1 DEF Record
  <2> QED
    BY <1>1, <2>2 DEF Heard, Recent
<1>2. CASE ~empty /\ s.draftActive
  <2>1. t = s
    BY <1>2 DEF Recorder!Draft
  <2> QED
    BY <1>2, <2>1, HeardNothing DEF Recent
<1>3. CASE ~empty /\ ~s.draftActive
  <2> DEFINE times == [s.last EXCEPT !.draft = s.now]
  <2>1. s.last \in Times /\ s.now \in Nat
    BY DEF Record
  <2>2. /\ times \in Times /\ times.draft = s.now
        /\ AllOf(s.last, s.now) => AllOf(times, s.now)
    BY <2>1 DEF Times, Time, AllOf
  <2>3. t = [s EXCEPT !.draftActive = TRUE, !.last = times]
    BY <1>3 DEF Recorder!Draft
  <2> HIDE DEF times
  <2>4. /\ t.requests = s.requests /\ t.active = s.active /\ t.liveCoding = s.liveCoding
        /\ t.now = s.now /\ t.draftActive = TRUE /\ t.last = times
    BY <2>3 DEF Record
  <2>5. t \in Record
    BY <2>2, <2>3 DEF Record
  <2> QED
    BY <2>2, <2>4, <2>5 DEF Heard, Recent
<1> QED
  BY <1>1, <1>2, <1>3

LEMMA EmptyIsSeq == ASSUME NEW S PROVE <<>> \in Seq(S)
BY EmptySeq

\* An utterance is changed where it stands.
LEMMA UtterancesStay ==
  ASSUME NEW us \in Seq(Utterance), NEW n, NEW u, n \in 1..Len(us) => u \in Utterance
  PROVE  [us EXCEPT ![n] = u] \in Seq(Utterance) /\ Len([us EXCEPT ![n] = u]) = Len(us)
<1> DEFINE new == [us EXCEPT ![n] = u]
<1>1. Len(us) \in Nat /\ us \in [1..Len(us) -> Utterance]
  BY LenProperties
<1>2. new \in [1..Len(us) -> Utterance]
  BY <1>1
<1> HIDE DEF new
<1>3. new \in Seq(Utterance)
  BY <1>1, <1>2, SeqDef
<1>4. Len(new) = Len(us)
  BY <1>1, <1>2, <1>3, LenProperties
<1> QED
  BY <1>3, <1>4 DEF new

Marks == {"interim", "final", "speechFinal", "speechStarted", "utteranceEnd"}

LEMMA NoteUtteranceIs ==
  ASSUME NEW s \in Record, NEW what \in Marks, NEW t, t = Recorder!NoteUtterance(s, what)
  PROVE  /\ Unheard(s, t) /\ Len(t.utterances) = Len(s.utterances)
         /\ t.utteranceOpen = s.utteranceOpen /\ t.pending = s.pending
         /\ t.segments = s.segments
<1> DEFINE n == Len(s.utterances)
           u == [s.utterances[n] EXCEPT !.noted = @ \cup {what}]
           us == [s.utterances EXCEPT ![n] = u]
<1>1. s.utterances \in Seq(Utterance)
  BY DEF Record
<1>2. n \in 1..Len(s.utterances) => u \in Utterance
  <2> SUFFICES ASSUME n \in 1..Len(s.utterances)
               PROVE  u \in Utterance
    OBVIOUS
  <2>1. s.utterances[n] \in Utterance
    BY <1>1, ElementOfSeq
  <2> QED
    BY <2>1 DEF Utterance, Marks
<1>3. t = [s EXCEPT !.utterances = us]
  BY DEF Recorder!NoteUtterance
<1> HIDE DEF u, n
<1>4. us \in Seq(Utterance) /\ Len(us) = Len(s.utterances)
  BY <1>1, <1>2, UtterancesStay
<1> HIDE DEF us
<1>5. /\ t.requests = s.requests /\ t.active = s.active /\ t.liveCoding = s.liveCoding
      /\ SpeechKept(s, t) /\ t.utterances = us /\ t.utteranceOpen = s.utteranceOpen
      /\ t.pending = s.pending /\ t.segments = s.segments
  BY <1>3 DEF Record, SpeechKept
<1>6. t \in Record
  BY <1>3, <1>4 DEF Record
<1> QED
  BY <1>4, <1>5, <1>6 DEF Unheard

LEMMA WithUtteranceIs ==
  ASSUME NEW s \in Record, NEW t, t = Recorder!WithUtterance(s)
  PROVE  Unheard(s, t)
<1>1. CASE s.utteranceOpen
  BY <1>1 DEF Recorder!WithUtterance, Unheard, SpeechKept
<1>2. CASE ~s.utteranceOpen
  <2> DEFINE us == Append(s.utterances, Recorder!NewUtterance)
  <2>1. Recorder!NewUtterance \in Utterance
    BY EmptyIsSeq DEF Recorder!NewUtterance, Utterance
  <2>2. s.utterances \in Seq(Utterance)
    BY DEF Record
  <2>3. us \in Seq(Utterance)
    BY <2>1, <2>2, AppendProperties
  <2>4. t = [s EXCEPT !.utterances = us, !.utteranceOpen = TRUE]
    BY <1>2 DEF Recorder!WithUtterance
  <2> HIDE DEF us
  <2>5. /\ t.requests = s.requests /\ t.active = s.active /\ t.liveCoding = s.liveCoding
        /\ SpeechKept(s, t)
    BY <2>4 DEF Record, SpeechKept
  <2>6. t \in Record
    BY <2>3, <2>4 DEF Record
  <2> QED
    BY <2>5, <2>6 DEF Unheard
<1> QED
  BY <1>1, <1>2

LEMMA FinishSegmentIs ==
  ASSUME NEW s \in Record, NEW t, t = Recorder!FinishSegment(s)
  PROVE  Unheard(s, t)
<1>1. CASE s.pending = <<>>
  BY <1>1 DEF Recorder!FinishSegment, Unheard, SpeechKept
<1>2. CASE s.pending # <<>>
  <2> DEFINE all == Append(s.segments, s.pending)
  <2>1. s.segments \in Seq(Seq(Nat)) /\ s.pending \in Seq(Nat)
    BY DEF Record
  <2>2. all \in Seq(Seq(Nat))
    BY <2>1, AppendProperties
  <2>3. t = [s EXCEPT !.segments = all, !.pending = <<>>]
    BY <1>2 DEF Recorder!FinishSegment
  <2> HIDE DEF all
  <2>4. /\ t.requests = s.requests /\ t.active = s.active /\ t.liveCoding = s.liveCoding
        /\ SpeechKept(s, t)
    BY <2>3 DEF Record, SpeechKept
  <2>5. t \in Record
    BY <2>2, <2>3, EmptyIsSeq DEF Record
  <2> QED
    BY <2>4, <2>5 DEF Unheard
<1> QED
  BY <1>1, <1>2

\* What Final makes of a record whose utterance was noted.
Worded(n, len, now, word) ==
  [n EXCEPT !.last.final = now, !.last.wordEnd = now,
            !.utterances[len].text = Append(@, word), !.pending = Append(@, word)]

LEMMA WordedIs ==
  ASSUME NEW n \in Record, NEW len, len = Len(n.utterances), NEW now, now = n.now,
         NEW word \in Nat, NEW t, t = Worded(n, len, now, word)
  PROVE  Heard(n, t)
<1> DEFINE times == [n.last EXCEPT !.final = now, !.wordEnd = now]
           u == [n.utterances[len] EXCEPT !.text = Append(@, word)]
           us == [n.utterances EXCEPT ![len] = u]
           more == Append(n.pending, word)
<1>1. n.utterances \in Seq(Utterance) /\ n.last \in Times /\ n.now \in Nat /\ n.pending \in Seq(Nat)
  BY DEF Record
<1>2. len \in 1..Len(n.utterances) => u \in Utterance
  <2> SUFFICES ASSUME len \in 1..Len(n.utterances)
               PROVE  u \in Utterance
    OBVIOUS
  <2>1. n.utterances[len] \in Utterance
    BY <1>1, ElementOfSeq
  <2>2. Append(n.utterances[len].text, word) \in Seq(Nat)
    BY <2>1, AppendProperties DEF Utterance
  <2> QED
    BY <2>1, <2>2 DEF Utterance
<1>3. /\ times \in Times /\ times.draft = n.last.draft
      /\ times.speechFinal = n.last.speechFinal /\ times.utteranceEnd = n.last.utteranceEnd
      /\ times.toBoundary = n.last.toBoundary /\ times.final = now /\ times.wordEnd = now
  BY <1>1 DEF Times, Time
<1>4. more \in Seq(Nat)
  BY <1>1, AppendProperties
<1>5. t = [n EXCEPT !.last = times, !.utterances = us, !.pending = more]
  BY DEF Worded, Record
<1> HIDE DEF u, times, more
<1>6. us \in Seq(Utterance)
  BY <1>1, <1>2, UtterancesStay
<1> HIDE DEF us
<1>7. /\ t.requests = n.requests /\ t.active = n.active /\ t.liveCoding = n.liveCoding
      /\ t.now = n.now /\ t.draftActive = n.draftActive /\ t.last = times
  BY <1>5 DEF Record
<1>8. t \in Record
  BY <1>3, <1>4, <1>5, <1>6 DEF Record
<1> QED
  BY <1>3, <1>7, <1>8, TimesAreNow

LEMMA FinalIs ==
  ASSUME NEW s \in Record, NEW word \in Nat, NEW t, t = Recorder!Final(s, word)
  PROVE  Heard(s, t)
<1>1. PICK n : n = Recorder!NoteUtterance(s, "final")
  OBVIOUS
<1>2. "final" \in Marks
  BY DEF Marks
<1>3. Unheard(s, n) /\ Len(n.utterances) = Len(s.utterances)
  BY <1>1, <1>2, NoteUtteranceIs
<1>4. n \in Record /\ s.now = n.now
  BY <1>3 DEF Unheard, SpeechKept
<1>5. t = Worded(n, Len(s.utterances), s.now, word)
  BY <1>1 DEF Recorder!Final, Worded
<1>6. Heard(n, t)
  BY <1>3, <1>4, <1>5, WordedIs
<1> QED
  BY <1>3, <1>6, UnheardIsHeard, HeardFurther

LEMMA InterimIs ==
  ASSUME NEW s \in Record, NEW t, t = Recorder!Interim(s)
  PROVE  Heard(s, t)
<1>1. "interim" \in Marks
  BY DEF Marks
<1> QED
  BY <1>1, NoteUtteranceIs, UnheardIsHeard DEF Recorder!Interim

LEMMA SpeechFinalIs ==
  ASSUME NEW s \in Record, NEW t, t = Recorder!SpeechFinal(s)
  PROVE  Heard(s, t)
<1>1. PICK n : n = Recorder!NoteUtterance(s, "speechFinal")
  OBVIOUS
<1>2. "speechFinal" \in Marks
  BY DEF Marks
<1>3. Unheard(s, n)
  BY <1>1, <1>2, NoteUtteranceIs
<1>4. n \in Record /\ s.now = n.now /\ n.last \in Times /\ n.now \in Nat
  BY <1>3 DEF Unheard, SpeechKept, Record
<1> DEFINE times == [n.last EXCEPT !.speechFinal = s.now, !.toBoundary = s.now]
<1>5. PICK m : m = [n EXCEPT !.last = times]
  OBVIOUS
<1>6. [n EXCEPT !.last.speechFinal = s.now, !.last.toBoundary = s.now] = m
  BY <1>4, <1>5 DEF Record
<1>7. t = Recorder!FinishSegment(m)
  BY <1>1, <1>6 DEF Recorder!SpeechFinal
<1>8. /\ times \in Times /\ times.draft = n.last.draft /\ times.final = n.last.final
      /\ times.utteranceEnd = n.last.utteranceEnd /\ times.wordEnd = n.last.wordEnd
      /\ times.toBoundary = n.now /\ times.speechFinal = n.now
  BY <1>4 DEF Times, Time
<1> HIDE DEF times
<1>9. /\ m.requests = n.requests /\ m.active = n.active /\ m.liveCoding = n.liveCoding
      /\ m.now = n.now /\ m.draftActive = n.draftActive /\ m.last = times
  BY <1>4, <1>5 DEF Record
<1>10. m \in Record
  BY <1>4, <1>5, <1>8 DEF Record
<1>11. Heard(n, m)
  BY <1>4, <1>8, <1>9, <1>10, TimesAreNow
<1>12. Heard(m, t)
  BY <1>7, <1>10, FinishSegmentIs, UnheardIsHeard
<1> QED
  BY <1>3, <1>11, <1>12, UnheardIsHeard, HeardFurther

\* A transcript opens a draft, or there is one.
LEMMA TranscriptIs ==
  ASSUME NEW s \in Record, NEW e, e.final \in BOOLEAN, e.boundary \in BOOLEAN, e.word \in Nat,
         NEW t, t = Recorder!Transcript(s, e)
  PROVE  /\ Heard(s, t)
         /\ Recent(s) => t.last.draft = t.now
<1>1. PICK drafted : drafted = IF s.draftActive THEN s ELSE Recorder!StartDraft(s)
  OBVIOUS
<1>2. Heard(s, drafted) /\ (Recent(s) => drafted.last.draft = drafted.now)
  BY <1>1, HeardNothing, StartDraftIs DEF Recent
<1>3. drafted \in Record
  BY <1>2 DEF Heard
<1>4. PICK opened : opened = Recorder!WithUtterance(drafted)
  OBVIOUS
<1>5. Heard(drafted, opened)
  BY <1>3, <1>4, WithUtteranceIs, UnheardIsHeard
<1>6. opened \in Record
  BY <1>5 DEF Heard
<1>7. PICK heard : heard = IF e.final THEN Recorder!Final(opened, e.word)
                                      ELSE Recorder!Interim(opened)
  OBVIOUS
<1>8. Heard(opened, heard)
  BY <1>6, <1>7, FinalIs, InterimIs
<1>9. heard \in Record
  BY <1>8 DEF Heard
<1>10. t = IF e.boundary THEN Recorder!SpeechFinal(heard) ELSE heard
  BY <1>1, <1>4, <1>7 DEF Recorder!Transcript
<1>11. Heard(heard, t)
  BY <1>9, <1>10, SpeechFinalIs, HeardNothing
<1>12. Heard(drafted, t)
  BY <1>5, <1>8, <1>11, HeardFurther
<1>13. Heard(s, t)
  BY <1>2, <1>12, HeardFurther
<1> QED
  BY <1>2, <1>12, <1>13 DEF Heard

LEMMA SpeechStartedIs ==
  ASSUME NEW s \in Record, NEW t, t = Recorder!SpeechStarted(s)
  PROVE  Heard(s, t)
<1>1. PICK drafted : drafted = Recorder!StartDraft(s)
  OBVIOUS
<1>2. Heard(s, drafted)
  BY <1>1, StartDraftIs
<1>3. drafted \in Record
  BY <1>2 DEF Heard
<1> DEFINE open == drafted.utteranceOpen /\ "speechStarted" \notin
                                              s.utterances[Len(s.utterances)].noted
<1>4. PICK ready : ready = [drafted EXCEPT !.utteranceOpen = open]
  OBVIOUS
<1>5. open \in BOOLEAN
  BY Zenon
<1>6. t = Recorder!NoteUtterance(Recorder!WithUtterance(ready), "speechStarted")
  BY <1>1, <1>4 DEF Recorder!SpeechStarted
<1> HIDE DEF open
<1>7. Unheard(drafted, ready)
  <2>1. /\ ready.requests = drafted.requests /\ ready.active = drafted.active
        /\ ready.liveCoding = drafted.liveCoding /\ SpeechKept(drafted, ready)
    BY <1>3, <1>4 DEF Record, SpeechKept
  <2>2. ready \in Record
    BY <1>3, <1>4, <1>5 DEF Record
  <2> QED
    BY <2>1, <2>2 DEF Unheard
<1>8. ready \in Record
  BY <1>7 DEF Unheard
<1>9. PICK opened : opened = Recorder!WithUtterance(ready)
  OBVIOUS
<1>10. Unheard(ready, opened)
  BY <1>8, <1>9, WithUtteranceIs
<1>11. opened \in Record
  BY <1>10 DEF Unheard
<1>12. Unheard(opened, t)
  <2>1. "speechStarted" \in Marks
    BY DEF Marks
  <2> QED
    BY <1>6, <1>9, <1>11, <2>1, NoteUtteranceIs
<1> QED
  BY <1>2, <1>7, <1>10, <1>12, UnheardIsHeard, HeardFurther

LEMMA UtteranceEndIs ==
  ASSUME NEW s \in Record, NEW t, t = Recorder!UtteranceEnd(s)
  PROVE  Heard(s, t)
<1>1. PICK ended : ended = IF s.utteranceOpen
                           THEN [Recorder!NoteUtterance(s, "utteranceEnd") EXCEPT
                                   !.utteranceOpen = FALSE]
                           ELSE s
  OBVIOUS
<1>2. Unheard(s, ended)
  <2>1. CASE s.utteranceOpen
    <3>1. PICK n : n = Recorder!NoteUtterance(s, "utteranceEnd")
      OBVIOUS
    <3>2. "utteranceEnd" \in Marks
      BY DEF Marks
    <3>3. Unheard(s, n)
      BY <3>1, <3>2, NoteUtteranceIs
    <3>4. n \in Record /\ ended = [n EXCEPT !.utteranceOpen = FALSE]
      BY <1>1, <2>1, <3>1, <3>3 DEF Unheard
    <3>5. Unheard(n, ended)
      BY <3>4 DEF Unheard, SpeechKept, Record
    <3> QED
      BY <3>3, <3>5 DEF Unheard, SpeechKept
  <2>2. CASE ~s.utteranceOpen
    BY <1>1, <2>2 DEF Unheard, SpeechKept
  <2> QED
    BY <2>1, <2>2
<1>3. ended \in Record /\ ended.now = s.now /\ ended.last \in Times /\ ended.now \in Nat
  BY <1>2 DEF Unheard, SpeechKept, Record
<1>4. PICK end : end = IF s.draftActive THEN s.now ELSE ended.last.utteranceEnd
  OBVIOUS
<1> DEFINE times == [ended.last EXCEPT !.utteranceEnd = end, !.wordEnd = s.now,
                                       !.toBoundary = s.now]
<1>5. PICK timed : timed = [ended EXCEPT !.last = times]
  OBVIOUS
<1>6. [ended EXCEPT !.last.utteranceEnd = IF s.draftActive THEN s.now ELSE @,
                    !.last.wordEnd = s.now, !.last.toBoundary = s.now] = timed
  BY <1>3, <1>4, <1>5 DEF Record
<1>7. t = Recorder!FinishSegment(timed)
  BY <1>1, <1>6 DEF Recorder!UtteranceEnd
<1>8. end \in {ended.last.utteranceEnd, ended.now} /\ end \in Time
  BY <1>3, <1>4 DEF Times, Time
<1>9. /\ times \in Times /\ times.draft = ended.last.draft /\ times.final = ended.last.final
      /\ times.speechFinal = ended.last.speechFinal /\ times.utteranceEnd = end
      /\ times.wordEnd = ended.now /\ times.toBoundary = ended.now
  BY <1>3, <1>8 DEF Times, Time
<1> HIDE DEF times
<1>10. /\ timed.requests = ended.requests /\ timed.active = ended.active
       /\ timed.liveCoding = ended.liveCoding /\ timed.now = ended.now
       /\ timed.draftActive = ended.draftActive /\ timed.last = times
  BY <1>3, <1>5 DEF Record
<1>11. timed \in Record
  BY <1>3, <1>5, <1>9 DEF Record
<1>12. Heard(ended, timed)
  BY <1>3, <1>8, <1>9, <1>10, <1>11, TimesAreNow
<1>13. Heard(timed, t)
  BY <1>7, <1>11, FinishSegmentIs, UnheardIsHeard
<1> QED
  BY <1>2, <1>12, <1>13, UnheardIsHeard, HeardFurther

-----------------------------------------------------------------------------
(* Lemmas about the recorders ahead *)

\* With nothing in the channel, the recorder now is the last.
LEMMA LeadsNowhere ==
  ASSUME NEW s \in Record, NEW hap, NEW rev, Fine(s, hap, rev)
  PROVE  Leads(s, <<>>, hap, rev, s)
<1> DEFINE recs == [i \in 0..0 |-> s]
<1>1. Len(<<>>) = 0
  OBVIOUS
<1>2. recs \in [0..0 -> Record] /\ recs[0] = s
  OBVIOUS
<1>3. \A i \in 0..0 : Fine(recs[i], hap, rev)
  BY <1>2
<1> HIDE DEF recs
<1>4. Recorders(recs, s, <<>>, hap, rev)
  BY <1>1, <1>2, <1>3 DEF Recorders
<1> QED
  BY <1>1, <1>2, <1>4 DEF Leads

\* The first recorder and the last.
LEMMA LeadsFromTo ==
  ASSUME NEW now, NEW events \in Seq(Events), NEW hap, NEW rev, NEW s,
         Leads(now, events, hap, rev, s)
  PROVE  /\ now \in Record /\ Fine(now, hap, rev) /\ s \in Record /\ Fine(s, hap, rev)
         /\ events = <<>> => s = now
<1>1. PICK recs : Recorders(recs, now, events, hap, rev) /\ recs[Len(events)] = s
  BY DEF Leads
<1>2. Len(events) \in Nat
  BY LenProperties
<1>3. 0 \in 0..Len(events) /\ Len(events) \in 0..Len(events)
  BY <1>2
<1>4. events = <<>> => Len(events) = 0
  OBVIOUS
<1> QED
  BY <1>1, <1>3, <1>4 DEF Recorders

\* One more event leads one step further.
LEMMA LeadsFurther ==
  ASSUME NEW now, NEW events \in Seq(Events), NEW hap, NEW rev, NEW s, NEW e \in Events,
         NEW t \in Record, Leads(now, events, hap, rev, s), t = Recorder!Record(s, e),
         Fine(t, hap, rev)
  PROVE  Leads(now, Append(events, e), hap, rev, t)
<1>1. PICK recs : Recorders(recs, now, events, hap, rev) /\ recs[Len(events)] = s
  BY DEF Leads
<1> DEFINE n == Len(events)
           more == Append(events, e)
           longer == [i \in 0..(n + 1) |-> IF i = n + 1 THEN t ELSE recs[i]]
<1>2. n \in Nat
  BY LenProperties
<1>3. /\ Len(more) = n + 1 /\ more[n + 1] = e
      /\ \A i \in 1..n : more[i] = events[i]
  BY AppendProperties
<1>4. /\ recs \in [0..n -> Record] /\ recs[0] = now
      /\ \A i \in 1..n : recs[i] = Recorder!Record(recs[i - 1], events[i])
      /\ \A i \in 0..n : Fine(recs[i], hap, rev)
  BY <1>1 DEF Recorders
<1> HIDE DEF n, more
<1>5. \A i \in 0..(n + 1) : i = n + 1 \/ i \in 0..n
  BY <1>2
<1>6. longer \in [0..(n + 1) -> Record]
  BY <1>4, <1>5
<1>7. longer[0] = now /\ longer[n + 1] = t /\ \A i \in 0..n : longer[i] = recs[i]
  BY <1>2, <1>4
<1> HIDE DEF longer
<1>8. ASSUME NEW i \in 1..(n + 1)
      PROVE  longer[i] = Recorder!Record(longer[i - 1], more[i])
  <2>1. CASE i = n + 1
    <3>1. i - 1 = n /\ n \in 0..n
      BY <1>2, <2>1
    <3>2. longer[i - 1] = s /\ longer[i] = t /\ more[i] = e
      BY <1>1, <1>3, <1>7, <2>1, <3>1 DEF n
    <3> QED
      BY <3>2
  <2>2. CASE i \in 1..n
    <3>1. i \in 0..n /\ i - 1 \in 0..n
      BY <1>2, <2>2
    <3> QED
      BY <1>3, <1>4, <1>7, <2>2, <3>1
  <2> QED
    BY <1>2, <2>1, <2>2
<1>9. \A i \in 0..(n + 1) : Fine(longer[i], hap, rev)
  BY <1>4, <1>5, <1>7
<1>10. Recorders(longer, now, more, hap, rev)
  BY <1>3, <1>6, <1>7, <1>8, <1>9 DEF Recorders
<1> QED
  BY <1>3, <1>7, <1>10 DEF Leads, more

\* Once the first event was taken the rest leads where all did.
LEMMA LeadsFromNext ==
  ASSUME NEW now, NEW events \in Seq(Events), NEW hap, NEW rev, NEW s, events # <<>>,
         Leads(now, events, hap, rev, s)
  PROVE  /\ Leads(Recorder!Record(now, Head(events)), Tail(events), hap, rev, s)
         /\ Recorder!Record(now, Head(events)) \in Record
<1>1. PICK recs : Recorders(recs, now, events, hap, rev) /\ recs[Len(events)] = s
  BY DEF Leads
<1> DEFINE n == Len(events)
           rest == Tail(events)
           shorter == [i \in 0..(n - 1) |-> recs[i + 1]]
<1>2. n \in Nat /\ n # 0
  BY LenProperties, EmptySeq
<1>3. /\ Len(rest) = n - 1 /\ Head(events) = events[1]
      /\ \A i \in 1..(n - 1) : rest[i] = events[i + 1]
  BY HeadTailProperties
<1>4. /\ recs \in [0..n -> Record] /\ recs[0] = now
      /\ \A i \in 1..n : recs[i] = Recorder!Record(recs[i - 1], events[i])
      /\ \A i \in 0..n : Fine(recs[i], hap, rev)
  BY <1>1 DEF Recorders
<1>5. recs[n] = s
  BY <1>1
<1> HIDE DEF n, rest
<1>6. \A i \in 0..(n - 1) : i + 1 \in 0..n /\ i + 1 \in 1..n /\ (i + 1) - 1 = i
  BY <1>2
<1>7. shorter \in [0..(n - 1) -> Record]
  BY <1>4, <1>6
<1>8. shorter[0] = Recorder!Record(now, Head(events))
  <2>1. 0 \in 0..(n - 1) /\ 1 \in 1..n
    BY <1>2
  <2> QED
    BY <1>3, <1>4, <2>1
<1>9. shorter[n - 1] = s
  <2>1. n - 1 \in 0..(n - 1) /\ (n - 1) + 1 = n
    BY <1>2
  <2> QED
    BY <1>5, <2>1
<1>10. \A i \in 0..(n - 1) : shorter[i] = recs[i + 1]
  OBVIOUS
<1> HIDE DEF shorter
<1>11. ASSUME NEW i \in 1..(n - 1)
       PROVE  shorter[i] = Recorder!Record(shorter[i - 1], rest[i])
  <2>1. i \in 0..(n - 1) /\ i - 1 \in 0..(n - 1) /\ (i - 1) + 1 = i /\ (i + 1) - 1 = i
    BY <1>2
  <2>2. shorter[i] = recs[i + 1] /\ shorter[i - 1] = recs[i] /\ rest[i] = events[i + 1]
    BY <1>3, <1>10, <2>1
  <2>3. recs[i + 1] = Recorder!Record(recs[(i + 1) - 1], events[i + 1])
    BY <1>4, <1>6, <2>1
  <2> QED
    BY <2>1, <2>2, <2>3
<1>12. \A i \in 0..(n - 1) : Fine(shorter[i], hap, rev)
  BY <1>4, <1>6, <1>10
<1>13. Recorders(shorter, Recorder!Record(now, Head(events)), rest, hap, rev)
  BY <1>3, <1>7, <1>8, <1>11, <1>12 DEF Recorders
<1>14. 0 \in 0..(n - 1)
  BY <1>2
<1> QED
  BY <1>3, <1>7, <1>8, <1>9, <1>13, <1>14 DEF Leads, rest

\* What happened before stays, and more happens.
Grows(hap, hap2, rev, rev2) ==
  /\ \A r \in Requests : hap[r] \subseteq hap2[r]
  /\ rev2 = rev \/ \E r \in Owners : rev2 = Append(rev, r)

LEMMA PrefixIs ==
  ASSUME NEW a \in Seq(Owners), NEW b \in Seq(Owners)
  PROVE  IsPrefix(a, b) <=> Len(a) <= Len(b) /\ \A i \in 1..Len(a) : a[i] = b[i]
<1>1. Len(a) \in Nat /\ Len(b) \in Nat
  BY LenProperties
<1>2. SubSeq(a, 1, Len(a)) = a
  BY SubSeqFull
<1> SUFFICES ASSUME Len(a) <= Len(b)
             PROVE  SubSeq(b, 1, Len(a)) = a <=> \A i \in 1..Len(a) : a[i] = b[i]
  BY <1>2 DEF IsPrefix
<1> DEFINE c == SubSeq(b, 1, Len(a))
<1>3. /\ c \in Seq(Owners)
      /\ Len(c) = IF 1 <= Len(a) THEN Len(a) - 1 + 1 ELSE 0
      /\ \A i \in 1..(Len(a) - 1 + 1) : c[i] = b[1 + i - 1]
  <2>1. 1 \in 1..(Len(b) + 1) /\ Len(a) \in 0..Len(b)
    BY <1>1
  <2> QED
    BY <1>1, <2>1, SubSeqProperties
<1> HIDE DEF c
<1>4. Len(c) = Len(a)
  BY <1>1, <1>3
<1>5. \A i \in 1..Len(a) : c[i] = b[i]
  <2>1. \A i \in 1..Len(a) : i \in 1..(Len(a) - 1 + 1) /\ 1 + i - 1 = i
    BY <1>1
  <2> QED
    BY <1>3, <2>1
<1>6. (\A i \in 1..Len(a) : c[i] = a[i]) => c = a
  BY <1>3, <1>4, SeqEqual
<1> QED
  BY <1>5, <1>6 DEF c

LEMMA PrefixOfItself ==
  ASSUME NEW a \in Seq(Owners)
  PROVE  IsPrefix(a, a)
<1>1. Len(a) \in Nat
  BY LenProperties
<1> QED
  BY <1>1, PrefixIs

LEMMA FineStays ==
  ASSUME NEW s \in Record, NEW hap, NEW hap2, NEW rev \in Seq(Owners), NEW rev2,
         Grows(hap, hap2, rev, rev2), Fine(s, hap, rev)
  PROVE  Fine(s, hap2, rev2)
<1>1. ASSUME NEW r \in Requests
      PROVE  Attributed(r, s.requests[r], hap2[r])
  <2>1. Attributed(r, s.requests[r], hap[r]) /\ hap[r] \subseteq hap2[r]
    BY DEF Grows, Fine
  <2> QED
    BY <2>1 DEF Attributed
<1>2. IsPrefix(s.liveCoding, rev2)
  <2>1. s.liveCoding \in Seq(Owners) /\ IsPrefix(s.liveCoding, rev)
    BY DEF Record, Fine
  <2>2. CASE rev2 = rev
    BY <2>1, <2>2
  <2>3. ASSUME NEW r \in Owners, rev2 = Append(rev, r)
        PROVE  IsPrefix(s.liveCoding, rev2)
    <3>1. /\ rev2 \in Seq(Owners) /\ Len(rev2) = Len(rev) + 1
          /\ \A i \in 1..Len(rev) : rev2[i] = rev[i]
      BY <2>3, AppendProperties
    <3>2. Len(s.liveCoding) <= Len(rev) /\ \A i \in 1..Len(s.liveCoding) : s.liveCoding[i] = rev[i]
      BY <2>1, PrefixIs
    <3>3. Len(s.liveCoding) \in Nat /\ Len(rev) \in Nat
      BY <2>1, LenProperties
    <3>4. /\ Len(s.liveCoding) <= Len(rev2)
          /\ \A i \in 1..Len(s.liveCoding) : s.liveCoding[i] = rev2[i]
      BY <3>1, <3>2, <3>3
    <3> QED
      BY <2>1, <3>1, <3>4, PrefixIs
  <2> QED
    BY <2>2, <2>3 DEF Grows
<1> QED
  BY <1>1, <1>2 DEF Fine

LEMMA LeadsStays ==
  ASSUME NEW now, NEW events \in Seq(Events), NEW hap, NEW hap2, NEW rev \in Seq(Owners),
         NEW rev2, Grows(hap, hap2, rev, rev2), NEW t, Leads(now, events, hap, rev, t)
  PROVE  Leads(now, events, hap2, rev2, t)
<1>1. PICK recs : Recorders(recs, now, events, hap, rev) /\ recs[Len(events)] = t
  BY DEF Leads
<1>2. \A i \in 0..Len(events) : recs[i] \in Record /\ Fine(recs[i], hap, rev)
  BY <1>1 DEF Recorders
<1>3. \A i \in 0..Len(events) : Fine(recs[i], hap2, rev2)
  BY <1>2, FineStays
<1>4. Recorders(recs, now, events, hap2, rev2)
  BY <1>1, <1>3 DEF Recorders
<1> QED
  BY <1>1, <1>4 DEF Leads

-----------------------------------------------------------------------------
(* What each event does to the recorder *)

LEMMA RecordIs ==
  ASSUME NEW s, NEW e
  PROVE  /\ e.kind = "Transcript" => Recorder!Record(s, e) = Recorder!Question(s, e.id)
         /\ e.kind = "Retrieval" => Recorder!Record(s, e) = Recorder!Note(s, e.id, "retrieval")
         /\ e.kind = "LlmQueued" => Recorder!Record(s, e) = Recorder!Note(s, e.id, "queued")
         /\ e.kind = "AnswerStarted" => Recorder!Record(s, e) = Recorder!Started(s, e.id)
         /\ e.kind = "AnswerDelta" => Recorder!Record(s, e) = Recorder!Delta(s, e.id, e.delta)
         /\ e.kind = "AnswerUsage" => Recorder!Record(s, e) = Recorder!Note(s, e.id, "usage")
         /\ e.kind = "AnswerCompleted" => Recorder!Record(s, e) = Recorder!Completed(s, e.id)
         /\ e.kind = "LlmError" => Recorder!Record(s, e) = Recorder!Failed(s)
         /\ e.kind = "LiveCodingUpdated" => Recorder!Record(s, e) = Recorder!Revised(s)
         /\ e.kind = "TranscriptDraft" => Recorder!Record(s, e) = Recorder!Draft(s, e.empty)
         /\ e.kind = "SttTranscript" => Recorder!Record(s, e) = Recorder!Transcript(s, e)
         /\ e.kind = "SpeechStarted" => Recorder!Record(s, e) = Recorder!SpeechStarted(s)
         /\ e.kind = "UtteranceEnd" =>
              Recorder!Record(s, e) = IF e.applied THEN Recorder!UtteranceEnd(s) ELSE s
         /\ e.kind \in {"QueueState", "KnowledgeError", "Status", "ModeChanged"} =>
              Recorder!Record(s, e) = s
BY DEF Recorder!Record

\* Speech changes nothing of the requests: the recorder stays fine.
LEMMA HeardIsFine ==
  ASSUME NEW s, NEW t, Heard(s, t), NEW hap, NEW rev, Fine(s, hap, rev)
  PROVE  Fine(t, hap, rev)
BY DEF Heard, Fine

-----------------------------------------------------------------------------
(* What an emission adds *)

LEMMA EmitIs ==
  ASSUME Typing, NEW e \in Events, Emit(<<e>>)
  PROVE  sinkPc = "forwarding" /\ output' = Append(output, e) /\ output' \in Seq(Events)
<1>1. output \in Seq(Events)
  BY DEF Typing
<1>2. output \o <<e>> = Append(output, e)
  BY <1>1, AppendIsConcat
<1> QED
  BY <1>1, <1>2, AppendProperties DEF Emit

LEMMA EmitTwoIs ==
  ASSUME Typing, NEW e \in Events, NEW f \in Events, Emit(<<e, f>>)
  PROVE  /\ sinkPc = "forwarding" /\ output' = Append(Append(output, e), f)
         /\ Append(output, e) \in Seq(Events) /\ output' \in Seq(Events)
<1>1. output \in Seq(Events) /\ Append(output, e) \in Seq(Events)
  BY AppendProperties DEF Typing
<1>2. <<e>> \in Seq(Events) /\ <<f>> \in Seq(Events)
  OBVIOUS
<1>3. <<e, f>> = <<e>> \o <<f>>
  <2> DEFINE both == <<e, f>>
             joined == <<e>> \o <<f>>
  <2>1. both \in Seq(Events) /\ joined \in Seq(Events)
    BY <1>2, ConcatProperties
  <2>2. Len(joined) = 2 /\ joined[1] = e /\ joined[2] = f
    BY <1>2, ConcatProperties
  <2>3. Len(both) = 2 /\ both[1] = e /\ both[2] = f
    OBVIOUS
  <2> HIDE DEF both, joined
  <2>4. \A i \in 1..Len(both) : both[i] = joined[i]
    <3>1. \A i \in 1..2 : i = 1 \/ i = 2
      OBVIOUS
    <3> QED
      BY <2>2, <2>3, <3>1
  <2>5. both = joined
    BY <2>1, <2>2, <2>3, <2>4, SeqEqual
  <2> QED
    BY <2>5 DEF both, joined
<1>4. output \o <<e, f>> = (output \o <<e>>) \o <<f>>
  BY <1>1, <1>2, <1>3, ConcatAssociative
<1>5. output \o <<e, f>> = Append(Append(output, e), f)
  BY <1>1, <1>4, AppendIsConcat
<1> QED
  BY <1>1, <1>5, AppendProperties DEF Emit

\* The recorder that has everything before e, and then e, has everything.
Follows(e) ==
  \A s \in Record : \A t :
    t = Recorder!Record(s, e) /\ Fine(s, happened, revisions) /\ AnswersSettled(s)
      /\ SpeechSettled(s) =>
         /\ t \in Record /\ Fine(t, happened', revisions')
         /\ AnswersSettled(t)' /\ SpeechSettled(t)'

LEMMA RecordersFollow ==
  ASSUME Typing, RecordersAhead, NEW e \in Events, Emit(<<e>>), UNCHANGED <<sinkPc, rec>>,
         Grows(happened, happened', revisions, revisions'), Follows(e)
  PROVE  RecordersAhead'
<1>1. sinkPc = "forwarding" /\ output' = Append(output, e)
  BY EmitIs
<1>2. PICK s \in Record : /\ Leads(rec, output, happened, revisions, s)
                          /\ AnswersSettled(s) /\ SpeechSettled(s)
  BY <1>1 DEF RecordersAhead
<1>3. output \in Seq(Events) /\ revisions \in Seq(Owners)
  BY DEF Typing, LlmTyped
<1>4. Fine(s, happened, revisions)
  BY <1>2, <1>3, LeadsFromTo
<1>5. PICK t : t = Recorder!Record(s, e)
  OBVIOUS
<1>6. /\ t \in Record /\ Fine(t, happened', revisions')
      /\ AnswersSettled(t)' /\ SpeechSettled(t)'
  BY <1>2, <1>4, <1>5 DEF Follows
<1>7. Leads(rec, output, happened', revisions', s)
  BY <1>2, <1>3, LeadsStays
<1>8. Leads(rec, Append(output, e), happened', revisions', t)
  BY <1>3, <1>5, <1>6, <1>7, LeadsFurther
<1>9. Leads(rec', output', happened', revisions', t)
  BY <1>1, <1>8
<1> QED
  BY <1>1, <1>6, <1>9 DEF RecordersAhead

\* The same of two events, for steps that change nothing of the requests.
FollowTwo(e, f) ==
  \A s \in Record : \A t, u :
    t = Recorder!Record(s, e) /\ u = Recorder!Record(t, f) /\ AnswersSettled(s)
      /\ SpeechSettled(s) =>
         Heard(s, t) /\ Heard(s, u) /\ AnswersSettled(u)' /\ SpeechSettled(u)'

LEMMA RecordersFollowTwo ==
  ASSUME Typing, RecordersAhead, NEW e \in Events, NEW f \in Events, Emit(<<e, f>>),
         UNCHANGED <<sinkPc, rec, happened, revisions>>, FollowTwo(e, f)
  PROVE  RecordersAhead'
<1>1. /\ sinkPc = "forwarding" /\ output' = Append(Append(output, e), f)
      /\ Append(output, e) \in Seq(Events)
  BY EmitTwoIs
<1>2. PICK s \in Record : /\ Leads(rec, output, happened, revisions, s)
                          /\ AnswersSettled(s) /\ SpeechSettled(s)
  BY <1>1 DEF RecordersAhead
<1>3. output \in Seq(Events)
  BY DEF Typing
<1>4. Fine(s, happened, revisions)
  BY <1>2, <1>3, LeadsFromTo
<1>5. PICK t : t = Recorder!Record(s, e)
  OBVIOUS
<1>6. PICK u : u = Recorder!Record(t, f)
  OBVIOUS
<1>7. Heard(s, t) /\ Heard(s, u) /\ AnswersSettled(u)' /\ SpeechSettled(u)'
  BY <1>2, <1>5, <1>6 DEF FollowTwo
<1>8. /\ t \in Record /\ Fine(t, happened, revisions)
      /\ u \in Record /\ Fine(u, happened, revisions)
  BY <1>4, <1>7, HeardIsFine DEF Heard
<1>9. Leads(rec, Append(output, e), happened, revisions, t)
  BY <1>2, <1>3, <1>5, <1>8, LeadsFurther
<1>10. Leads(rec, Append(Append(output, e), f), happened, revisions, u)
  BY <1>1, <1>6, <1>8, <1>9, LeadsFurther
<1>11. Leads(rec', output', happened', revisions', u)
  BY <1>1, <1>10
<1> QED
  BY <1>1, <1>7, <1>8, <1>11 DEF RecordersAhead

-----------------------------------------------------------------------------
(* What is left alone *)

LEMMA WindowsRest ==
  ASSUME Typing, UNCHANGED windows, UNCHANGED closing
  PROVE  WindowsTyped'
BY DEF Typing, WindowsTyped, windows

LEMMA LlmRests ==
  ASSUME Typing, UNCHANGED <<requests, llmPc, answering, given, happened, revisions>>
  PROVE  LlmTyped'
BY DEF Typing, LlmTyped

LEMMA SinksRest ==
  ASSUME Typing, UNCHANGED downstream
  PROVE  SinksTyped' /\ UNCHANGED <<sinkPc, rec>>
BY DEF Typing, SinksTyped, downstream, telemetry, inside

LEMMA QuestionsRest ==
  ASSUME IInv, UNCHANGED <<asked, flushing, flushPc, answering, happened, requests>>
  PROVE  QuestionsGoOn' /\ QueueIsUnanswered'
BY DEF IInv, QuestionsGoOn, QueueIsUnanswered

\* A step that emits nothing and changes nothing of what is recorded.
LEMMA RecordersRest ==
  ASSUME IInv, UNCHANGED <<sinkPc, rec, output, happened, revisions, answering, given, asked, text>>
  PROVE  RecordersAhead'
BY DEF IInv, RecordersAhead, AnswersSettled, SpeechSettled

\* A step of the workers or of the app.
LEMMA ProducedIs ==
  ASSUME IInv, UNCHANGED <<downstream, scenario>>, WindowsTyped', LlmTyped',
         notices' \in Nat, output' \in Seq(Events), QuestionsGoOn', QueueIsUnanswered',
         RecordersAhead'
  PROVE  IInv'
BY SinksRest DEF IInv, Typing

-----------------------------------------------------------------------------
(* Speech *)

LEMMA HeardFollows ==
  ASSUME NEW s, NEW t, Heard(s, t), AnswersSettled(s), SpeechSettled(s),
         UNCHANGED <<happened, answering, given, revisions, asked>>,
         text' => text \/ t.last.draft = t.now
  PROVE  AnswersSettled(t)' /\ SpeechSettled(t)'
BY DEF Heard, AnswersSettled, SpeechSettled

LEMMA HearStep ==
  ASSUME IInv, NEW final \in BOOLEAN, NEW boundary \in BOOLEAN, Hear(final, boundary)
  PROVE  IInv'
<1>1. /\ UNCHANGED <<asked, flushing, flushPc, marks, places, llm, happened, revisions,
                     downstream, app>>
      /\ words' = words + 1 /\ text' = TRUE
  BY DEF Hear
<1>2. PICK e : e = [kind |-> "SttTranscript", final |-> final, boundary |-> boundary,
                    word |-> words + 1]
  OBVIOUS
<1>3. PICK f : f = DraftEvent(FALSE)
  OBVIOUS
<1>4. words \in Nat
  BY DEF IInv, Typing, WindowsTyped
<1>5. e \in Events /\ f \in Events
  BY <1>2, <1>3, <1>4 DEF Events, DraftEvent
<1>6. Emit(<<e, f>>)
  BY <1>2, <1>3 DEF Hear
<1>7. output' \in Seq(Events)
  BY <1>5, <1>6, EmitTwoIs DEF IInv
<1>8. FollowTwo(e, f)
  <2> SUFFICES ASSUME NEW s \in Record, NEW t, NEW u, t = Recorder!Record(s, e),
                      u = Recorder!Record(t, f), AnswersSettled(s), SpeechSettled(s)
               PROVE  Heard(s, t) /\ Heard(s, u) /\ AnswersSettled(u)' /\ SpeechSettled(u)'
    BY DEF FollowTwo
  <2>1. /\ e.kind = "SttTranscript" /\ e.final \in BOOLEAN /\ e.boundary \in BOOLEAN
        /\ e.word \in Nat
    BY <1>2, <1>4
  <2>2. t = Recorder!Transcript(s, e)
    BY <2>1, RecordIs
  <2>3. Heard(s, t) /\ Recent(s)
    BY <2>1, <2>2, TranscriptIs DEF SpeechSettled
  <2>4. t \in Record /\ Recent(t)
    BY <2>3 DEF Heard
  <2>5. u = Recorder!Draft(t, FALSE)
    <3>1. f.kind = "TranscriptDraft" /\ f.empty = FALSE
      BY <1>3 DEF DraftEvent
    <3>2. u = Recorder!Draft(t, f.empty)
      BY <3>1, RecordIs
    <3> QED
      BY <3>1, <3>2
  <2>6. Heard(t, u) /\ u.last.draft = u.now
    BY <2>4, <2>5, DraftIs
  <2>7. Heard(s, u)
    BY <2>3, <2>6, HeardFurther
  <2> QED
    BY <1>1, <2>3, <2>6, <2>7, HeardFollows DEF llm
<1>9. RecordersAhead'
  BY <1>1, <1>5, <1>6, <1>8, RecordersFollowTwo, SinksRest DEF IInv
<1>10. WindowsTyped'
  BY <1>1 DEF IInv, Typing, WindowsTyped, app
<1>11. LlmTyped'
  BY <1>1, LlmRests DEF IInv, llm
<1>12. QuestionsGoOn' /\ QueueIsUnanswered'
  BY <1>1, QuestionsRest DEF llm
<1>13. notices' \in Nat
  BY <1>1 DEF IInv, Typing, app
<1> QED
  BY <1>1, <1>7, <1>9, <1>10, <1>11, <1>12, <1>13, ProducedIs DEF app

\* An event that the recorder takes for speech, or passes over.
LEMMA FollowsHeard ==
  ASSUME NEW e, UNCHANGED <<happened, answering, given, revisions, asked>>, text' => text,
         \A s \in Record : Heard(s, Recorder!Record(s, e))
  PROVE  Follows(e)
<1> SUFFICES ASSUME NEW s \in Record, NEW t, t = Recorder!Record(s, e),
                    Fine(s, happened, revisions), AnswersSettled(s), SpeechSettled(s)
             PROVE  /\ t \in Record /\ Fine(t, happened', revisions')
                    /\ AnswersSettled(t)' /\ SpeechSettled(t)'
  BY DEF Follows
<1>1. Heard(s, t)
  OBVIOUS
<1>2. t \in Record /\ Fine(t, happened, revisions)
  BY <1>1, HeardIsFine DEF Heard
<1>3. AnswersSettled(t)' /\ SpeechSettled(t)'
  BY <1>1, HeardFollows
<1> QED
  BY <1>2, <1>3

\* One event of the speech, which leaves the window as it is or empties it.
LEMMA SpeechEventStep ==
  ASSUME IInv, NEW e \in Events, Emit(<<e>>), text' \in BOOLEAN, text' => text,
         UNCHANGED <<asked, flushing, flushPc, words, places, llm, history, downstream, app>>,
         \A s \in Record : Heard(s, Recorder!Record(s, e))
  PROVE  IInv'
<1>1. output' \in Seq(Events)
  BY EmitIs DEF IInv
<1>2. Follows(e)
  BY FollowsHeard DEF llm, history
<1>3. Grows(happened, happened', revisions, revisions')
  BY DEF Grows, history
<1>4. RecordersAhead'
  BY <1>2, <1>3, RecordersFollow, SinksRest DEF IInv
<1>5. WindowsTyped'
  BY DEF IInv, Typing, WindowsTyped, app
<1>6. LlmTyped'
  BY LlmRests DEF IInv, llm, history
<1>7. QuestionsGoOn' /\ QueueIsUnanswered'
  BY QuestionsRest DEF llm, history
<1>8. notices' \in Nat
  BY DEF IInv, Typing, app
<1> QED
  BY <1>1, <1>4, <1>5, <1>6, <1>7, <1>8, ProducedIs DEF app

LEMMA MarkStep ==
  ASSUME IInv, SpeechStarts \/ \E applied \in BOOLEAN : UtteranceEnds(applied)
  PROVE  IInv'
<1>1. text \in BOOLEAN
  BY DEF IInv, Typing, WindowsTyped
<1>2. CASE SpeechStarts
  <2>1. PICK e : e = [kind |-> "SpeechStarted"]
    OBVIOUS
  <2>2. e \in Events /\ e.kind = "SpeechStarted"
    BY <2>1 DEF Events
  <2>3. \A s \in Record : Heard(s, Recorder!Record(s, e))
    BY <2>2, RecordIs, SpeechStartedIs
  <2> QED
    BY <1>1, <1>2, <2>1, <2>2, <2>3, SpeechEventStep DEF SpeechStarts, Mark
<1>3. ASSUME NEW applied \in BOOLEAN, UtteranceEnds(applied)
      PROVE  IInv'
  <2>1. PICK e : e = [kind |-> "UtteranceEnd", applied |-> applied]
    OBVIOUS
  <2>2. e \in Events /\ e.kind = "UtteranceEnd"
    BY <2>1 DEF Events
  <2>3. \A s \in Record : Heard(s, Recorder!Record(s, e))
    BY <2>2, RecordIs, UtteranceEndIs, HeardNothing
  <2> QED
    BY <1>1, <1>3, <2>1, <2>2, <2>3, SpeechEventStep DEF UtteranceEnds, Mark
<1> QED
  BY <1>2, <1>3

LEMMA DiscardStep ==
  ASSUME IInv, Discard
  PROVE  IInv'
<1>1. PICK e : e = DraftEvent(TRUE)
  OBVIOUS
<1>2. e \in Events /\ e.kind = "TranscriptDraft" /\ e.empty = TRUE
  BY <1>1 DEF Events, DraftEvent
<1>3. ASSUME NEW s \in Record
      PROVE  Heard(s, Recorder!Record(s, e))
  <2>1. Recorder!Record(s, e) = Recorder!Draft(s, e.empty)
    BY <1>2, RecordIs
  <2>2. Recorder!Record(s, e) = Recorder!Draft(s, TRUE)
    BY <1>2, <2>1
  <2> QED
    BY <2>2, DraftIs
<1>4. text' = FALSE /\ Emit(<<e>>)
  BY <1>1 DEF Discard
<1>5. text' \in BOOLEAN
  BY Zenon, <1>4
<1> QED
  BY <1>2, <1>3, <1>4, <1>5, SpeechEventStep DEF Discard

-----------------------------------------------------------------------------
(* What happens to a request *)

LEMMA HappensIs ==
  ASSUME LlmTyped, NEW r \in Requests, NEW what \in Whats, Happens(r, what)
  PROVE  /\ happened' \in [Requests -> SUBSET Whats]
         /\ happened'[r] = happened[r] \cup {what}
         /\ \A q \in Requests : q # r => happened'[q] = happened[q]
         /\ \A q \in Requests : happened[q] \subseteq happened'[q]
         /\ \A q \in Requests : \A w : w # what => (w \in happened'[q] <=> w \in happened[q])
BY DEF LlmTyped, Happens

\* The speech of a request, as SpeechIsOfThisQuestion says.
SpeechOf(r, m) ==
  r[1] = "interviewer" /\ "ready" \in m.noted =>
    m.speech.draft = r[2] - 1 /\ AllOf(m.speech, r[2] - 1)

LEMMA NotedFollows ==
  ASSUME Typing, NEW s \in Record, NEW t, NEW r \in Requests, NEW what \in Whats,
         NotedIn(s, t, r, what), Fine(s, happened, revisions), AnswersSettled(s),
         Happens(r, what), UNCHANGED revisions, t.liveCoding = s.liveCoding,
         t.requests[r].answer = UpTo(Len(t.requests[r].answer)), SpeechOf(r, t.requests[r]),
         ~("completed" \in happened'[r] /\ "failed" \in happened'[r])
  PROVE  /\ t \in Record /\ Fine(t, happened', revisions') /\ t.liveCoding = revisions'
         /\ \A q \in Requests : t.requests[q].noted = happened'[q]
<1>1. /\ happened'[r] = happened[r] \cup {what}
      /\ \A q \in Requests : q # r => happened'[q] = happened[q]
  BY HappensIs DEF Typing
<1>2. t \in Record
  BY DEF NotedIn
<1>3. ASSUME NEW q \in Requests
      PROVE  t.requests[q].noted = happened'[q]
  BY <1>1 DEF NotedIn, AnswersSettled
<1>4. ASSUME NEW q \in Requests
      PROVE  Attributed(q, t.requests[q], happened'[q])
  <2>1. CASE q = r
    BY <1>3, <2>1 DEF Attributed, SpeechOf
  <2>2. CASE q # r
    BY <1>1, <2>2 DEF NotedIn, Fine
  <2> QED
    BY <2>1, <2>2
<1>5. IsPrefix(t.liveCoding, revisions')
  BY DEF Fine
<1>6. Fine(t, happened', revisions')
  BY <1>4, <1>5 DEF Fine
<1>7. t.liveCoding = revisions'
  BY DEF AnswersSettled
<1> QED
  BY <1>2, <1>3, <1>6, <1>7

\* Something other than the question itself, which leaves the answers alone.
LEMMA KeptFollows ==
  ASSUME Typing, NEW s \in Record, NEW t, NEW r \in Requests, NEW what \in Whats,
         what # "ready", NotedIn(s, t, r, what), RestKept(s, t, r), t.liveCoding = s.liveCoding,
         Fine(s, happened, revisions), AnswersSettled(s), SpeechSettled(s), Happens(r, what),
         UNCHANGED <<revisions, asked, text>>,
         ~("completed" \in happened'[r] /\ "failed" \in happened'[r])
  PROVE  /\ t \in Record /\ Fine(t, happened', revisions') /\ SpeechSettled(t)'
         /\ t.liveCoding = revisions'
         /\ \A q \in Requests :
              /\ t.requests[q].noted = happened'[q]
              /\ t.requests[q].answer = s.requests[q].answer
              /\ "started" \notin happened'[q] => t.requests[q].answer = <<>>
<1>1. Attributed(r, s.requests[r], happened[r])
  BY DEF Fine
<1>2. t.requests[r].answer = UpTo(Len(t.requests[r].answer))
  BY <1>1 DEF Attributed, RestKept
<1>3. SpeechOf(r, t.requests[r])
  BY <1>1 DEF Attributed, SpeechOf, RestKept, NotedIn
<1>4. /\ t \in Record /\ Fine(t, happened', revisions') /\ t.liveCoding = revisions'
      /\ \A q \in Requests : t.requests[q].noted = happened'[q]
  BY <1>2, <1>3, NotedFollows
<1>5. SpeechSettled(t)'
  BY DEF RestKept, SpeechKept, SpeechSettled, Recent
<1>6. ASSUME NEW q \in Requests
      PROVE  t.requests[q].answer = s.requests[q].answer
  BY DEF NotedIn, RestKept
<1>7. ASSUME NEW q \in Requests, "started" \notin happened'[q]
      PROVE  t.requests[q].answer = <<>>
  <2>1. "started" \notin happened[q]
    BY <1>7, HappensIs DEF Typing
  <2> QED
    BY <1>6, <2>1 DEF AnswersSettled
<1> QED
  BY <1>4, <1>5, <1>6, <1>7

\* The question that is on its way.
LEMMA FlushingIs ==
  ASSUME Typing, NEW s \in Speakers
  PROVE  /\ flushPc[s] # "no" => /\ flushing[s] = <<s, asked[s]>> /\ flushing[s] \in Requests
                                 /\ flushing[s][1] = s /\ flushing[s][2] = asked[s]
         /\ flushing[s] = None <=> flushPc[s] = "no"
<1>1. asked[s] \in 0..MaxQuestions
  BY DEF Typing, WindowsTyped
<1>2. CASE flushPc[s] = "no"
  BY <1>2 DEF Typing, WindowsTyped
<1>3. CASE flushPc[s] # "no"
  <2>1. flushing[s] = <<s, asked[s]>> /\ asked[s] # 0
    BY <1>3 DEF Typing, WindowsTyped
  <2>2. asked[s] \in 1..MaxQuestions
    BY <1>1, <2>1
  <2>3. flushing[s] \in Requests
    BY <2>1, <2>2 DEF Requests
  <2> QED
    BY <1>3, <2>1, <2>3, RequestsAre
<1> QED
  BY <1>2, <1>3

\* Something that does not settle how far the request has come.
LEMMA QuestionsNote ==
  ASSUME IInv, NEW r \in Requests, NEW what \in {"retrieval", "token", "usage"},
         Happens(r, what), ~(r[2] > asked[r[1]]),
         UNCHANGED <<asked, flushing, answering, requests>>,
         \A s \in Speakers :
           flushPc'[s] \in {"resolve", "queue"} => flushPc[s] \in {"resolve", "queue"}
  PROVE  QuestionsGoOn' /\ QueueIsUnanswered'
<1>1. what \in Whats /\ LlmTyped
  BY DEF Whats, IInv, Typing
<1>2. /\ \A q \in Requests : q # r => happened'[q] = happened[q]
      /\ \A q \in Requests : \A w : w # what => (w \in happened'[q] <=> w \in happened[q])
  BY <1>1, HappensIs
<1>3. \A q \in Requests :
        /\ "queued" \in happened'[q] <=> "queued" \in happened[q]
        /\ "started" \in happened'[q] <=> "started" \in happened[q]
        /\ "completed" \in happened'[q] <=> "completed" \in happened[q]
        /\ "failed" \in happened'[q] <=> "failed" \in happened[q]
  BY <1>2
<1>4. \A s \in Speakers : flushPc[s] \in {"resolve", "queue"} => flushing[s] \in Requests
  BY FlushingIs DEF IInv
<1>5. answering # None => answering \in Requests
  BY <1>1 DEF LlmTyped, Owners
<1>6. \A i \in 1..Len(requests) : requests[i] \in Requests
  BY <1>1, ElementOfSeq DEF LlmTyped
<1>7. QuestionsGoOn'
  <2>1. \A q \in Requests : q[2] > asked[q[1]] => happened'[q] = {}
    BY <1>2 DEF IInv, QuestionsGoOn
  <2>2. \A q \in Requests :
          /\ "started" \in happened'[q] => "queued" \in happened'[q]
          /\ "completed" \in happened'[q] \/ "failed" \in happened'[q] =>
               "started" \in happened'[q] /\ answering # q
          /\ ~("completed" \in happened'[q] /\ "failed" \in happened'[q])
    BY <1>3 DEF IInv, QuestionsGoOn
  <2>3. \A s \in Speakers :
          flushPc'[s] \in {"resolve", "queue"} => "queued" \notin happened'[flushing[s]]
    BY <1>3, <1>4 DEF IInv, QuestionsGoOn
  <2>4. answering # None => "started" \in happened'[answering]
    BY <1>3, <1>5 DEF IInv, QuestionsGoOn
  <2> QED
    BY <2>1, <2>2, <2>3, <2>4 DEF QuestionsGoOn
<1>8. QueueIsUnanswered'
  BY <1>3, <1>6 DEF IInv, QueueIsUnanswered
<1> QED
  BY <1>7, <1>8

LEMMA HappeningGrows ==
  ASSUME IInv, NEW r \in Requests, NEW what \in Whats, Happens(r, what), UNCHANGED revisions
  PROVE  Grows(happened, happened', revisions, revisions')
BY HappensIs DEF IInv, Typing, Grows

\* No failed request is completed, and the reverse, when neither is new.
LEMMA EndsRest ==
  ASSUME IInv, NEW r \in Requests, NEW what \in Whats, what \notin {"completed", "failed"},
         Happens(r, what)
  PROVE  ~("completed" \in happened'[r] /\ "failed" \in happened'[r])
<1>1. /\ "completed" \in happened'[r] <=> "completed" \in happened[r]
      /\ "failed" \in happened'[r] <=> "failed" \in happened[r]
  BY HappensIs DEF IInv, Typing
<1> QED
  BY <1>1 DEF IInv, QuestionsGoOn

-----------------------------------------------------------------------------
(* The questions *)

LEMMA UpToIs ==
  ASSUME NEW n \in Nat
  PROVE  /\ UpTo(n) \in Seq(Nat) /\ Len(UpTo(n)) = n
         /\ Append(UpTo(n), n + 1) = UpTo(n + 1)
         /\ UpTo(0) = <<>>
<1>1. UpTo(n) \in [1..n -> Nat] /\ UpTo(n + 1) \in [1..(n + 1) -> Nat]
  BY DEF UpTo
<1>2. UpTo(n) \in Seq(Nat) /\ UpTo(n + 1) \in Seq(Nat)
  BY <1>1, SeqDef
<1>3. Len(UpTo(n)) = n /\ Len(UpTo(n + 1)) = n + 1
  BY <1>1, <1>2, LenProperties
<1>4. /\ \A i \in 1..n : UpTo(n)[i] = i
      /\ \A i \in 1..(n + 1) : UpTo(n + 1)[i] = i
  BY DEF UpTo
<1> DEFINE more == Append(UpTo(n), n + 1)
<1>5. /\ more \in Seq(Nat) /\ Len(more) = n + 1
      /\ \A i \in 1..n : more[i] = UpTo(n)[i]
      /\ more[n + 1] = n + 1
  BY <1>2, <1>3, AppendProperties
<1> HIDE DEF more
<1>6. \A i \in 1..Len(more) : more[i] = UpTo(n + 1)[i]
  BY <1>3, <1>4, <1>5
<1>7. more = UpTo(n + 1)
  BY <1>2, <1>3, <1>5, <1>6, SeqEqual
<1>8. UpTo(0) = <<>>
  <2>1. UpTo(0) \in [1..0 -> Nat]
    BY DEF UpTo
  <2>2. UpTo(0) \in Seq(Nat)
    BY <2>1, SeqDef
  <2>3. Len(UpTo(0)) = 0
    BY <2>1, <2>2, LenProperties
  <2> QED
    BY <2>2, <2>3, EmptySeq
<1> QED
  BY <1>2, <1>3, <1>7, <1>8 DEF more

LEMMA ScenarioIs ==
  ASSUME Typing
  PROVE  /\ \A s \in Speakers : scenario.questions[s] \in 0..MaxQuestions
         /\ scenario.notices \in Seq({"Status", "ModeChanged"})
BY ScenariosAssumption DEF Typing

\* What a question changes in the windows.
LEMMA AskedIs ==
  ASSUME Typing, NEW s \in Speakers, NEW mode, Ask(s, mode), NEW r, r = <<s, asked[s] + 1>>
  PROVE  /\ r \in Requests /\ r[1] = s /\ r[2] = asked[s] + 1
         /\ asked' \in [Speakers -> 0..MaxQuestions] /\ asked'[s] = asked[s] + 1
         /\ \A p \in Speakers : p # s => asked'[p] = asked[p]
         /\ flushing' \in [Speakers -> Owners] /\ flushing'[s] = r
         /\ \A p \in Speakers : p # s => flushing'[p] = flushing[p]
         /\ flushPc' \in [Speakers -> {"no", "resolve", "queue", "queued"}]
         /\ flushPc'[s] \in {"resolve", "queue"}
         /\ \A p \in Speakers : p # s => flushPc'[p] = flushPc[p]
<1>1. /\ asked' = [asked EXCEPT ![s] = @ + 1] /\ flushing' = [flushing EXCEPT ![s] = r]
      /\ flushPc' = [flushPc EXCEPT ![s] =
            IF mode = "voice" /\ s = "interviewer" THEN "resolve" ELSE "queue"]
      /\ asked[s] < scenario.questions[s]
  BY DEF Ask
<1>2. asked[s] \in 0..MaxQuestions /\ scenario.questions[s] \in 0..MaxQuestions
  BY ScenarioIs DEF Typing, WindowsTyped
<1>3. asked[s] + 1 \in 1..MaxQuestions
  BY <1>1, <1>2, BoundsAssumption
<1>4. r \in Requests /\ r[1] = s /\ r[2] = asked[s] + 1
  BY <1>3 DEF Requests
<1>5. r \in Owners
  BY <1>4, RequestsAre
<1> QED
  BY <1>1, <1>3, <1>4, <1>5 DEF Typing, WindowsTyped

LEMMA AskStep ==
  ASSUME IInv, NEW s \in Speakers, NEW mode, Ask(s, mode)
  PROVE  IInv'
<1> USE DEF IInv
<1>1. PICK r : r = <<s, asked[s] + 1>>
  OBVIOUS
<1>2. /\ r \in Requests /\ r[1] = s /\ r[2] = asked[s] + 1
      /\ asked' \in [Speakers -> 0..MaxQuestions] /\ asked'[s] = asked[s] + 1
      /\ \A p \in Speakers : p # s => asked'[p] = asked[p]
      /\ flushing' \in [Speakers -> Owners] /\ flushing'[s] = r
      /\ \A p \in Speakers : p # s => flushing'[p] = flushing[p]
      /\ flushPc' \in [Speakers -> {"no", "resolve", "queue", "queued"}]
      /\ flushPc'[s] \in {"resolve", "queue"}
      /\ \A p \in Speakers : p # s => flushPc'[p] = flushPc[p]
  BY <1>1, AskedIs
<1>3. PICK e : e = [kind |-> "Transcript", id |-> r, place |-> places + 1]
  OBVIOUS
<1>4. /\ Emit(<<e>>) /\ Happens(r, "ready") /\ places' = places + 1
      /\ text' = (text /\ s # "interviewer") /\ (s = "interviewer" => text)
      /\ UNCHANGED <<words, marks, requests, answering, llmPc, given, clears, spoken, revisions,
                     downstream, app>>
  BY <1>1, <1>3 DEF Ask
<1>5. /\ places \in Nat /\ asked \in [Speakers -> 0..MaxQuestions] /\ text \in BOOLEAN /\ words \in Nat
      /\ closing \in BOOLEAN
  BY DEF Typing, WindowsTyped
<1>6. e \in Events
  BY <1>2, <1>3, <1>5 DEF Events
<1>7. output' \in Seq(Events)
  BY <1>4, <1>6, EmitIs
<1>8. "ready" \in Whats
  BY DEF Whats
<1>9. /\ happened' \in [Requests -> SUBSET Whats]
      /\ happened'[r] = happened[r] \cup {"ready"}
      /\ \A q \in Requests : q # r => happened'[q] = happened[q]
      /\ \A q \in Requests : \A w : w # "ready" => (w \in happened'[q] <=> w \in happened[q])
  BY <1>2, <1>4, <1>8, HappensIs DEF Typing
<1>10. \A q \in Requests :
         /\ "queued" \in happened'[q] <=> "queued" \in happened[q]
         /\ "started" \in happened'[q] <=> "started" \in happened[q]
         /\ "completed" \in happened'[q] <=> "completed" \in happened[q]
         /\ "failed" \in happened'[q] <=> "failed" \in happened[q]
  BY <1>9
<1>11. happened[r] = {}
  <2>1. asked[s] \in 0..MaxQuestions
    BY <1>5
  <2>2. r[2] > asked[r[1]]
    BY <1>2, <2>1
  <2> QED
    BY <1>2, <2>2 DEF QuestionsGoOn
<1>12. text' \in BOOLEAN
  BY <1>4, Zenon
<1>13. WindowsTyped'
  <2>1. \A p \in Speakers :
          /\ flushing'[p] = IF flushPc'[p] = "no" THEN None ELSE <<p, asked'[p]>>
          /\ flushPc'[p] # "no" => asked'[p] # 0
    <3> SUFFICES ASSUME NEW p \in Speakers
                 PROVE  /\ flushing'[p] = IF flushPc'[p] = "no" THEN None ELSE <<p, asked'[p]>>
                        /\ flushPc'[p] # "no" => asked'[p] # 0
      OBVIOUS
    <3>1. CASE p = s
      BY <1>1, <1>2, <1>5, <3>1
    <3>2. CASE p # s
      BY <1>2, <3>2 DEF Typing, WindowsTyped
    <3> QED
      BY <3>1, <3>2
  <2>2. places' \in Nat
    BY <1>4, <1>5
  <2> QED
    BY <1>2, <1>4, <1>5, <1>12, <2>1, <2>2 DEF WindowsTyped, app
<1>14. LlmTyped'
  BY <1>4, <1>9 DEF Typing, LlmTyped
<1>15. QuestionsGoOn'
  <2>1. ASSUME NEW q \in Requests, q[2] > asked'[q[1]]
        PROVE  happened'[q] = {}
    <3>1. q[1] \in Speakers /\ q[2] \in 1..MaxQuestions /\ asked[q[1]] \in 0..MaxQuestions
      BY <1>5 DEF Requests
    <3>2. q # r /\ q[2] > asked[q[1]]
      <4>1. CASE q[1] = s
        BY <1>2, <2>1, <3>1, <4>1
      <4>2. CASE q[1] # s
        BY <1>2, <2>1, <3>1, <4>2
      <4> QED
        BY <4>1, <4>2
    <3> QED
      BY <1>9, <3>2 DEF QuestionsGoOn
  <2>2. \A q \in Requests :
          /\ "started" \in happened'[q] => "queued" \in happened'[q]
          /\ "completed" \in happened'[q] \/ "failed" \in happened'[q] =>
               "started" \in happened'[q] /\ answering' # q
          /\ ~("completed" \in happened'[q] /\ "failed" \in happened'[q])
    BY <1>4, <1>10 DEF QuestionsGoOn
  <2>3. ASSUME NEW p \in Speakers, flushPc'[p] \in {"resolve", "queue"}
        PROVE  "queued" \notin happened'[flushing'[p]]
    <3>1. CASE p = s
      BY <1>2, <1>9, <1>11, <3>1
    <3>2. CASE p # s
      <4>1. flushPc[p] \in {"resolve", "queue"} /\ flushing'[p] = flushing[p]
        BY <1>2, <2>3, <3>2
      <4>2. flushing[p] \in Requests
        BY <4>1, FlushingIs
      <4> QED
        BY <1>10, <4>1, <4>2 DEF QuestionsGoOn
    <3> QED
      BY <3>1, <3>2
  <2>4. answering' # None => "started" \in happened'[answering']
    <3>1. answering # None => answering \in Requests
      BY DEF Typing, LlmTyped, Owners
    <3> QED
      BY <1>4, <1>10, <3>1 DEF QuestionsGoOn
  <2> QED
    BY <2>1, <2>2, <2>3, <2>4 DEF QuestionsGoOn
<1>16. QueueIsUnanswered'
  <2>1. \A i \in 1..Len(requests) : requests[i] \in Requests
    BY ElementOfSeq DEF Typing, LlmTyped
  <2> QED
    BY <1>4, <1>10, <2>1 DEF QueueIsUnanswered
<1>17. Follows(e)
  <2> SUFFICES ASSUME NEW t \in Record, NEW u, u = Recorder!Record(t, e),
                      Fine(t, happened, revisions), AnswersSettled(t), SpeechSettled(t)
               PROVE  /\ u \in Record /\ Fine(u, happened', revisions')
                      /\ AnswersSettled(u)' /\ SpeechSettled(u)'
    BY DEF Follows
  <2>1. e.kind = "Transcript" /\ e.id = r
    BY <1>3
  <2>2. u = Recorder!Question(t, r)
    BY <2>1, RecordIs
  <2>3. /\ NotedIn(t, u, r, "ready")
        /\ u.requests[r].answer = t.requests[r].answer
        /\ u.active = t.active /\ u.liveCoding = t.liveCoding
        /\ r[1] # "interviewer" => SpeechKept(t, u)
        /\ r[1] = "interviewer" =>
             /\ u.requests[r].speech = t.last /\ u.now = t.now + 1
             /\ u.last = Recorder!NoTimes /\ u.draftActive = FALSE
    <3>1. r \in Requests
      BY <1>2
    <3> QED
      BY <2>2, <3>1, QuestionIs
  <2>4. u.requests[r].answer = UpTo(Len(u.requests[r].answer))
    BY <1>2, <2>3 DEF Fine, Attributed
  <2>5. SpeechOf(r, u.requests[r])
    <3> SUFFICES ASSUME r[1] = "interviewer"
                 PROVE  /\ u.requests[r].speech.draft = r[2] - 1
                        /\ AllOf(u.requests[r].speech, r[2] - 1)
      BY DEF SpeechOf
    <3>1. text /\ t.now = asked[s] /\ asked[s] \in 0..MaxQuestions
      BY <1>2, <1>4, <1>5 DEF SpeechSettled
    <3>2. r[2] - 1 = t.now
      BY <1>2, <3>1
    <3>3. t.last.draft = t.now /\ AllOf(t.last, t.now)
      BY <3>1 DEF SpeechSettled, Recent
    <3> QED
      BY <2>3, <3>2, <3>3
  <2>6. ~("completed" \in happened'[r] /\ "failed" \in happened'[r])
    BY <1>2, <1>4, <1>8, EndsRest
  <2>7. /\ u \in Record /\ Fine(u, happened', revisions') /\ u.liveCoding = revisions'
        /\ \A q \in Requests : u.requests[q].noted = happened'[q]
    BY <1>2, <1>4, <1>8, <2>3, <2>4, <2>5, <2>6, NotedFollows
  <2>8. \A q \in Requests : u.requests[q].answer = t.requests[q].answer
    BY <2>3 DEF NotedIn
  <2>9. AnswersSettled(u)'
    <3>1. \A q \in Requests : "started" \notin happened'[q] => u.requests[q].answer = <<>>
      BY <1>10, <2>8 DEF AnswersSettled
    <3>2. answering # None => answering \in Requests
      BY DEF Typing, LlmTyped, Owners
    <3>3. answering # None => u.requests[answering].answer = UpTo(given)
      BY <2>8, <3>2 DEF AnswersSettled
    <3>4. u.active = answering
      BY <2>3 DEF AnswersSettled
    <3> QED
      BY <1>4, <2>7, <3>1, <3>3, <3>4 DEF AnswersSettled
  <2>10. SpeechSettled(u)'
    <3>1. CASE r[1] # "interviewer"
      <4>1. asked'["interviewer"] = asked["interviewer"] /\ (text' => text)
        BY <1>2, <1>4, <3>1 DEF Speakers
      <4> QED
        BY <2>3, <3>1, <4>1 DEF SpeechKept, SpeechSettled, Recent
    <3>2. CASE r[1] = "interviewer"
      <4>1. asked'["interviewer"] = asked["interviewer"] + 1 /\ ~text'
        BY <1>2, <1>4, <3>2
      <4> QED
        BY <2>3, <3>2, <4>1, NoTimesAre DEF SpeechSettled, Recent
    <3> QED
      BY <3>1, <3>2
  <2> QED
    BY <2>7, <2>9, <2>10
<1>18. Grows(happened, happened', revisions, revisions')
  BY <1>2, <1>4, <1>8, HappeningGrows
<1>19. RecordersAhead'
  BY <1>4, <1>6, <1>17, <1>18, RecordersFollow, SinksRest
<1>20. notices' \in Nat
  BY <1>4 DEF Typing, app
<1> QED
  BY <1>4, <1>7, <1>13, <1>14, <1>15, <1>16, <1>19, <1>20, ProducedIs DEF app

\* An event that is only noted.
LEMMA FollowsNoted ==
  ASSUME IInv, NEW e, NEW r \in Requests, NEW what \in Whats,
         what \notin {"ready", "completed", "failed"}, Happens(r, what),
         UNCHANGED <<revisions, asked, text, answering, given>>,
         \A s \in Record : Recorder!Record(s, e) = Recorder!Note(s, r, what)
  PROVE  Follows(e) /\ Grows(happened, happened', revisions, revisions')
<1>1. ~("completed" \in happened'[r] /\ "failed" \in happened'[r])
  BY EndsRest
<1>2. answering # None => answering \in Requests
  BY DEF IInv, Typing, LlmTyped, Owners
<1>3. Follows(e)
  <2> SUFFICES ASSUME NEW s \in Record, NEW t, t = Recorder!Record(s, e),
                      Fine(s, happened, revisions), AnswersSettled(s), SpeechSettled(s)
               PROVE  /\ t \in Record /\ Fine(t, happened', revisions')
                      /\ AnswersSettled(t)' /\ SpeechSettled(t)'
    BY DEF Follows
  <2>1. t = Recorder!Note(s, r, what)
    OBVIOUS
  <2>2. /\ NotedIn(s, t, r, what) /\ RestKept(s, t, r)
        /\ t.active = s.active /\ t.liveCoding = s.liveCoding
    BY <2>1, NoteIs
  <2>3. /\ t \in Record /\ Fine(t, happened', revisions') /\ SpeechSettled(t)'
        /\ t.liveCoding = revisions'
        /\ \A q \in Requests :
             /\ t.requests[q].noted = happened'[q]
             /\ t.requests[q].answer = s.requests[q].answer
             /\ "started" \notin happened'[q] => t.requests[q].answer = <<>>
    BY <1>1, <2>2, KeptFollows DEF IInv
  <2>4. answering # None => t.requests[answering].answer = UpTo(given)
    BY <1>2, <2>3 DEF AnswersSettled
  <2>5. t.active = answering
    BY <2>2 DEF AnswersSettled
  <2> QED
    BY <2>3, <2>4, <2>5 DEF AnswersSettled
<1> QED
  BY <1>3, HappeningGrows

\* The windows when nothing but a flush goes on.
LEMMA FlushGoesOn ==
  ASSUME Typing, UNCHANGED <<asked, flushing, text, words, closing>>, places' \in Nat,
         NEW s \in Speakers, flushPc[s] # "no", NEW pc \in {"queue", "queued"},
         flushPc' = [flushPc EXCEPT ![s] = pc]
  PROVE  /\ WindowsTyped' /\ flushPc'[s] = pc
         /\ \A p \in Speakers : p # s => flushPc'[p] = flushPc[p]
<1>1. /\ flushPc' \in [Speakers -> {"no", "resolve", "queue", "queued"}] /\ flushPc'[s] = pc
      /\ \A p \in Speakers : p # s => flushPc'[p] = flushPc[p]
  BY DEF Typing, WindowsTyped
<1>2. \A p \in Speakers : flushPc'[p] = "no" <=> flushPc[p] = "no"
  BY <1>1
<1> QED
  BY <1>1, <1>2 DEF Typing, WindowsTyped

LEMMA ResolveStep ==
  ASSUME IInv, NEW found \in BOOLEAN, Resolve(found)
  PROVE  IInv'
<1> USE DEF IInv
<1> DEFINE s == "interviewer"
<1>1. /\ s \in Speakers /\ flushPc[s] = "resolve" /\ flushPc' = [flushPc EXCEPT ![s] = "queue"]
      /\ UNCHANGED <<asked, flushing, text, words, marks, llm, spoken, revisions, downstream,
                     app>>
  BY DEF Resolve, Speakers
<1>2. flushing[s] \in Requests /\ flushing[s][1] = s /\ flushing[s][2] = asked[s]
  BY <1>1, FlushingIs
<1>3. PICK r \in Requests : r = flushing[s]
  BY <1>2
<1>4. asked[s] \in 0..MaxQuestions /\ places \in Nat
  BY <1>1 DEF Typing, WindowsTyped
<1>5. ~(r[2] > asked[r[1]])
  BY <1>2, <1>3, <1>4
<1>6. /\ places' \in Nat /\ output' \in Seq(Events) /\ LlmTyped'
      /\ RecordersAhead' /\ happened' \in [Requests -> SUBSET Whats]
      /\ (\A p \in Speakers : flushPc'[p] \in {"resolve", "queue"} =>
            flushPc[p] \in {"resolve", "queue"}) => QuestionsGoOn' /\ QueueIsUnanswered'
  <2>1. CASE found
    <3>1. PICK e : e = [kind |-> "Retrieval", id |-> r]
      OBVIOUS
    <3>2. e \in Events /\ e.kind = "Retrieval" /\ e.id = r
      BY <3>1 DEF Events
    <3>3. Emit(<<e>>) /\ Happens(r, "retrieval") /\ UNCHANGED places
      BY <1>3, <2>1, <3>1 DEF Resolve
    <3>4. "retrieval" \in Whats
      BY DEF Whats
    <3>5. \A t \in Record : Recorder!Record(t, e) = Recorder!Note(t, r, "retrieval")
      BY <3>2, RecordIs
    <3>6. Follows(e) /\ Grows(happened, happened', revisions, revisions')
      BY <1>1, <3>3, <3>4, <3>5, FollowsNoted DEF llm
    <3>7. RecordersAhead'
      BY <1>1, <3>2, <3>3, <3>6, RecordersFollow, SinksRest
    <3>8. happened' \in [Requests -> SUBSET Whats]
      BY <3>3, <3>4, HappensIs DEF Typing
    <3>9. LlmTyped'
      BY <1>1, <3>8 DEF Typing, LlmTyped, llm
    <3>10. (\A p \in Speakers : flushPc'[p] \in {"resolve", "queue"} =>
             flushPc[p] \in {"resolve", "queue"}) => QuestionsGoOn' /\ QueueIsUnanswered'
      BY <1>1, <1>5, <3>3, QuestionsNote DEF llm
    <3> QED
      BY <1>4, <3>2, <3>3, <3>7, <3>8, <3>9, <3>10, EmitIs
  <2>2. CASE ~found
    <3>1. PICK e : e = [kind |-> "KnowledgeError", place |-> places + 1]
      OBVIOUS
    <3>2. e \in Events /\ e.kind = "KnowledgeError"
      BY <1>4, <3>1 DEF Events
    <3>3. Emit(<<e>>) /\ places' = places + 1 /\ UNCHANGED happened
      BY <2>2, <3>1 DEF Resolve
    <3>4. \A t \in Record : Heard(t, Recorder!Record(t, e))
      BY <3>2, RecordIs, HeardNothing
    <3>5. Follows(e)
      BY <1>1, <3>3, <3>4, FollowsHeard DEF llm
    <3>6. Grows(happened, happened', revisions, revisions')
      BY <1>1, <3>3 DEF Grows
    <3>7. RecordersAhead'
      BY <1>1, <3>2, <3>3, <3>5, <3>6, RecordersFollow, SinksRest
    <3>8. LlmTyped'
      BY <1>1, <3>3, LlmRests DEF llm
    <3>9. (\A p \in Speakers : flushPc'[p] \in {"resolve", "queue"} =>
             flushPc[p] \in {"resolve", "queue"}) => QuestionsGoOn' /\ QueueIsUnanswered'
      BY <1>1, <3>3 DEF llm, QuestionsGoOn, QueueIsUnanswered
    <3> QED
      BY <1>4, <3>2, <3>3, <3>7, <3>8, <3>9, EmitIs DEF LlmTyped
  <2> QED
    BY <2>1, <2>2
<1>7. /\ WindowsTyped' /\ flushPc'[s] = "queue"
      /\ \A p \in Speakers : p # s => flushPc'[p] = flushPc[p]
  BY <1>1, <1>6, FlushGoesOn DEF app
<1>8. QuestionsGoOn' /\ QueueIsUnanswered'
  BY <1>1, <1>6, <1>7
<1>9. notices' \in Nat
  BY <1>1 DEF Typing, app
<1> QED
  BY <1>1, <1>6, <1>7, <1>8, <1>9, ProducedIs DEF app

LEMMA QueueStep ==
  ASSUME IInv, NEW s \in Speakers, Queue(s)
  PROVE  IInv'
<1> USE DEF IInv
<1>1. /\ flushPc[s] = "queue" /\ flushPc' = [flushPc EXCEPT ![s] = "queued"]
      /\ UNCHANGED <<asked, flushing, text, words, marks, places, modes, answering, llmPc,
                     given, clears, spoken, revisions, downstream, app>>
  BY DEF Queue
<1>2. flushing[s] \in Requests /\ flushing[s][1] = s /\ flushing[s][2] = asked[s]
  BY <1>1, FlushingIs
<1>3. PICK r \in Requests : r = flushing[s]
  BY <1>2
<1>4. r[1] = s /\ r[2] = asked[s] /\ "queued" \notin happened[r]
  BY <1>1, <1>2, <1>3 DEF QuestionsGoOn
<1>5. "started" \notin happened[r] /\ "queued" \in Whats
  BY <1>4 DEF QuestionsGoOn, Whats
<1>6. PICK e : e = [kind |-> "LlmQueued", id |-> r]
  OBVIOUS
<1>7. e \in Events /\ e.kind = "LlmQueued" /\ e.id = r
  BY <1>6 DEF Events
<1>8. Emit(<<e>>) /\ Happens(r, "queued") /\ requests' = Append(requests, r)
  BY <1>3, <1>6 DEF Queue
<1>9. \A t \in Record : Recorder!Record(t, e) = Recorder!Note(t, r, "queued")
  BY <1>7, RecordIs
<1>10. Follows(e) /\ Grows(happened, happened', revisions, revisions')
  BY <1>1, <1>5, <1>8, <1>9, FollowsNoted
<1>11. RecordersAhead'
  BY <1>1, <1>7, <1>8, <1>10, RecordersFollow, SinksRest
<1>12. /\ happened' \in [Requests -> SUBSET Whats]
       /\ happened'[r] = happened[r] \cup {"queued"}
       /\ \A q \in Requests : q # r => happened'[q] = happened[q]
       /\ \A q \in Requests : \A w : w # "queued" => (w \in happened'[q] <=> w \in happened[q])
  BY <1>5, <1>8, HappensIs DEF Typing
<1>13. \A q \in Requests :
         /\ "queued" \in happened[q] => "queued" \in happened'[q]
         /\ "started" \in happened'[q] <=> "started" \in happened[q]
         /\ "completed" \in happened'[q] <=> "completed" \in happened[q]
         /\ "failed" \in happened'[q] <=> "failed" \in happened[q]
  BY <1>12
<1>14. requests \in Seq(Requests)
  BY DEF Typing, LlmTyped
<1>15. /\ requests' \in Seq(Requests) /\ Len(requests') = Len(requests) + 1
       /\ \A i \in 1..Len(requests) : requests'[i] = requests[i] /\ requests[i] \in Requests
       /\ requests'[Len(requests) + 1] = r /\ Len(requests) \in Nat
  BY <1>8, <1>14, AppendProperties, LenProperties, ElementOfSeq
<1>16. LlmTyped'
  BY <1>1, <1>12, <1>15 DEF Typing, LlmTyped
<1>17. places' \in Nat
  BY <1>1 DEF Typing, WindowsTyped
<1>18. /\ WindowsTyped' /\ flushPc'[s] = "queued"
       /\ \A p \in Speakers : p # s => flushPc'[p] = flushPc[p]
  BY <1>1, <1>17, FlushGoesOn DEF app
<1>19. QuestionsGoOn'
  <2>1. ASSUME NEW q \in Requests, q[2] > asked[q[1]]
        PROVE  happened'[q] = {}
    <3>1. asked[s] \in 0..MaxQuestions
      BY DEF Typing, WindowsTyped
    <3>2. q # r
      BY <1>4, <2>1, <3>1
    <3> QED
      BY <1>12, <2>1, <3>2 DEF QuestionsGoOn
  <2>2. \A q \in Requests :
          /\ "started" \in happened'[q] => "queued" \in happened'[q]
          /\ "completed" \in happened'[q] \/ "failed" \in happened'[q] =>
               "started" \in happened'[q] /\ answering # q
          /\ ~("completed" \in happened'[q] /\ "failed" \in happened'[q])
    BY <1>13 DEF QuestionsGoOn
  <2>3. ASSUME NEW p \in Speakers, flushPc'[p] \in {"resolve", "queue"}
        PROVE  "queued" \notin happened'[flushing[p]]
    <3>1. p # s /\ flushPc[p] \in {"resolve", "queue"}
      BY <1>18, <2>3
    <3>2. flushing[p] \in Requests /\ flushing[p] # r
      BY <1>4, <3>1, FlushingIs
    <3> QED
      BY <1>12, <3>1, <3>2 DEF QuestionsGoOn
  <2>4. answering # None => "started" \in happened'[answering]
    <3>1. answering # None => answering \in Requests
      BY DEF Typing, LlmTyped, Owners
    <3> QED
      BY <1>13, <3>1 DEF QuestionsGoOn
  <2> QED
    BY <1>1, <2>1, <2>2, <2>3, <2>4 DEF QuestionsGoOn
<1>20. QueueIsUnanswered'
  <2>1. \A i \in 1..Len(requests) : requests[i] # r
    BY <1>4 DEF QueueIsUnanswered
  <2>2. ASSUME NEW i \in 1..Len(requests')
        PROVE  /\ "queued" \in happened'[requests'[i]] /\ "started" \notin happened'[requests'[i]]
               /\ \A k \in 1..Len(requests') : requests'[k] = requests'[i] => k = i
    <3>1. \A k \in 1..Len(requests') : k \in 1..Len(requests) \/ k = Len(requests) + 1
      BY <1>15
    <3>2. CASE i \in 1..Len(requests)
      <4>1. /\ "queued" \in happened'[requests[i]] /\ "started" \notin happened'[requests[i]]
        BY <1>13, <1>15, <3>2 DEF QueueIsUnanswered
      <4>2. \A k \in 1..Len(requests') : requests'[k] = requests'[i] => k = i
        BY <1>15, <2>1, <3>1, <3>2 DEF QueueIsUnanswered
      <4> QED
        BY <1>15, <3>2, <4>1, <4>2
    <3>3. CASE i = Len(requests) + 1
      <4>1. "queued" \in happened'[r] /\ "started" \notin happened'[r]
        BY <1>5, <1>12
      <4>2. \A k \in 1..Len(requests') : requests'[k] = r => k = i
        BY <1>15, <2>1, <3>1, <3>3
      <4> QED
        BY <1>15, <3>3, <4>1, <4>2
    <3> QED
      BY <3>1, <3>2, <3>3
  <2> QED
    BY <2>2 DEF QueueIsUnanswered
<1>21. output' \in Seq(Events)
  BY <1>7, <1>8, EmitIs
<1>22. notices' \in Nat
  BY <1>1 DEF Typing, app
<1> QED
  BY <1>1, <1>11, <1>16, <1>18, <1>19, <1>20, <1>21, <1>22, ProducedIs DEF app

LEMMA QueuedStep ==
  ASSUME IInv, NEW s \in Speakers, Queued(s)
  PROVE  IInv'
<1> USE DEF IInv
<1>1. /\ flushPc[s] = "queued" /\ flushPc' = [flushPc EXCEPT ![s] = "no"]
      /\ flushing' = [flushing EXCEPT ![s] = None]
      /\ places' = IF Len(requests) > 1 THEN places + 1 ELSE places
      /\ UNCHANGED <<asked, text, words, marks, llm, history, downstream, app>>
  BY DEF Queued
<1>2. places' \in Nat /\ Len(requests) \in Nat
  <2>1. places \in Nat /\ requests \in Seq(Requests)
    BY DEF Typing, WindowsTyped, LlmTyped
  <2>2. Len(requests) \in Nat
    BY <2>1, LenProperties
  <2> QED
    BY <1>1, <2>1, <2>2
<1>3. PICK n \in Nat : n = Len(requests)
  BY <1>2
<1>4. PICK place \in Nat : place = places'
  BY <1>2
<1>5. PICK e : e = [kind |-> "QueueState", len |-> n, place |-> place]
  OBVIOUS
<1>6. PICK f : f = DraftEvent(TRUE)
  OBVIOUS
<1>7. /\ e \in Events /\ e.kind = "QueueState" /\ f \in Events /\ f.kind = "TranscriptDraft"
      /\ f.empty = TRUE
  BY <1>5, <1>6 DEF Events, DraftEvent
<1>8. Emit(IF s = "interviewer" /\ ~closing THEN <<e, f>> ELSE <<e>>)
  BY <1>3, <1>4, <1>5, <1>6 DEF Queued
<1>9. \A t \in Record : Recorder!Record(t, e) = t
  BY <1>7, RecordIs
<1>10. RecordersAhead' /\ output' \in Seq(Events)
  <2>1. CASE s = "interviewer" /\ ~closing
    <3>1. Emit(<<e, f>>)
      BY <1>8, <2>1
    <3>2. FollowTwo(e, f)
      <4> SUFFICES ASSUME NEW t \in Record, NEW u, NEW v, u = Recorder!Record(t, e),
                          v = Recorder!Record(u, f), AnswersSettled(t), SpeechSettled(t)
                   PROVE  Heard(t, u) /\ Heard(t, v) /\ AnswersSettled(v)' /\ SpeechSettled(v)'
        BY DEF FollowTwo
      <4>1. u = t
        BY <1>9
      <4>2. v = Recorder!Draft(t, f.empty)
        BY <1>7, <4>1, RecordIs
      <4>3. v = Recorder!Draft(t, TRUE)
        BY <1>7, <4>2
      <4>4. Heard(t, v) /\ Heard(t, u)
        BY <4>1, <4>3, DraftIs, HeardNothing
      <4> QED
        BY <1>1, <4>4, HeardFollows DEF llm, history
    <3> QED
      BY <1>1, <1>7, <3>1, <3>2, RecordersFollowTwo, EmitTwoIs, SinksRest DEF history
  <2>2. CASE ~(s = "interviewer" /\ ~closing)
    <3>1. Emit(<<e>>)
      BY <1>8, <2>2
    <3>2. \A t \in Record : Heard(t, Recorder!Record(t, e))
      BY <1>9, HeardNothing
    <3>3. Follows(e)
      BY <1>1, <3>2, FollowsHeard DEF llm, history
    <3>4. Grows(happened, happened', revisions, revisions')
      BY <1>1 DEF Grows, history
    <3> QED
      BY <1>1, <1>7, <3>1, <3>3, <3>4, RecordersFollow, EmitIs, SinksRest
  <2> QED
    BY <2>1, <2>2
<1>11. /\ flushPc' \in [Speakers -> {"no", "resolve", "queue", "queued"}] /\ flushPc'[s] = "no"
       /\ flushing' \in [Speakers -> Owners] /\ flushing'[s] = None
       /\ \A p \in Speakers : p # s => flushPc'[p] = flushPc[p] /\ flushing'[p] = flushing[p]
  BY <1>1 DEF Typing, WindowsTyped, Owners
<1>12. WindowsTyped'
  BY <1>1, <1>2, <1>11 DEF Typing, WindowsTyped, app
<1>13. LlmTyped'
  BY <1>1, LlmRests DEF llm, history
<1>14. QuestionsGoOn' /\ QueueIsUnanswered'
  <2>1. \A p \in Speakers :
          flushPc'[p] \in {"resolve", "queue"} =>
            flushPc[p] \in {"resolve", "queue"} /\ flushing'[p] = flushing[p]
    BY <1>11
  <2> QED
    BY <1>1, <2>1 DEF QuestionsGoOn, QueueIsUnanswered, llm, history
<1>15. notices' \in Nat
  BY <1>1 DEF Typing, app
<1> QED
  BY <1>1, <1>10, <1>12, <1>13, <1>14, <1>15, ProducedIs DEF app

-----------------------------------------------------------------------------
(* The LLM worker *)

\* The windows and the notices are left alone.
LEMMA LlmStep ==
  ASSUME IInv, UNCHANGED <<asked, flushing, flushPc, text, words, downstream, app>>,
         places' \in Nat, LlmTyped', output' \in Seq(Events), QuestionsGoOn',
         QueueIsUnanswered', RecordersAhead'
  PROVE  IInv'
<1>1. WindowsTyped'
  BY DEF IInv, Typing, WindowsTyped, app
<1>2. notices' \in Nat
  BY DEF IInv, Typing, app
<1> QED
  BY <1>1, <1>2, ProducedIs DEF app

LEMMA PlacesAre ==
  ASSUME IInv
  PROVE  places \in Nat /\ given \in Nat
BY DEF IInv, Typing, WindowsTyped, LlmTyped

\* The request that is being answered.
LEMMA AnsweringIs ==
  ASSUME IInv, llmPc # "idle"
  PROVE  /\ answering \in Requests /\ "started" \in happened[answering]
         /\ "completed" \notin happened[answering] /\ "failed" \notin happened[answering]
         /\ ~(answering[2] > asked[answering[1]])
         /\ \A i \in 1..Len(requests) : requests[i] # answering
<1>1. answering \in Requests /\ answering # None
  BY RequestsAre DEF IInv, Typing, LlmTyped, Owners
<1>2. "started" \in happened[answering]
  BY <1>1 DEF IInv, QuestionsGoOn
<1>3. "completed" \notin happened[answering] /\ "failed" \notin happened[answering]
  BY <1>1 DEF IInv, QuestionsGoOn
<1>4. happened[answering] # {}
  BY <1>2
<1> QED
  BY <1>1, <1>2, <1>3, <1>4 DEF IInv, QuestionsGoOn, QueueIsUnanswered

LEMMA StartAnswerStep ==
  ASSUME IInv, StartAnswer
  PROVE  IInv'
<1> USE DEF IInv
<1>1. /\ llmPc = "idle" /\ requests # <<>> /\ answering' = Head(requests)
      /\ requests' = Tail(requests) /\ llmPc' = "streaming" /\ given' = 0
      /\ Emit(<<[kind |-> "AnswerStarted", id |-> Head(requests)]>>)
      /\ Happens(Head(requests), "started")
      /\ UNCHANGED <<windows, modes, clears, spoken, revisions, downstream, app>>
  BY DEF StartAnswer
<1>2. requests \in Seq(Requests)
  BY DEF Typing, LlmTyped
<1>3. /\ Head(requests) = requests[1] /\ Len(requests') = Len(requests) - 1
      /\ 1 \in 1..Len(requests) /\ Len(requests) \in Nat /\ requests' \in Seq(Requests)
      /\ \A i \in 1..(Len(requests) - 1) : requests'[i] = requests[i + 1]
  <2>1. Len(requests) \in Nat /\ Len(requests) # 0
    BY <1>1, <1>2, LenProperties, EmptySeq
  <2> QED
    BY <1>1, <1>2, <2>1, HeadTailProperties
<1>4. \A i \in 1..Len(requests) : requests[i] \in Requests
  BY <1>2, ElementOfSeq
<1>5. PICK r \in Requests : r = Head(requests)
  BY <1>3, <1>4
<1>6. /\ "queued" \in happened[r] /\ "started" \notin happened[r]
      /\ \A i \in 1..Len(requests) : requests[i] = r => i = 1
  BY <1>3, <1>5 DEF QueueIsUnanswered
<1>7. /\ "completed" \notin happened[r] /\ "failed" \notin happened[r] /\ happened[r] # {}
      /\ "started" \in Whats
  BY <1>6 DEF QuestionsGoOn, Whats
<1>8. PICK e : e = [kind |-> "AnswerStarted", id |-> r]
  OBVIOUS
<1>9. e \in Events /\ e.kind = "AnswerStarted" /\ e.id = r
  BY <1>8 DEF Events
<1>10. Emit(<<e>>) /\ Happens(r, "started")
  BY <1>1, <1>5, <1>8
<1>11. /\ happened' \in [Requests -> SUBSET Whats]
       /\ happened'[r] = happened[r] \cup {"started"}
       /\ \A q \in Requests : q # r => happened'[q] = happened[q]
       /\ \A q \in Requests : \A w : w # "started" => (w \in happened'[q] <=> w \in happened[q])
  BY <1>7, <1>10, HappensIs DEF Typing
<1>12. ~("completed" \in happened'[r] /\ "failed" \in happened'[r])
  BY <1>7, <1>10, EndsRest
<1>13. Grows(happened, happened', revisions, revisions')
  BY <1>1, <1>7, <1>10, HappeningGrows
<1>14. answering = None
  BY <1>1 DEF Typing, LlmTyped
<1>15. Follows(e)
  <2> SUFFICES ASSUME NEW s \in Record, NEW t, t = Recorder!Record(s, e),
                      Fine(s, happened, revisions), AnswersSettled(s), SpeechSettled(s)
               PROVE  /\ t \in Record /\ Fine(t, happened', revisions')
                      /\ AnswersSettled(t)' /\ SpeechSettled(t)'
    BY DEF Follows
  <2>1. t = Recorder!Started(s, r)
    BY <1>9, RecordIs
  <2>2. /\ NotedIn(s, t, r, "started") /\ RestKept(s, t, r)
        /\ t.active = r /\ t.liveCoding = s.liveCoding
    BY <2>1, StartedIs
  <2>3. /\ t \in Record /\ Fine(t, happened', revisions') /\ SpeechSettled(t)'
        /\ t.liveCoding = revisions'
        /\ \A q \in Requests :
             /\ t.requests[q].noted = happened'[q]
             /\ t.requests[q].answer = s.requests[q].answer
             /\ "started" \notin happened'[q] => t.requests[q].answer = <<>>
    BY <1>1, <1>7, <1>10, <1>12, <2>2, KeptFollows DEF windows
  <2>4. t.requests[r].answer = <<>>
    BY <1>6, <2>3 DEF AnswersSettled
  <2>5. t.requests[r].answer = UpTo(0)
    BY <2>4, UpToIs
  <2> QED
    BY <1>1, <1>5, <2>2, <2>3, <2>5 DEF AnswersSettled
<1>16. RecordersAhead'
  BY <1>1, <1>9, <1>10, <1>13, <1>15, RecordersFollow, SinksRest
<1>17. LlmTyped'
  <2>1. r \in Owners /\ r # None /\ revisions \in Seq(Owners)
    BY RequestsAre DEF Typing, LlmTyped
  <2> QED
    BY <1>1, <1>3, <1>5, <1>11, <2>1 DEF LlmTyped
<1>18. QuestionsGoOn'
  <2>1. \A q \in Requests : q[2] > asked[q[1]] => happened'[q] = {}
    BY <1>7, <1>11 DEF QuestionsGoOn
  <2>2. \A q \in Requests :
          /\ "queued" \in happened'[q] <=> "queued" \in happened[q]
          /\ "completed" \in happened'[q] <=> "completed" \in happened[q]
          /\ "failed" \in happened'[q] <=> "failed" \in happened[q]
          /\ "started" \in happened[q] => "started" \in happened'[q]
          /\ "started" \in happened'[q] => "started" \in happened[q] \/ q = r
    BY <1>11
  <2>3. \A q \in Requests :
          /\ "started" \in happened'[q] => "queued" \in happened'[q]
          /\ "completed" \in happened'[q] \/ "failed" \in happened'[q] =>
               "started" \in happened'[q] /\ r # q
          /\ ~("completed" \in happened'[q] /\ "failed" \in happened'[q])
    BY <1>6, <1>7, <2>2 DEF QuestionsGoOn
  <2>4. ASSUME NEW p \in Speakers, flushPc[p] \in {"resolve", "queue"}
        PROVE  "queued" \notin happened'[flushing[p]]
    <3>1. flushing[p] \in Requests
      BY <2>4, FlushingIs
    <3> QED
      BY <2>2, <2>4, <3>1 DEF QuestionsGoOn
  <2>5. "started" \in happened'[r]
    BY <1>11
  <2> QED
    BY <1>1, <1>5, <2>1, <2>3, <2>4, <2>5 DEF QuestionsGoOn, windows
<1>19. QueueIsUnanswered'
  <2>1. ASSUME NEW i \in 1..Len(requests')
        PROVE  /\ "queued" \in happened'[requests'[i]] /\ "started" \notin happened'[requests'[i]]
               /\ \A k \in 1..Len(requests') : requests'[k] = requests'[i] => k = i
    <3>1. /\ \A k \in 1..Len(requests') : /\ k + 1 \in 1..Len(requests)
                                          /\ requests'[k] = requests[k + 1]
          /\ i + 1 \in 1..Len(requests) /\ i + 1 # 1
      BY <1>3
    <3>2. requests[i + 1] # r /\ requests[i + 1] \in Requests
      BY <1>4, <1>6, <3>1
    <3>3. /\ "queued" \in happened'[requests[i + 1]]
          /\ "started" \notin happened'[requests[i + 1]]
      BY <1>11, <3>1, <3>2 DEF QueueIsUnanswered
    <3>4. \A k \in 1..Len(requests') : requests[k + 1] = requests[i + 1] => k + 1 = i + 1
      BY <3>1 DEF QueueIsUnanswered
    <3>5. \A k \in 1..Len(requests') : k + 1 = i + 1 => k = i
      BY <1>3
    <3> QED
      BY <3>1, <3>3, <3>4, <3>5
  <2> QED
    BY <2>1 DEF QueueIsUnanswered
<1>20. output' \in Seq(Events)
  BY <1>9, <1>10, EmitIs
<1> QED
  BY <1>1, <1>16, <1>17, <1>18, <1>19, <1>20, PlacesAre, LlmStep DEF windows

LEMMA GiveDeltaStep ==
  ASSUME IInv, GiveDelta
  PROVE  IInv'
<1> USE DEF IInv
<1>1. /\ llmPc = "streaming" /\ given' = given + 1
      /\ Emit(<<[kind |-> "AnswerDelta", id |-> answering, delta |-> given + 1]>>)
      /\ Happens(answering, "token")
      /\ UNCHANGED <<windows, requests, modes, answering, llmPc, clears, spoken, revisions,
                     downstream, app>>
  BY DEF GiveDelta
<1>2. /\ answering \in Requests /\ "started" \in happened[answering]
      /\ ~(answering[2] > asked[answering[1]])
  BY <1>1, AnsweringIs
<1>3. PICK r \in Requests : r = answering
  BY <1>2
<1>4. PICK n \in Nat : n = given
  BY PlacesAre
<1>5. PICK e : e = [kind |-> "AnswerDelta", id |-> r, delta |-> n + 1]
  OBVIOUS
<1>6. e \in Events /\ e.kind = "AnswerDelta" /\ e.id = r /\ e.delta = n + 1 /\ n + 1 \in Nat
  BY <1>5 DEF Events
<1>7. Emit(<<e>>) /\ Happens(r, "token") /\ "token" \in Whats
  BY <1>1, <1>3, <1>4, <1>5 DEF Whats
<1>8. /\ happened' \in [Requests -> SUBSET Whats]
      /\ \A q \in Requests : \A w : w # "token" => (w \in happened'[q] <=> w \in happened[q])
  BY <1>7, HappensIs DEF Typing
<1>9. ~("completed" \in happened'[r] /\ "failed" \in happened'[r])
  BY <1>7, EndsRest
<1>10. Grows(happened, happened', revisions, revisions')
  BY <1>1, <1>7, HappeningGrows
<1>11. Follows(e)
  <2> SUFFICES ASSUME NEW s \in Record, NEW t, t = Recorder!Record(s, e),
                      Fine(s, happened, revisions), AnswersSettled(s), SpeechSettled(s)
               PROVE  /\ t \in Record /\ Fine(t, happened', revisions')
                      /\ AnswersSettled(t)' /\ SpeechSettled(t)'
    BY DEF Follows
  <2>1. t = Recorder!Delta(s, r, e.delta)
    BY <1>6, RecordIs
  <2>2. t = Recorder!Delta(s, r, n + 1)
    BY <1>6, <2>1
  <2>3. /\ NotedIn(s, t, r, "token")
        /\ t.requests[r].answer = Append(s.requests[r].answer, n + 1)
        /\ t.requests[r].speech = s.requests[r].speech
        /\ SpeechKept(s, t) /\ t.active = s.active /\ t.liveCoding = s.liveCoding
    BY <1>6, <2>2, DeltaIs
  <2>4. s.requests[r].answer = UpTo(n)
    BY <1>3, <1>4, RequestsAre DEF AnswersSettled
  <2>5. t.requests[r].answer = UpTo(n + 1)
    BY <2>3, <2>4, UpToIs
  <2>6. t.requests[r].answer = UpTo(Len(t.requests[r].answer))
    BY <1>6, <2>5, UpToIs
  <2>7. SpeechOf(r, t.requests[r])
    <3>1. Attributed(r, s.requests[r], happened[r])
      BY DEF Fine
    <3>2. "ready" \in t.requests[r].noted => "ready" \in s.requests[r].noted
      BY <2>3 DEF NotedIn
    <3> QED
      BY <2>3, <3>1, <3>2 DEF Attributed, SpeechOf
  <2>8. /\ t \in Record /\ Fine(t, happened', revisions') /\ t.liveCoding = revisions'
        /\ \A q \in Requests : t.requests[q].noted = happened'[q]
    BY <1>1, <1>7, <1>9, <2>3, <2>6, <2>7, NotedFollows
  <2>9. ASSUME NEW q \in Requests, "started" \notin happened'[q]
        PROVE  t.requests[q].answer = <<>>
    <3>1. "started" \notin happened[q] /\ q # r
      BY <1>2, <1>3, <1>8, <2>9
    <3> QED
      BY <2>3, <3>1 DEF NotedIn, AnswersSettled
  <2>10. AnswersSettled(t)'
    BY <1>1, <1>3, <1>4, <2>3, <2>5, <2>8, <2>9 DEF AnswersSettled
  <2>11. SpeechSettled(t)'
    BY <1>1, <2>3 DEF SpeechKept, SpeechSettled, Recent, windows
  <2> QED
    BY <2>8, <2>10, <2>11
<1>12. RecordersAhead'
  BY <1>1, <1>6, <1>7, <1>10, <1>11, RecordersFollow, SinksRest
<1>13. LlmTyped'
  BY <1>1, <1>4, <1>6, <1>8 DEF Typing, LlmTyped
<1>14. QuestionsGoOn' /\ QueueIsUnanswered'
  BY <1>1, <1>2, <1>3, <1>7, QuestionsNote DEF windows
<1>15. output' \in Seq(Events)
  BY <1>6, <1>7, EmitIs
<1> QED
  BY <1>1, <1>12, <1>13, <1>14, <1>15, PlacesAre, LlmStep DEF windows

LEMMA GiveUsageStep ==
  ASSUME IInv, GiveUsage
  PROVE  IInv'
<1> USE DEF IInv
<1>1. /\ llmPc = "streaming"
      /\ Emit(<<[kind |-> "AnswerUsage", id |-> answering]>>) /\ Happens(answering, "usage")
      /\ UNCHANGED <<windows, llm, spoken, revisions, downstream, app>>
  BY DEF GiveUsage
<1>2. answering \in Requests /\ ~(answering[2] > asked[answering[1]])
  BY <1>1, AnsweringIs
<1>3. PICK r \in Requests : r = answering
  BY <1>2
<1>4. PICK e : e = [kind |-> "AnswerUsage", id |-> r]
  OBVIOUS
<1>5. e \in Events /\ e.kind = "AnswerUsage" /\ e.id = r
  BY <1>4 DEF Events
<1>6. Emit(<<e>>) /\ Happens(r, "usage") /\ "usage" \in Whats
  BY <1>1, <1>3, <1>4 DEF Whats
<1>7. \A t \in Record : Recorder!Record(t, e) = Recorder!Note(t, r, "usage")
  BY <1>5, RecordIs
<1>8. Follows(e) /\ Grows(happened, happened', revisions, revisions')
  BY <1>1, <1>6, <1>7, FollowsNoted DEF windows, llm
<1>9. RecordersAhead'
  BY <1>1, <1>5, <1>6, <1>8, RecordersFollow, SinksRest
<1>10. happened' \in [Requests -> SUBSET Whats]
  BY <1>6, HappensIs DEF Typing
<1>11. LlmTyped'
  BY <1>1, <1>10 DEF Typing, LlmTyped, llm
<1>12. QuestionsGoOn' /\ QueueIsUnanswered'
  BY <1>1, <1>2, <1>3, <1>6, QuestionsNote DEF windows, llm
<1>13. output' \in Seq(Events)
  BY <1>5, <1>6, EmitIs
<1> QED
  BY <1>1, <1>9, <1>11, <1>12, <1>13, PlacesAre, LlmStep DEF windows

\* A revision is of the request being answered, or of none.
LEMMA RevisionStep ==
  ASSUME IInv, NEW e \in Events, e.kind = "LiveCodingUpdated", Emit(<<e>>),
         revisions' = Append(revisions, answering), places' = places + 1,
         UNCHANGED <<asked, flushing, flushPc, text, words, requests, answering, given, happened,
                     downstream, app>>,
         llmPc' \in {"idle", "streaming", "updated"}, llmPc' = "idle" <=> llmPc = "idle"
  PROVE  IInv'
<1> USE DEF IInv
<1>1. revisions \in Seq(Owners) /\ answering \in Owners
  BY DEF Typing, LlmTyped
<1>2. revisions' \in Seq(Owners)
  BY <1>1, AppendProperties
<1>3. Grows(happened, happened', revisions, revisions')
  BY <1>1 DEF Grows
<1>4. Follows(e)
  <2> SUFFICES ASSUME NEW s \in Record, NEW t, t = Recorder!Record(s, e),
                      Fine(s, happened, revisions), AnswersSettled(s), SpeechSettled(s)
               PROVE  /\ t \in Record /\ Fine(t, happened', revisions')
                      /\ AnswersSettled(t)' /\ SpeechSettled(t)'
    BY DEF Follows
  <2>1. t = Recorder!Revised(s)
    BY RecordIs
  <2>2. /\ t \in Record /\ t.requests = s.requests /\ SpeechKept(s, t)
        /\ t.active = s.active /\ t.liveCoding = Append(s.liveCoding, s.active)
    BY <2>1, RevisedIs
  <2>3. t.liveCoding = revisions'
    BY <2>2 DEF AnswersSettled
  <2>4. IsPrefix(t.liveCoding, revisions')
    BY <1>2, <2>3, PrefixOfItself
  <2>5. Fine(t, happened', revisions')
    BY <2>2, <2>4 DEF Fine
  <2>6. AnswersSettled(t)'
    BY <2>2, <2>3 DEF AnswersSettled
  <2>7. SpeechSettled(t)'
    BY <2>2 DEF SpeechKept, SpeechSettled, Recent
  <2> QED
    BY <2>2, <2>5, <2>6, <2>7
<1>5. RecordersAhead'
  BY <1>3, <1>4, RecordersFollow, SinksRest
<1>6. LlmTyped'
  BY <1>2 DEF Typing, LlmTyped
<1>7. QuestionsGoOn' /\ QueueIsUnanswered'
  BY QuestionsRest
<1>8. output' \in Seq(Events)
  BY EmitIs
<1> QED
  BY <1>5, <1>6, <1>7, <1>8, PlacesAre, LlmStep

LEMMA RevisionSteps ==
  ASSUME IInv, UpdateLiveCoding \/ ClearHistory
  PROVE  IInv'
<1>1. PICK n \in Nat : n = places + 1
  BY PlacesAre
<1>2. PICK e : e = [kind |-> "LiveCodingUpdated", place |-> n]
  OBVIOUS
<1>3. e \in Events /\ e.kind = "LiveCodingUpdated"
  BY <1>2 DEF Events
<1>4. CASE UpdateLiveCoding
  <2>1. /\ llmPc = "streaming" /\ llmPc' = "updated" /\ Emit(<<e>>)
        /\ revisions' = Append(revisions, answering) /\ places' = places + 1
        /\ UNCHANGED <<asked, flushing, flushPc, text, words, requests, answering, given,
                       happened, downstream, app>>
    BY <1>1, <1>2, <1>4 DEF UpdateLiveCoding
  <2> QED
    BY <1>3, <2>1, RevisionStep
<1>5. CASE ClearHistory
  <2>1. /\ llmPc = "idle" /\ llmPc' = llmPc /\ Emit(<<e>>)
        /\ revisions' = Append(revisions, None) /\ places' = places + 1
        /\ UNCHANGED <<asked, flushing, flushPc, text, words, requests, answering, given,
                       happened, downstream, app>>
    BY <1>1, <1>2, <1>5 DEF ClearHistory
  <2>2. answering = None
    BY <2>1 DEF IInv, Typing, LlmTyped
  <2> QED
    BY <1>3, <2>1, <2>2, RevisionStep
<1> QED
  BY <1>4, <1>5

\* The answer comes to its end, one way or the other.
LEMMA AnswerEnds ==
  ASSUME IInv, NEW what \in {"completed", "failed"}, NEW e \in Events, Emit(<<e>>),
         NEW r \in Requests, r = answering, llmPc # "idle", Happens(r, what),
         \A s \in Record : s.active = r => Recorder!Record(s, e) = Ended(s, r, what),
         llmPc' = "idle", answering' = None,
         UNCHANGED <<windows, requests, given, revisions, downstream, app>>
  PROVE  IInv'
<1> USE DEF IInv
<1>1. what \in Whats /\ what # "ready"
  BY DEF Whats
<1>2. /\ "started" \in happened[r] /\ "completed" \notin happened[r]
      /\ "failed" \notin happened[r] /\ ~(r[2] > asked[r[1]])
      /\ \A i \in 1..Len(requests) : requests[i] # r
  BY AnsweringIs
<1>3. /\ happened' \in [Requests -> SUBSET Whats]
      /\ happened'[r] = happened[r] \cup {what}
      /\ \A q \in Requests : q # r => happened'[q] = happened[q]
      /\ \A q \in Requests : \A w : w # what => (w \in happened'[q] <=> w \in happened[q])
  BY <1>1, HappensIs DEF Typing
<1>4. ~("completed" \in happened'[r] /\ "failed" \in happened'[r])
  BY <1>2, <1>3
<1>5. Grows(happened, happened', revisions, revisions')
  BY <1>1, HappeningGrows
<1>6. Follows(e)
  <2> SUFFICES ASSUME NEW s \in Record, NEW t, t = Recorder!Record(s, e),
                      Fine(s, happened, revisions), AnswersSettled(s), SpeechSettled(s)
               PROVE  /\ t \in Record /\ Fine(t, happened', revisions')
                      /\ AnswersSettled(t)' /\ SpeechSettled(t)'
    BY DEF Follows
  <2>1. t = Ended(s, r, what)
    BY DEF AnswersSettled
  <2>2. /\ NotedIn(s, t, r, what) /\ RestKept(s, t, r)
        /\ t.active = None /\ t.liveCoding = s.liveCoding
    BY <2>1, EndedIs
  <2>3. /\ t \in Record /\ Fine(t, happened', revisions') /\ SpeechSettled(t)'
        /\ t.liveCoding = revisions'
        /\ \A q \in Requests :
             /\ t.requests[q].noted = happened'[q]
             /\ t.requests[q].answer = s.requests[q].answer
             /\ "started" \notin happened'[q] => t.requests[q].answer = <<>>
    BY <1>1, <1>4, <2>2, KeptFollows DEF windows
  <2> QED
    BY <2>2, <2>3 DEF AnswersSettled
<1>7. RecordersAhead'
  BY <1>5, <1>6, RecordersFollow, SinksRest
<1>8. LlmTyped'
  BY <1>3 DEF Typing, LlmTyped, Owners
<1>9. \A q \in Requests :
        /\ "queued" \in happened'[q] <=> "queued" \in happened[q]
        /\ "started" \in happened'[q] <=> "started" \in happened[q]
        /\ "completed" \in happened'[q] => "completed" \in happened[q] \/ q = r
        /\ "failed" \in happened'[q] => "failed" \in happened[q] \/ q = r
  BY <1>3
<1>10. QuestionsGoOn'
  <2>1. \A q \in Requests : q[2] > asked[q[1]] => happened'[q] = {}
    BY <1>2, <1>3 DEF QuestionsGoOn
  <2>2. ASSUME NEW q \in Requests
        PROVE  /\ "started" \in happened'[q] => "queued" \in happened'[q]
               /\ "completed" \in happened'[q] \/ "failed" \in happened'[q] =>
                    "started" \in happened'[q] /\ None # q
               /\ ~("completed" \in happened'[q] /\ "failed" \in happened'[q])
    <3>1. CASE q = r
      BY <1>2, <1>4, <1>9, <3>1, RequestsAre DEF QuestionsGoOn
    <3>2. CASE q # r
      BY <1>3, <1>9, <3>2, RequestsAre DEF QuestionsGoOn
    <3> QED
      BY <3>1, <3>2
  <2>3. ASSUME NEW p \in Speakers, flushPc[p] \in {"resolve", "queue"}
        PROVE  "queued" \notin happened'[flushing[p]]
    <3>1. flushing[p] \in Requests
      BY <2>3, FlushingIs
    <3> QED
      BY <1>9, <2>3, <3>1 DEF QuestionsGoOn
  <2> QED
    BY <2>1, <2>2, <2>3 DEF QuestionsGoOn, windows
<1>11. QueueIsUnanswered'
  <2>1. \A i \in 1..Len(requests) : requests[i] \in Requests
    BY ElementOfSeq DEF Typing, LlmTyped
  <2> QED
    BY <1>9, <2>1 DEF QueueIsUnanswered
<1>12. output' \in Seq(Events)
  BY EmitIs
<1> QED
  BY <1>7, <1>8, <1>10, <1>11, <1>12, PlacesAre, LlmStep DEF windows

LEMMA EndSteps ==
  ASSUME IInv, CompleteAnswer \/ FailAnswer
  PROVE  IInv'
<1>1. llmPc # "idle"
  BY DEF CompleteAnswer, FailAnswer
<1>2. PICK r \in Requests : r = answering
  BY <1>1, AnsweringIs
<1>3. CASE CompleteAnswer
  <2>1. PICK e : e = [kind |-> "AnswerCompleted", id |-> r]
    OBVIOUS
  <2>2. e \in Events /\ e.kind = "AnswerCompleted" /\ e.id = r
    BY <2>1 DEF Events
  <2>3. \A s \in Record : Recorder!Record(s, e) = Ended(s, r, "completed")
    BY <2>2, RecordIs DEF Recorder!Completed, Ended
  <2>4. /\ Emit(<<e>>) /\ Happens(r, "completed") /\ llmPc' = "idle" /\ answering' = None
        /\ UNCHANGED <<windows, requests, given, revisions, downstream, app>>
    BY <1>2, <1>3, <2>1 DEF CompleteAnswer
  <2> QED
    BY <1>1, <1>2, <2>2, <2>3, <2>4, AnswerEnds
<1>4. CASE FailAnswer
  <2>1. PICK e : e = [kind |-> "LlmError", place |-> 0]
    OBVIOUS
  <2>2. e \in Events /\ e.kind = "LlmError"
    BY <2>1 DEF Events
  <2>3. ASSUME NEW s \in Record, s.active = r
        PROVE  Recorder!Record(s, e) = Ended(s, r, "failed")
    <3>1. Recorder!Record(s, e) = Recorder!Failed(s)
      BY <2>2, RecordIs
    <3>2. s.active # None
      BY <2>3, RequestsAre
    <3> QED
      BY <2>3, <3>1, <3>2 DEF Recorder!Failed, Ended
  <2>4. /\ Emit(<<e>>) /\ Happens(r, "failed") /\ llmPc' = "idle" /\ answering' = None
        /\ UNCHANGED <<windows, requests, given, revisions, downstream, app>>
    BY <1>2, <1>4, <2>1 DEF FailAnswer
  <2> QED
    BY <1>1, <1>2, <2>2, <2>3, <2>4, AnswerEnds
<1> QED
  BY <1>3, <1>4

-----------------------------------------------------------------------------
(* The app *)

\* The telemetry only counts a status and a change of mode.
LEMMA NoticeSteps ==
  ASSUME IInv, Notice \/ Stop
  PROVE  IInv'
<1> USE DEF IInv
<1>1. /\ UNCHANGED <<asked, flushing, flushPc, text, words, marks, llm, history, downstream,
                     scenario, closing>>
      /\ places' = places + 1
      /\ notices' = notices + 1 \/ notices' = notices
  BY DEF Notice, Stop
<1>2. PICK n \in Nat : n = places + 1
  BY PlacesAre
<1>3. notices \in Nat
  BY DEF Typing
<1>4. \E e \in Events : e.kind \in {"Status", "ModeChanged"} /\ Emit(<<e>>)
  <2>1. CASE Notice
    <3>1. notices < Len(scenario.notices)
      BY <2>1 DEF Notice
    <3>2. notices + 1 \in 1..Len(scenario.notices)
      <4>1. Len(scenario.notices) \in Nat
        BY ScenarioIs, LenProperties
      <4> QED
        BY <1>3, <3>1, <4>1
    <3>3. scenario.notices[notices + 1] \in {"Status", "ModeChanged"}
      BY <3>2, ScenarioIs, ElementOfSeq
    <3>4. PICK kind \in {"Status", "ModeChanged"} : kind = scenario.notices[notices + 1]
      BY <3>3
    <3>5. PICK e : e = [kind |-> kind, place |-> n, stopped |-> FALSE]
      OBVIOUS
    <3>6. e \in Events /\ e.kind = kind
      BY <3>5 DEF Events
    <3>7. Emit(<<e>>)
      BY <1>2, <2>1, <3>4, <3>5 DEF Notice
    <3> QED
      BY <3>6, <3>7
  <2>2. CASE Stop
    <3>1. PICK e : e = [kind |-> "Status", place |-> n, stopped |-> TRUE]
      OBVIOUS
    <3>2. e \in Events /\ e.kind = "Status"
      BY <3>1 DEF Events
    <3>3. Emit(<<e>>)
      BY <1>2, <2>2, <3>1 DEF Stop
    <3> QED
      BY <3>2, <3>3
  <2> QED
    BY <2>1, <2>2
<1>5. PICK e \in Events : e.kind \in {"Status", "ModeChanged"} /\ Emit(<<e>>)
  BY <1>4
<1>6. \A s \in Record : Heard(s, Recorder!Record(s, e))
  BY <1>5, RecordIs, HeardNothing
<1>7. Follows(e)
  BY <1>1, <1>6, FollowsHeard DEF llm, history
<1>8. Grows(happened, happened', revisions, revisions')
  BY <1>1 DEF Grows, history
<1>9. RecordersAhead'
  BY <1>1, <1>5, <1>7, <1>8, RecordersFollow, SinksRest
<1>10. WindowsTyped'
  BY <1>1, <1>2 DEF Typing, WindowsTyped
<1>11. LlmTyped'
  BY <1>1, LlmRests DEF llm, history
<1>12. QuestionsGoOn' /\ QueueIsUnanswered'
  BY <1>1, QuestionsRest DEF llm, history
<1>13. notices' \in Nat
  BY <1>1, <1>3
<1>14. output' \in Seq(Events)
  BY <1>5, EmitIs
<1> QED
  BY <1>1, <1>9, <1>10, <1>11, <1>12, <1>13, <1>14, ProducedIs

\* Neither the shutdown nor the end of the process says anything of a request.
LEMMA QuietSteps ==
  ASSUME IInv, CloseWindow \/ Quit
  PROVE  IInv'
<1>1. /\ UNCHANGED <<windows, llm, history, telemetry, inside, channels, scenario, notices>>
  BY DEF CloseWindow, Quit
<1>2. closing' = TRUE \/ closing' = closing
  BY DEF CloseWindow, Quit
<1>3. closing' \in BOOLEAN
  BY Zenon, <1>2 DEF IInv, Typing, WindowsTyped
<1>4. WindowsTyped'
  BY <1>1, <1>3 DEF IInv, Typing, WindowsTyped, windows
<1>5. LlmTyped'
  BY <1>1, LlmRests DEF IInv, llm, history
<1>6. QuestionsGoOn' /\ QueueIsUnanswered'
  BY <1>1, QuestionsRest DEF windows, llm, history
<1>7. RecordersAhead'
  BY <1>1, RecordersRest DEF windows, llm, history, telemetry, channels
<1>8. output' \in Seq(Events) /\ notices' \in Nat
  BY <1>1 DEF IInv, Typing, channels
<1> QED
  BY <1>1, <1>4, <1>5, <1>6, <1>7, <1>8, ProducedIs DEF channels, downstream

-----------------------------------------------------------------------------
(* The sinks *)

LEMMA SinkSteps ==
  ASSUME IInv, UNCHANGED <<windows, llm, history, app>>, SinksTyped', output' \in Seq(Events),
         RecordersAhead'
  PROVE  IInv'
<1>1. WindowsTyped' /\ LlmTyped'
  BY WindowsRest, LlmRests DEF IInv, llm, history, app
<1>2. QuestionsGoOn' /\ QueueIsUnanswered'
  BY QuestionsRest DEF windows, llm, history
<1> QED
  BY <1>1, <1>2 DEF IInv, Typing, app

\* The next of the recorders ahead.
LEMMA ForwardEventStep ==
  ASSUME IInv, ForwardEvent
  PROVE  IInv'
<1> USE DEF IInv
<1>1. /\ sinkPc = "forwarding" /\ output # <<>> /\ output' = Tail(output)
      /\ rec' = Recorder!Record(rec, Head(output))
      /\ UNCHANGED <<windows, llm, history, inside, summary, app>>
  BY DEF ForwardEvent
<1>2. PICK s \in Record : /\ Leads(rec, output, happened, revisions, s)
                          /\ AnswersSettled(s) /\ SpeechSettled(s)
  BY <1>1 DEF RecordersAhead
<1>3. PICK events \in Seq(Events) : events = output
  BY DEF Typing
<1>4. /\ Leads(Recorder!Record(rec, Head(events)), Tail(events), happened, revisions, s)
      /\ Recorder!Record(rec, Head(events)) \in Record
  BY <1>1, <1>2, <1>3, LeadsFromNext
<1>5. Tail(events) \in Seq(Events) /\ Head(events) \in Events
  BY <1>1, <1>3, HeadTailProperties
<1>6. Fine(Recorder!Record(rec, Head(events)), happened, revisions)
  BY <1>4, <1>5, LeadsFromTo
<1>7. UNCHANGED <<happened, revisions, answering, given, asked, text>>
  BY <1>1 DEF windows, llm, history
<1>8. RecordersAhead'
  <2>1. rec' \in Record /\ Fine(rec', happened', revisions')
    BY <1>1, <1>3, <1>4, <1>6, <1>7
  <2>2. Leads(rec', output', happened', revisions', s)
    BY <1>1, <1>3, <1>4, <1>7
  <2>3. AnswersSettled(s)' /\ SpeechSettled(s)'
    BY <1>2, <1>7 DEF AnswersSettled, SpeechSettled
  <2> QED
    BY <2>1, <2>2, <2>3 DEF RecordersAhead
<1>9. SinksTyped'
  <2>1. inner \in Seq(Events) /\ innerOpen
    BY <1>1 DEF Typing, SinksTyped
  <2>2. CASE innerPc = "running"
    <3>1. /\ inner' = Append(inner, Head(events)) /\ UNCHANGED <<sinkPc, innerOpen>>
      BY <1>3, <2>2 DEF ForwardEvent
    <3>2. inner' \in Seq(Events)
      BY <1>5, <2>1, <3>1, AppendProperties
    <3> QED
      BY <1>1, <3>1, <3>2 DEF Typing, SinksTyped, inside
  <2>3. CASE innerPc # "running"
    BY <1>1, <2>1, <2>3 DEF ForwardEvent, Typing, SinksTyped, inside
  <2> QED
    BY <2>2, <2>3
<1> QED
  BY <1>1, <1>3, <1>5, <1>8, <1>9, SinkSteps

LEMMA RecordFailsStep ==
  ASSUME IInv, RecordFails
  PROVE  IInv'
<1> USE DEF IInv
<1>1. /\ sinkPc = "forwarding" /\ sinkPc' = "error" /\ innerOpen' = FALSE /\ output' = <<>>
      /\ UNCHANGED <<windows, llm, history, rec, inner, inside, summary, app>>
  BY DEF RecordFails
<1>2. output \in Seq(Events)
  BY DEF Typing
<1>3. rec \in Record /\ Fine(rec, happened, revisions)
  BY <1>1, <1>2, LeadsFromTo DEF RecordersAhead
<1>4. RecordersAhead'
  BY <1>1, <1>3 DEF RecordersAhead, history
<1>5. SinksTyped'
  BY <1>1 DEF Typing, SinksTyped, inside
<1>6. output' \in Seq(Events)
  BY <1>1, EmptyIsSeq
<1> QED
  BY <1>1, <1>4, <1>5, <1>6, SinkSteps

\* The sink comes to its end; nothing waits any more, or it was lost.
LEMMA SinkEndSteps ==
  ASSUME IInv, EndOfEvents \/ AwaitInner \/ \E written \in BOOLEAN : Finish(written)
  PROVE  IInv'
<1> USE DEF IInv
<1>1. UNCHANGED <<windows, llm, history, rec, inside, output, inner, app>> /\ sinkPc # "error"
  BY DEF EndOfEvents, AwaitInner, Finish, channels
<1>2. SinksTyped'
  <2>1. CASE EndOfEvents
    BY <1>1, <2>1 DEF EndOfEvents, Typing, SinksTyped, inside
  <2>2. CASE AwaitInner
    BY <1>1, <2>2 DEF AwaitInner, Typing, SinksTyped, inside, channels
  <2>3. ASSUME NEW written \in BOOLEAN, Finish(written)
        PROVE  SinksTyped'
    <3>1. /\ sinkPc = "finishing" /\ UNCHANGED <<inner, innerOpen, innerPc>>
          /\ \/ sinkPc' = "ok" /\ summary' = <<Recorder!Summarised(rec)>>
             \/ sinkPc' = "error" /\ summary' = summary
      BY <2>3 DEF Finish, inside, channels
    <3>2. <<Recorder!Summarised(rec)>> # <<>>
      OBVIOUS
    <3> QED
      BY <3>1, <3>2 DEF Typing, SinksTyped
  <2> QED
    BY <2>1, <2>2, <2>3
<1>3. PICK s \in Record : /\ Leads(rec, output, happened, revisions, s)
                          /\ AnswersSettled(s) /\ SpeechSettled(s)
  BY <1>1 DEF RecordersAhead
<1>4. output \in Seq(Events)
  BY DEF Typing
<1>5. rec \in Record /\ Fine(rec, happened, revisions)
  BY <1>3, <1>4, LeadsFromTo
<1>6. AnswersSettled(s)' /\ SpeechSettled(s)'
  BY <1>1, <1>3 DEF AnswersSettled, SpeechSettled, windows, llm, history
<1>7. RecordersAhead'
  BY <1>1, <1>3, <1>5, <1>6 DEF RecordersAhead, history
<1> QED
  BY <1>1, <1>2, <1>4, <1>7, SinkSteps

LEMMA InnerSteps ==
  ASSUME IInv, RunInner
  PROVE  IInv'
<1> USE DEF IInv
<1>1. UNCHANGED <<windows, llm, history, telemetry, output, innerOpen, app>>
  BY DEF RunInner, RenderEvent, RenderFails, InnerEnds, channels
<1>2. inner' \in Seq(Events)
  <2>1. inner \in Seq(Events)
    BY DEF Typing, SinksTyped
  <2>2. inner' = inner \/ inner' = <<>> \/ (inner # <<>> /\ inner' = Tail(inner))
    BY DEF RunInner, RenderEvent, RenderFails, InnerEnds, channels
  <2> QED
    BY <2>1, <2>2, EmptyIsSeq, HeadTailProperties
<1>3. innerPc' \in {"running", "ended", "failed"}
  BY DEF RunInner, RenderEvent, RenderFails, InnerEnds, Typing, SinksTyped
<1>4. SinksTyped'
  BY <1>1, <1>2, <1>3 DEF Typing, SinksTyped, telemetry
<1>5. RecordersAhead'
  BY <1>1, RecordersRest DEF telemetry, windows, llm, history
<1>6. output' \in Seq(Events)
  BY <1>1 DEF Typing
<1> QED
  BY <1>1, <1>4, <1>5, <1>6, SinkSteps

LEMMA StutterStep ==
  ASSUME IInv, UNCHANGED vars
  PROVE  IInv'
<1>1. SinksTyped' /\ output' \in Seq(Events)
  BY DEF IInv, Typing, SinksTyped, vars, telemetry, inside, channels
<1>2. RecordersAhead'
  BY RecordersRest DEF vars, telemetry, channels, windows, llm, history
<1> QED
  BY <1>1, <1>2, SinkSteps DEF vars

-----------------------------------------------------------------------------
(* The invariant *)

LEMMA InitIInv ==
  ASSUME Init
  PROVE  IInv
<1>1. /\ scenario \in Scenarios /\ asked = [s \in Speakers |-> 0]
      /\ flushing = [s \in Speakers |-> None] /\ flushPc = [s \in Speakers |-> "no"]
      /\ words = 0 /\ notices = 0 /\ places = 0 /\ given = 0 /\ requests = <<>>
      /\ answering = None /\ llmPc = "idle" /\ output = <<>> /\ inner = <<>>
      /\ sinkPc = "forwarding" /\ summary = <<>> /\ innerPc = "running"
      /\ rec = Recorder!EmptyRecorder /\ happened = [r \in Requests |-> {}]
      /\ revisions = <<>> /\ ~text
  BY DEF Init
<1>2. text \in BOOLEAN /\ closing \in BOOLEAN
  BY Zenon DEF Init
<1>3. WindowsTyped
  BY <1>1, <1>2, BoundsAssumption DEF WindowsTyped, Owners
<1>4. LlmTyped
  BY <1>1, EmptyIsSeq DEF LlmTyped, Owners
<1>5. SinksTyped
  <2>1. innerOpen
    BY DEF Init
  <2> QED
    BY <1>1, <2>1, EmptyIsSeq DEF SinksTyped
<1>6. Typing
  BY <1>1, <1>3, <1>4, <1>5, EmptyIsSeq DEF Typing
<1>7. QuestionsGoOn
  BY <1>1 DEF QuestionsGoOn
<1>8. QueueIsUnanswered
  <2>1. Len(<<>>) = 0
    OBVIOUS
  <2> QED
    BY <1>1, <2>1 DEF QueueIsUnanswered
<1>9. RecordersAhead
  <2>1. Recorder!NoMetrics \in Metrics /\ Recorder!NoMetrics.noted = {}
        /\ Recorder!NoMetrics.answer = <<>>
    BY NoTimesAre, EmptyIsSeq DEF Recorder!NoMetrics, Metrics
  <2> DEFINE none == [r \in Requests |-> Recorder!NoMetrics]
  <2>2. none \in [Requests -> Metrics] /\ \A r \in Requests : none[r] = Recorder!NoMetrics
    BY <2>1
  <2>3. rec = [now |-> 0, requests |-> none, active |-> None, last |-> Recorder!NoTimes,
               draftActive |-> FALSE, utterances |-> <<>>, utteranceOpen |-> FALSE,
               segments |-> <<>>, pending |-> <<>>, liveCoding |-> <<>>]
    BY <1>1 DEF Recorder!EmptyRecorder
  <2> HIDE DEF none
  <2>4. rec \in Record
    BY <2>2, <2>3, NoTimesAre, EmptyIsSeq DEF Record, Owners
  <2>5. /\ rec.now = 0 /\ rec.requests = none /\ rec.active = None
        /\ rec.last = Recorder!NoTimes /\ rec.draftActive = FALSE /\ rec.liveCoding = <<>>
    BY <2>3
  <2>6. UpTo(Len(<<>>)) = <<>>
    BY UpToIs
  <2>7. IsPrefix(rec.liveCoding, revisions)
    BY <1>1, <2>5, EmptyIsSeq, PrefixOfItself
  <2>8. Fine(rec, happened, revisions)
    BY <1>1, <2>1, <2>2, <2>5, <2>6, <2>7 DEF Fine, Attributed
  <2>9. AnswersSettled(rec)
    BY <1>1, <2>1, <2>2, <2>5 DEF AnswersSettled
  <2>10. SpeechSettled(rec)
    BY <1>1, <2>5, NoTimesAre DEF SpeechSettled, Recent, Speakers
  <2>11. Leads(rec, output, happened, revisions, rec)
    BY <1>1, <2>4, <2>8, LeadsNowhere
  <2> QED
    BY <1>1, <2>4, <2>9, <2>10, <2>11 DEF RecordersAhead
<1> QED
  BY <1>6, <1>7, <1>8, <1>9 DEF IInv

LEMMA NextIInv ==
  ASSUME IInv, [Next]_vars
  PROVE  IInv'
<1>1. CASE \E final, boundary \in BOOLEAN : Hear(final, boundary)
  BY <1>1, HearStep
<1>2. CASE SpeechStarts \/ \E applied \in BOOLEAN : UtteranceEnds(applied)
  BY <1>2, MarkStep
<1>3. CASE Discard
  BY <1>3, DiscardStep
<1>4. CASE \E s \in Speakers : \E mode \in scenario.modes : Ask(s, mode)
  BY <1>4, AskStep
<1>5. CASE \E s \in Speakers : Queue(s) \/ Queued(s)
  BY <1>5, QueueStep, QueuedStep
<1>6. CASE \E found \in BOOLEAN : Resolve(found)
  BY <1>6, ResolveStep
<1>7. CASE StartAnswer
  BY <1>7, StartAnswerStep
<1>8. CASE GiveDelta
  BY <1>8, GiveDeltaStep
<1>9. CASE GiveUsage
  BY <1>9, GiveUsageStep
<1>10. CASE UpdateLiveCoding \/ ClearHistory
  BY <1>10, RevisionSteps
<1>11. CASE CompleteAnswer \/ FailAnswer
  BY <1>11, EndSteps
<1>12. CASE Notice \/ Stop
  BY <1>12, NoticeSteps
<1>13. CASE CloseWindow \/ Quit
  BY <1>13, QuietSteps
<1>14. CASE ForwardEvent
  BY <1>14, ForwardEventStep
<1>15. CASE RecordFails
  BY <1>15, RecordFailsStep
<1>16. CASE EndOfEvents \/ AwaitInner \/ \E written \in BOOLEAN : Finish(written)
  BY <1>16, SinkEndSteps
<1>17. CASE RunInner
  BY <1>17, InnerSteps
<1>18. CASE UNCHANGED vars
  BY <1>18, StutterStep
<1> QED
  BY <1>1, <1>2, <1>3, <1>4, <1>5, <1>6, <1>7, <1>8, <1>9, <1>10, <1>11, <1>12, <1>13,
     <1>14, <1>15, <1>16, <1>17, <1>18 DEF Next, Produce, RunSink

LEMMA Invariance == Spec => []IInv
BY InitIInv, NextIInv, PTL DEF Spec

\* What the telemetry notes of a request happened to that request, a failure and a
\* live-coding revision among it, which do not say whose they are, and the times of
\* the speech that it gives a question are of the speech since the question before
\* it: however the two speakers, the answers and the sink take turns, and whatever
\* fails (TelemetryRecorder::record).
THEOREM EachIsAttributed == Spec => []RequestsAreAttributed
<1>1. IInv => RequestsAreAttributed
  <2> SUFFICES ASSUME IInv
               PROVE  AnswersAreAttributed /\ SpeechIsOfThisQuestion
    BY DEF RequestsAreAttributed
  <2>1. output \in Seq(Events)
    BY DEF IInv, Typing
  <2>2. rec \in Record /\ Fine(rec, happened, revisions)
    BY <2>1, LeadsFromTo DEF IInv, RecordersAhead
  <2>3. CaughtUp => AnswersSettled(rec)
    <3> SUFFICES ASSUME sinkPc # "error", output = <<>>
                 PROVE  AnswersSettled(rec)
      BY DEF CaughtUp
    <3>1. PICK t \in Record : Leads(rec, output, happened, revisions, t) /\ AnswersSettled(t)
      BY DEF IInv, RecordersAhead
    <3> QED
      BY <2>1, <3>1, LeadsFromTo
  <2>4. AnswersAreAttributed
    <3>1. \A r \in Requests :
            /\ rec.requests[r].noted \subseteq happened[r]
            /\ ~("completed" \in rec.requests[r].noted /\ "failed" \in rec.requests[r].noted)
            /\ rec.requests[r].answer = UpTo(Len(rec.requests[r].answer))
      BY <2>2 DEF Fine, Attributed
    <3>2. \A r \in Requests : ~({"completed", "failed"} \subseteq rec.requests[r].noted)
      BY <3>1
    <3>3. CaughtUp => /\ \A r \in Requests : rec.requests[r].noted = happened[r]
                      /\ rec.liveCoding = revisions /\ rec.active = answering
      BY <2>3 DEF AnswersSettled
    <3>4. IsPrefix(rec.liveCoding, revisions)
      BY <2>2 DEF Fine
    <3> QED
      BY <3>1, <3>2, <3>3, <3>4 DEF AnswersAreAttributed
  <2>5. SpeechIsOfThisQuestion
    <3> SUFFICES ASSUME NEW r \in Requests, r[1] = "interviewer",
                        "ready" \in rec.requests[r].noted
                 PROVE  /\ rec.requests[r].speech.draft = r[2] - 1
                        /\ \A field \in DOMAIN rec.requests[r].speech :
                             rec.requests[r].speech[field] \in {None, r[2] - 1}
      BY DEF SpeechIsOfThisQuestion
    <3>1. /\ rec.requests[r].speech.draft = r[2] - 1
          /\ AllOf(rec.requests[r].speech, r[2] - 1)
      BY <2>2 DEF Fine, Attributed
    <3>2. PICK m \in Metrics : m = rec.requests[r]
      BY <2>2 DEF Record
    <3>3. m.speech \in Times
      BY DEF Metrics
    <3>4. DOMAIN m.speech = {"draft", "final", "speechFinal", "utteranceEnd", "wordEnd",
                             "toBoundary"}
      BY <3>3 DEF Times
    <3>5. \A field \in DOMAIN m.speech : m.speech[field] \in {None, r[2] - 1}
      BY <3>1, <3>2, <3>4 DEF AllOf
    <3> QED
      BY <3>1, <3>2, <3>5
  <2> QED
    BY <2>4, <2>5
<1> QED
  BY <1>1, Invariance, PTL

-----------------------------------------------------------------------------
(* Lemmas about flattened sequences *)

\* A set that holds 0 and with every number the next one holds them all.
LEMMA Inductive ==
  ASSUME NEW S, 0 \in S, \A n \in Nat : n \in S => n + 1 \in S
  PROVE  Nat \subseteq S
<1> DEFINE Rest == Nat \ S
           Less == OpToRel(<, Nat)
<1>1. IsWellFoundedOn(Less, Nat)
  BY NatLessThanWellFounded
<1>2. \A x, y \in Nat : x < y => <<x, y>> \in Less
  BY DEF OpToRel
<1> HIDE DEF Less
<1>3. ASSUME Rest # {}
      PROVE  FALSE
  <2>1. PICK n \in Rest : \A m \in Rest : ~(<<m, n>> \in Less)
    <3> Rest \subseteq Nat
      OBVIOUS
    <3> HIDE DEF Rest
    <3> QED
      BY <1>1, <1>3, WFMin
  <2>2. n \in Nat /\ n # 0 /\ n \notin S
    OBVIOUS
  <2>3. n - 1 \in Nat /\ n - 1 < n /\ (n - 1) + 1 = n
    BY <2>2
  <2>4. n - 1 \in S
    BY <1>2, <2>1, <2>2, <2>3
  <2>5. (n - 1) + 1 \in S
    BY <2>3, <2>4
  <2> QED
    BY <2>2, <2>3, <2>5
<1> QED
  BY <1>3

Segments == Seq(Seq(Nat))

\* f[i] is the first i of the segments, one after the other.
Joins(f, segments, n) ==
  /\ f \in [1..n -> Seq(Nat)]
  /\ \A i \in 1..n : f[i] = IF i = 1 THEN segments[i] ELSE f[i - 1] \o segments[i]

LEMMA JoinsFurther ==
  ASSUME NEW segments \in Segments, NEW n \in Nat, n + 1 <= Len(segments), NEW f,
         Joins(f, segments, n)
  PROVE  \E g : Joins(g, segments, n + 1)
<1>1. PICK next : next = IF n = 0 THEN segments[1] ELSE f[n] \o segments[n + 1]
  OBVIOUS
<1>2. \A i \in 1..Len(segments) : segments[i] \in Seq(Nat)
  BY ElementOfSeq DEF Segments
<1>3. Len(segments) \in Nat
  BY LenProperties DEF Segments
<1>4. next \in Seq(Nat)
  <2>1. CASE n = 0
    BY <1>1, <1>2, <1>3, <2>1
  <2>2. CASE n # 0
    <3>1. f[n] \in Seq(Nat) /\ segments[n + 1] \in Seq(Nat)
      BY <1>2, <1>3, <2>2 DEF Joins
    <3> QED
      BY <1>1, <2>2, <3>1, ConcatProperties
  <2> QED
    BY <2>1, <2>2
<1>5. PICK g : g = [i \in 1..(n + 1) |-> IF i = n + 1 THEN next ELSE f[i]]
  OBVIOUS
<1>6. \A i \in 1..(n + 1) : i = n + 1 \/ (i \in 1..n /\ i # n + 1)
  OBVIOUS
<1>7. g \in [1..(n + 1) -> Seq(Nat)]
  BY <1>4, <1>5, <1>6 DEF Joins
<1>8. g[n + 1] = next /\ \A i \in 1..n : g[i] = f[i]
  BY <1>5
<1>9. ASSUME NEW i \in 1..(n + 1)
      PROVE  g[i] = IF i = 1 THEN segments[i] ELSE g[i - 1] \o segments[i]
  <2>1. CASE i \in 1..n
    <3>1. i # 1 => i - 1 \in 1..n
      BY <2>1
    <3> QED
      BY <1>8, <2>1, <3>1 DEF Joins
  <2>2. CASE i = n + 1
    <3>1. CASE n = 0
      BY <1>1, <1>8, <2>2, <3>1
    <3>2. CASE n # 0
      <4>1. i # 1 /\ i - 1 = n /\ n \in 1..n
        BY <2>2, <3>2
      <4> QED
        BY <1>1, <1>8, <2>2, <3>2, <4>1
    <3> QED
      BY <3>1, <3>2
  <2> QED
    BY <1>6, <2>1, <2>2
<1> QED
  BY <1>7, <1>9 DEF Joins

LEMMA JoinsExist ==
  ASSUME NEW segments \in Segments
  PROVE  \E f : Joins(f, segments, Len(segments))
<1> DEFINE S == {n \in Nat : n <= Len(segments) => \E f : Joins(f, segments, n)}
<1>1. Len(segments) \in Nat
  BY LenProperties DEF Segments
<1>2. 0 \in S
  <2>1. PICK f : f = [i \in 1..0 |-> <<>>]
    OBVIOUS
  <2>2. Joins(f, segments, 0)
    BY <2>1 DEF Joins
  <2> QED
    BY <2>2
<1>3. ASSUME NEW n \in Nat, n \in S
      PROVE  n + 1 \in S
  <2> SUFFICES ASSUME n + 1 <= Len(segments)
               PROVE  \E f : Joins(f, segments, n + 1)
    OBVIOUS
  <2>1. n <= Len(segments)
    BY <1>1
  <2>2. PICK f : Joins(f, segments, n)
    BY <1>3, <2>1
  <2> QED
    BY <2>2, JoinsFurther
<1> HIDE DEF S
<1>4. Len(segments) \in S
  BY <1>1, <1>2, <1>3, Inductive
<1> QED
  BY <1>4 DEF S

\* The joined segments are what FlattenSeq says.
LEMMA FlattenIs ==
  ASSUME NEW segments \in Segments, NEW n, n = Len(segments), n # 0
  PROVE  \E f : Joins(f, segments, n) /\ FlattenSeq(segments) = f[n]
<1> DEFINE Flat(f) == f = [i \in 1..n |-> IF i = 1 THEN segments[i] ELSE f[i - 1] \o segments[i]]
           flatten == CHOOSE f : Flat(f)
<1>1. PICK g : Joins(g, segments, n)
  BY JoinsExist
<1>2. Flat(g)
  BY <1>1 DEF Joins
<1>3. Flat(flatten)
  BY <1>2
<1>4. FlattenSeq(segments) = flatten[n]
  BY DEF FlattenSeq
<1> HIDE DEF flatten
<1>5. \A i \in 1..n : flatten[i] = IF i = 1 THEN segments[i] ELSE flatten[i - 1] \o segments[i]
  BY <1>3
<1>6. flatten = g
  <2> DEFINE S == {m \in Nat : m \in 1..n => flatten[m] = g[m]}
  <2>1. n \in Nat
    BY LenProperties DEF Segments
  <2>2. 0 \in S
    OBVIOUS
  <2>3. ASSUME NEW m \in Nat, m \in S
        PROVE  m + 1 \in S
    <3> SUFFICES ASSUME m + 1 \in 1..n
                 PROVE  flatten[m + 1] = g[m + 1]
      OBVIOUS
    <3> DEFINE k == m + 1
    <3>1. \A i \in 1..n : g[i] = IF i = 1 THEN segments[i] ELSE g[i - 1] \o segments[i]
      BY <1>1 DEF Joins
    <3>2. k \in 1..n /\ k - 1 = m
      OBVIOUS
    <3> HIDE DEF k
    <3>3. /\ g[k] = IF k = 1 THEN segments[k] ELSE g[k - 1] \o segments[k]
          /\ flatten[k] = IF k = 1 THEN segments[k] ELSE flatten[k - 1] \o segments[k]
      BY <1>5, <3>1, <3>2
    <3>4. k # 1 => flatten[k - 1] = g[k - 1]
      <4>1. k # 1 => m \in 1..n
        BY <2>1, <3>2
      <4> QED
        BY <2>3, <3>2, <4>1
    <3>5. flatten[k] = g[k]
      BY <3>3, <3>4
    <3> QED
      BY <3>5 DEF k
  <2> HIDE DEF S
  <2>4. \A m \in Nat : m \in S
    BY <2>2, <2>3, Inductive
  <2>5. \A m \in 1..n : flatten[m] = g[m]
    BY <2>4 DEF S
  <2>6. DOMAIN flatten = 1..n
    BY <1>3
  <2>7. flatten = [m \in 1..n |-> flatten[m]]
    BY <1>3, <2>6
  <2>8. g = [m \in 1..n |-> g[m]]
    BY <1>1 DEF Joins
  <2> QED
    BY <2>5, <2>7, <2>8
<1> QED
  BY <1>1, <1>4, <1>6

\* One more segment
LEMMA FlattenMore ==
  ASSUME NEW segments \in Segments, NEW more \in Seq(Nat)
  PROVE  FlattenSeq(Append(segments, more)) = FlattenSeq(segments) \o more
<1>1. PICK longer \in Segments : longer = Append(segments, more)
  BY AppendProperties DEF Segments
<1>2. PICK n \in Nat : n = Len(segments)
  BY LenProperties DEF Segments
<1>3. /\ Len(longer) = n + 1 /\ longer[n + 1] = more
      /\ \A i \in 1..n : longer[i] = segments[i]
  BY <1>1, <1>2, AppendProperties DEF Segments
<1>4. PICK g : Joins(g, longer, n + 1) /\ FlattenSeq(longer) = g[n + 1]
  BY <1>3, FlattenIs
<1>5. CASE n = 0
  <2>1. segments = <<>>
    BY <1>2, <1>5, EmptySeq DEF Segments
  <2>2. FlattenSeq(segments) = <<>>
    BY <1>2, <1>5, <2>1 DEF FlattenSeq
  <2>3. g[1] = more
    BY <1>3, <1>4, <1>5 DEF Joins
  <2> QED
    BY <1>1, <1>4, <1>5, <2>2, <2>3, ConcatEmptySeq
<1>6. CASE n # 0
  <2>1. PICK f : Joins(f, segments, n) /\ FlattenSeq(segments) = f[n]
    BY <1>2, <1>6, FlattenIs
  <2> DEFINE S == {m \in Nat : m \in 1..n => f[m] = g[m]}
  <2>2. 0 \in S
    OBVIOUS
  <2>3. ASSUME NEW m \in Nat, m \in S
        PROVE  m + 1 \in S
    <3> SUFFICES ASSUME m + 1 \in 1..n
                 PROVE  f[m + 1] = g[m + 1]
      OBVIOUS
    <3> DEFINE k == m + 1
    <3>1. k \in 1..n /\ k \in 1..(n + 1) /\ k - 1 = m
      BY <1>2
    <3> HIDE DEF k
    <3>2. longer[k] = segments[k]
      BY <1>3, <3>1
    <3>3. /\ g[k] = IF k = 1 THEN longer[k] ELSE g[k - 1] \o longer[k]
          /\ f[k] = IF k = 1 THEN segments[k] ELSE f[k - 1] \o segments[k]
      BY <1>4, <2>1, <3>1 DEF Joins
    <3>4. k # 1 => f[k - 1] = g[k - 1]
      <4>1. k # 1 => m \in 1..n
        BY <3>1
      <4> QED
        BY <2>3, <3>1, <4>1
    <3>5. f[k] = g[k]
      BY <3>2, <3>3, <3>4
    <3> QED
      BY <3>5 DEF k
  <2> HIDE DEF S
  <2>4. n \in S
    BY <2>2, <2>3, Inductive
  <2>5. f[n] = g[n]
    BY <1>6, <2>4 DEF S
  <2>6. n + 1 \in 1..(n + 1) /\ n + 1 # 1 /\ (n + 1) - 1 = n
    BY <1>6
  <2>7. g[n + 1] = g[n] \o longer[n + 1]
    BY <1>4, <2>6 DEF Joins
  <2> QED
    BY <1>1, <1>3, <1>4, <2>1, <2>5, <2>7
<1> QED
  BY <1>5, <1>6

LEMMA FlattenTyped ==
  ASSUME NEW segments \in Segments
  PROVE  FlattenSeq(segments) \in Seq(Nat)
<1>1. Len(segments) \in Nat
  BY LenProperties DEF Segments
<1>2. CASE Len(segments) = 0
  <2>1. segments = <<>>
    BY <1>2, EmptySeq DEF Segments
  <2> QED
    BY <1>2, <2>1, EmptySeq DEF FlattenSeq
<1>3. CASE Len(segments) # 0
  <2>1. PICK f : Joins(f, segments, Len(segments)) /\ FlattenSeq(segments) = f[Len(segments)]
    BY <1>3, FlattenIs
  <2> QED
    BY <1>1, <1>3, <2>1 DEF Joins
<1> QED
  BY <1>2, <1>3

-----------------------------------------------------------------------------
(* Lemmas about the ways of events *)

\* The events lead from now to t, each of them as R says: <<s, e, t>> is in R when
\* e leads from s to t.
Way(R, S, now, events, t) ==
  \E f \in [0..Len(events) -> S] :
    /\ f[0] = now /\ f[Len(events)] = t
    /\ \A i \in 1..Len(events) : <<f[i - 1], events[i], f[i]>> \in R

LEMMA WayNowhere ==
  ASSUME NEW R, NEW S, NEW now \in S
  PROVE  Way(R, S, now, <<>>, now)
<1>1. PICK f : f = [i \in 0..0 |-> now]
  OBVIOUS
<1>2. Len(<<>>) = 0
  OBVIOUS
<1>3. f \in [0..0 -> S] /\ f[0] = now
  BY <1>1
<1> QED
  BY <1>2, <1>3 DEF Way

LEMMA WayFromTo ==
  ASSUME NEW R, NEW S, NEW now, NEW events \in Seq(Events), NEW t, Way(R, S, now, events, t)
  PROVE  now \in S /\ t \in S /\ (events = <<>> => t = now)
<1>1. PICK f \in [0..Len(events) -> S] : f[0] = now /\ f[Len(events)] = t
  BY DEF Way
<1>2. Len(events) \in Nat
  BY LenProperties
<1>3. 0 \in 0..Len(events) /\ Len(events) \in 0..Len(events)
  BY <1>2
<1>4. events = <<>> => Len(events) = 0
  OBVIOUS
<1> QED
  BY <1>1, <1>3, <1>4

LEMMA WayFurther ==
  ASSUME NEW R, NEW S, NEW now, NEW events \in Seq(Events), NEW s, NEW e \in Events, NEW t \in S,
         Way(R, S, now, events, s), <<s, e, t>> \in R
  PROVE  Way(R, S, now, Append(events, e), t)
<1>1. PICK f \in [0..Len(events) -> S] :
        /\ f[0] = now /\ f[Len(events)] = s
        /\ \A i \in 1..Len(events) : <<f[i - 1], events[i], f[i]>> \in R
  BY DEF Way
<1> DEFINE n == Len(events)
<1>2. PICK more : more = Append(events, e)
  OBVIOUS
<1>3. PICK longer : longer = [i \in 0..(n + 1) |-> IF i = n + 1 THEN t ELSE f[i]]
  OBVIOUS
<1>4. n \in Nat
  BY LenProperties
<1>5. /\ Len(more) = n + 1 /\ more[n + 1] = e
      /\ \A i \in 1..n : more[i] = events[i]
  BY <1>2, AppendProperties
<1>6. /\ f \in [0..n -> S] /\ f[0] = now /\ f[n] = s
      /\ \A i \in 1..n : <<f[i - 1], events[i], f[i]>> \in R
  BY <1>1
<1> HIDE DEF n
<1>7. \A i \in 0..(n + 1) : i = n + 1 \/ i \in 0..n
  BY <1>4
<1>8. longer \in [0..(n + 1) -> S]
  BY <1>3, <1>6, <1>7
<1>9. longer[0] = now /\ longer[n + 1] = t /\ \A i \in 0..n : longer[i] = f[i]
  BY <1>3, <1>4, <1>6
<1>10. ASSUME NEW i \in 1..(n + 1)
       PROVE  <<longer[i - 1], more[i], longer[i]>> \in R
  <2>1. CASE i = n + 1
    <3>1. i - 1 = n /\ n \in 0..n
      BY <1>4, <2>1
    <3>2. longer[i - 1] = s /\ longer[i] = t /\ more[i] = e
      BY <1>5, <1>6, <1>9, <2>1, <3>1
    <3> QED
      BY <3>2
  <2>2. CASE i \in 1..n
    <3>1. i \in 0..n /\ i - 1 \in 0..n
      BY <1>4, <2>2
    <3>2. longer[i - 1] = f[i - 1] /\ longer[i] = f[i] /\ more[i] = events[i]
      BY <1>5, <1>9, <2>2, <3>1
    <3> QED
      BY <1>6, <2>2, <3>2
  <2> QED
    BY <1>4, <2>1, <2>2
<1>11. Way(R, S, now, more, t)
  BY <1>5, <1>8, <1>9, <1>10 DEF Way
<1> QED
  BY <1>2, <1>11

\* Once the first event was taken the rest leads where all did.
LEMMA WayFromNext ==
  ASSUME NEW R, NEW S, NEW now, NEW events \in Seq(Events), NEW t, events # <<>>,
         Way(R, S, now, events, t)
  PROVE  \E next \in S : /\ <<now, Head(events), next>> \in R
                         /\ Way(R, S, next, Tail(events), t)
<1>1. PICK f \in [0..Len(events) -> S] :
        /\ f[0] = now /\ f[Len(events)] = t
        /\ \A i \in 1..Len(events) : <<f[i - 1], events[i], f[i]>> \in R
  BY DEF Way
<1> DEFINE n == Len(events)
<1>2. PICK rest : rest = Tail(events)
  OBVIOUS
<1>3. PICK shorter : shorter = [i \in 0..(n - 1) |-> f[i + 1]]
  OBVIOUS
<1>4. n \in Nat /\ n # 0
  BY LenProperties, EmptySeq
<1>5. /\ Len(rest) = n - 1 /\ Head(events) = events[1]
      /\ \A i \in 1..(n - 1) : rest[i] = events[i + 1]
  BY <1>2, HeadTailProperties
<1>6. /\ f \in [0..n -> S] /\ f[0] = now /\ f[n] = t
      /\ \A i \in 1..n : <<f[i - 1], events[i], f[i]>> \in R
  BY <1>1
<1> HIDE DEF n
<1>7. \A i \in 0..(n - 1) : i + 1 \in 0..n /\ i + 1 \in 1..n /\ (i + 1) - 1 = i
  BY <1>4
<1>8. shorter \in [0..(n - 1) -> S] /\ \A i \in 0..(n - 1) : shorter[i] = f[i + 1]
  BY <1>3, <1>6, <1>7
<1>9. PICK next : next = f[1]
  OBVIOUS
<1>10. next \in S /\ <<now, Head(events), next>> \in R
  <2>1. 1 \in 1..n /\ 1 \in 0..n /\ 1 - 1 = 0
    BY <1>4
  <2>2. <<f[1 - 1], events[1], f[1]>> \in R
    BY <1>6, <2>1
  <2> QED
    BY <1>5, <1>6, <1>9, <2>1, <2>2
<1>11. shorter[0] = next /\ shorter[n - 1] = t
  <2>1. 0 \in 0..(n - 1) /\ n - 1 \in 0..(n - 1) /\ 0 + 1 = 1 /\ (n - 1) + 1 = n
    BY <1>4
  <2> QED
    BY <1>6, <1>8, <1>9, <2>1
<1>12. ASSUME NEW i \in 1..(n - 1)
       PROVE  <<shorter[i - 1], rest[i], shorter[i]>> \in R
  <2>1. i \in 0..(n - 1) /\ i - 1 \in 0..(n - 1) /\ (i - 1) + 1 = i /\ (i + 1) - 1 = i
    BY <1>4
  <2>2. shorter[i] = f[i + 1] /\ shorter[i - 1] = f[i] /\ rest[i] = events[i + 1]
    BY <1>5, <1>8, <2>1
  <2>3. <<f[(i + 1) - 1], events[i + 1], f[i + 1]>> \in R
    BY <1>6, <1>7, <2>1
  <2> QED
    BY <2>1, <2>2, <2>3
<1>13. Way(R, S, next, rest, t)
  BY <1>5, <1>8, <1>11, <1>12 DEF Way
<1> QED
  BY <1>2, <1>10, <1>13

-----------------------------------------------------------------------------
(* The words of the recorder *)

Texts(utterances) == [i \in DOMAIN utterances |-> utterances[i].text]

\* The recorder has what was said, as segments and as utterances.
WordsSettled(t, said) ==
  /\ t.utteranceOpen => t.utterances # <<>>
  /\ FlattenSeq(t.segments) \o t.pending = said
  /\ FlattenSeq(Texts(t.utterances)) = said

LEMMA TextsAre ==
  ASSUME NEW us \in Seq(Utterance), NEW n, n = Len(us)
  PROVE  /\ Texts(us) \in Segments /\ Len(Texts(us)) = n
         /\ \A i \in 1..n : Texts(us)[i] = us[i].text
<1>1. n \in Nat /\ us \in [1..n -> Utterance] /\ DOMAIN us = 1..n
  BY LenProperties
<1>2. PICK ts : ts = Texts(us)
  OBVIOUS
<1>3. ts = [i \in 1..n |-> us[i].text]
  BY <1>1, <1>2 DEF Texts
<1>4. \A i \in 1..n : us[i].text \in Seq(Nat)
  <2>1. \A i \in 1..n : us[i] \in Utterance
    BY <1>1
  <2> QED
    BY <2>1 DEF Utterance
<1>5. ts \in [1..n -> Seq(Nat)]
  BY <1>3, <1>4
<1>6. ts \in Seq(Seq(Nat))
  BY <1>1, <1>5, SeqDef
<1>7. Len(ts) = n
  BY <1>1, <1>5, <1>6, LenProperties
<1> QED
  BY <1>2, <1>3, <1>6, <1>7 DEF Segments

LEMMA TextsMore ==
  ASSUME NEW us \in Seq(Utterance), NEW u \in Utterance
  PROVE  Texts(Append(us, u)) = Append(Texts(us), u.text)
<1>1. PICK n \in Nat : n = Len(us)
  BY LenProperties
<1>2. PICK more \in Seq(Utterance) : more = Append(us, u)
  BY AppendProperties
<1>3. /\ Len(more) = n + 1 /\ more[n + 1] = u
      /\ \A i \in 1..n : more[i] = us[i]
  BY <1>1, <1>2, AppendProperties
<1>4. /\ Texts(us) \in Segments /\ Len(Texts(us)) = n
      /\ \A i \in 1..n : Texts(us)[i] = us[i].text
  BY <1>1, TextsAre
<1>5. /\ Texts(more) \in Segments /\ Len(Texts(more)) = n + 1
      /\ \A i \in 1..(n + 1) : Texts(more)[i] = more[i].text
  BY <1>3, TextsAre
<1>6. PICK ts : ts = Append(Texts(us), u.text)
  OBVIOUS
<1>7. u.text \in Seq(Nat)
  BY DEF Utterance
<1>8. /\ ts \in Segments /\ Len(ts) = n + 1 /\ ts[n + 1] = u.text
      /\ \A i \in 1..n : ts[i] = us[i].text
  BY <1>4, <1>6, <1>7, AppendProperties DEF Segments
<1>9. \A i \in 1..(n + 1) : ts[i] = Texts(more)[i]
  <2>1. \A i \in 1..(n + 1) : i \in 1..n \/ i = n + 1
    OBVIOUS
  <2> QED
    BY <1>3, <1>5, <1>8, <2>1
<1>10. ts = Texts(more)
  BY <1>5, <1>8, <1>9, SeqEqual DEF Segments
<1> QED
  BY <1>2, <1>6, <1>10

\* A sequence that is not empty ends with its last element.
LEMMA FrontAndLast ==
  ASSUME NEW segments \in Segments, NEW n \in Nat, n # 0, n = Len(segments)
  PROVE  \E front \in Segments : /\ Len(front) = n - 1 /\ segments = Append(front, segments[n])
                                 /\ \A i \in 1..(n - 1) : front[i] = segments[i]
<1>1. PICK front : front = [i \in 1..(n - 1) |-> segments[i]]
  OBVIOUS
<1>2. \A i \in 1..n : segments[i] \in Seq(Nat)
  BY ElementOfSeq DEF Segments
<1> PICK m \in Nat : m = n - 1
  OBVIOUS
<1>3. front \in [1..m -> Seq(Nat)]
  BY <1>1, <1>2
<1>4. front \in Seq(Seq(Nat))
  BY <1>3, SeqDef
<1>5. front \in Segments /\ Len(front) = n - 1
  BY <1>3, <1>4, LenProperties DEF Segments
<1>6. PICK whole : whole = Append(front, segments[n])
  OBVIOUS
<1>7. segments[n] \in Seq(Nat)
  BY <1>2
<1>8. /\ whole \in Segments /\ Len(whole) = (n - 1) + 1 /\ whole[(n - 1) + 1] = segments[n]
      /\ \A i \in 1..(n - 1) : whole[i] = front[i]
  BY <1>5, <1>6, <1>7, AppendProperties DEF Segments
<1>9. \A i \in 1..n : whole[i] = segments[i]
  <2>1. \A i \in 1..n : i \in 1..(n - 1) \/ i = (n - 1) + 1
    OBVIOUS
  <2>2. (n - 1) + 1 = n
    OBVIOUS
  <2> QED
    BY <1>1, <1>8, <2>1, <2>2
<1>10. whole = segments
  <2>1. Len(whole) = n
    BY <1>8
  <2> QED
    BY <1>8, <1>9, <2>1, SeqEqual DEF Segments
<1> QED
  BY <1>1, <1>5, <1>6, <1>10

LEMMA ConcatAppend ==
  ASSUME NEW a \in Seq(Nat), NEW b \in Seq(Nat), NEW word \in Nat
  PROVE  a \o Append(b, word) = Append(a \o b, word)
<1>1. <<word>> \in Seq(Nat) /\ a \o b \in Seq(Nat)
  BY ConcatProperties
<1>2. Append(b, word) = b \o <<word>>
  BY AppendIsConcat
<1>3. a \o (b \o <<word>>) = (a \o b) \o <<word>>
  BY <1>1, ConcatAssociative
<1>4. Append(a \o b, word) = (a \o b) \o <<word>>
  BY <1>1, AppendIsConcat
<1> QED
  BY <1>2, <1>3, <1>4

\* A word that the last of the segments gets comes last of all.
LEMMA FlattenLast ==
  ASSUME NEW segments \in Segments, NEW longer \in Segments, NEW n \in Nat, n # 0,
         n = Len(segments), n = Len(longer), NEW word \in Nat,
         longer[n] = Append(segments[n], word),
         \A i \in 1..(n - 1) : longer[i] = segments[i]
  PROVE  FlattenSeq(longer) = Append(FlattenSeq(segments), word)
<1>1. PICK front \in Segments : /\ Len(front) = n - 1 /\ segments = Append(front, segments[n])
                                /\ \A i \in 1..(n - 1) : front[i] = segments[i]
  BY FrontAndLast
<1>2. PICK other \in Segments : /\ Len(other) = n - 1 /\ longer = Append(other, longer[n])
                                /\ \A i \in 1..(n - 1) : other[i] = longer[i]
  BY FrontAndLast
<1>3. other = front
  <2>1. other \in Seq(Seq(Nat)) /\ front \in Seq(Seq(Nat)) /\ Len(other) = Len(front)
    BY <1>1, <1>2 DEF Segments
  <2>2. \A i \in 1..Len(other) : other[i] = front[i]
    BY <1>1, <1>2
  <2> QED
    BY <2>1, <2>2, SeqEqual
<1>4. segments[n] \in Seq(Nat) /\ longer[n] \in Seq(Nat)
  <2>1. n \in 1..Len(segments) /\ n \in 1..Len(longer)
    OBVIOUS
  <2>2. segments \in Seq(Seq(Nat)) /\ longer \in Seq(Seq(Nat))
    BY DEF Segments
  <2> QED
    BY <2>1, <2>2, ElementOfSeq
<1>5. PICK flat \in Seq(Nat) : flat = FlattenSeq(front)
  BY FlattenTyped
<1>6. PICK last \in Seq(Nat) : last = segments[n]
  BY <1>4
<1>7. FlattenSeq(segments) = flat \o last
  BY <1>1, <1>5, <1>6, FlattenMore
<1>8. FlattenSeq(longer) = flat \o longer[n]
  BY <1>2, <1>3, <1>4, <1>5, FlattenMore
<1>9. longer[n] = Append(last, word)
  BY <1>6
<1> QED
  BY <1>7, <1>8, <1>9, ConcatAppend

-----------------------------------------------------------------------------
(* What each event does to the words *)

WordsKept(s, t) ==
  /\ t.utterances = s.utterances /\ t.utteranceOpen = s.utteranceOpen
  /\ t.segments = s.segments /\ t.pending = s.pending

SaysTheSame(s, t) == \A said \in Seq(Nat) : WordsSettled(s, said) => WordsSettled(t, said)

LEMMA SaysFurther ==
  ASSUME NEW s, NEW t, NEW u, SaysTheSame(s, t), SaysTheSame(t, u)
  PROVE  SaysTheSame(s, u)
BY DEF SaysTheSame

\* An utterance is closed, or nothing changes.
LEMMA ClosedSaysTheSame ==
  ASSUME NEW s, NEW t, t.utterances = s.utterances, t.segments = s.segments,
         t.pending = s.pending, t.utteranceOpen => s.utteranceOpen
  PROVE  SaysTheSame(s, t)
BY DEF SaysTheSame, WordsSettled

LEMMA RequestsKeepWords ==
  ASSUME NEW s \in Record, NEW r, NEW what, NEW delta
  PROVE  /\ WordsKept(s, Recorder!Note(s, r, what))
         /\ WordsKept(s, Recorder!Question(s, r))
         /\ WordsKept(s, Recorder!Started(s, r))
         /\ WordsKept(s, Recorder!Delta(s, r, delta))
         /\ WordsKept(s, Recorder!Completed(s, r))
         /\ WordsKept(s, Recorder!Failed(s))
         /\ WordsKept(s, Recorder!Revised(s))
<1>1. WordsKept(s, Recorder!Note(s, r, what))
  BY DEF WordsKept, Recorder!Note, Record
<1>2. WordsKept(s, Recorder!Question(s, r))
  BY DEF WordsKept, Recorder!Question, Recorder!Note, Record
<1>3. WordsKept(s, Recorder!Started(s, r))
  BY DEF WordsKept, Recorder!Started, Recorder!Note, Record
<1>4. WordsKept(s, Recorder!Delta(s, r, delta))
  BY DEF WordsKept, Recorder!Delta, Recorder!Note, Record
<1>5. WordsKept(s, Recorder!Completed(s, r))
  BY DEF WordsKept, Recorder!Completed, Recorder!Note, Record
<1>6. WordsKept(s, Recorder!Failed(s))
  BY DEF WordsKept, Recorder!Failed, Recorder!Note, Record
<1>7. WordsKept(s, Recorder!Revised(s))
  BY DEF WordsKept, Recorder!Revised, Record
<1> QED
  BY <1>1, <1>2, <1>3, <1>4, <1>5, <1>6, <1>7

LEMMA DraftsKeepWords ==
  ASSUME NEW s \in Record, NEW empty
  PROVE  WordsKept(s, Recorder!StartDraft(s)) /\ WordsKept(s, Recorder!Draft(s, empty))
<1>1. WordsKept(s, Recorder!StartDraft(s))
  BY DEF WordsKept, Recorder!StartDraft, Record
<1>2. WordsKept(s, Recorder!Draft(s, empty))
  BY DEF WordsKept, Recorder!Draft, Record
<1> QED
  BY <1>1, <1>2

\* A note leaves the texts of the utterances.
LEMMA NotedTexts ==
  ASSUME NEW us \in Seq(Utterance), NEW n, n = Len(us), NEW what \in Marks, NEW noted,
         noted = [us EXCEPT ![n].noted = @ \cup {what}]
  PROVE  Texts(noted) = Texts(us)
<1>1. n \in Nat /\ us \in [1..n -> Utterance] /\ DOMAIN us = 1..n
  BY LenProperties
<1>2. DOMAIN noted = 1..n
  BY <1>1
<1>3. \A i \in 1..n : noted[i].text = us[i].text
  <2> TAKE i \in 1..n
  <2>1. us[i] \in Utterance
    BY <1>1
  <2>2. CASE i = n
    <3>1. noted[i] = [us[i] EXCEPT !.noted = @ \cup {what}]
      BY <1>1, <2>2
    <3> QED
      BY <2>1, <3>1 DEF Utterance
  <2>3. CASE i # n
    BY <1>1, <2>3
  <2> QED
    BY <2>2, <2>3
<1> QED
  BY <1>1, <1>2, <1>3 DEF Texts

LEMMA EmptyIsLen ==
  ASSUME NEW S, NEW a \in Seq(S)
  PROVE  a # <<>> <=> Len(a) # 0
BY EmptySeq

LEMMA NoteSaysTheSame ==
  ASSUME NEW s \in Record, NEW what \in Marks, NEW t, t = Recorder!NoteUtterance(s, what)
  PROVE  /\ t \in Record /\ SaysTheSame(s, t) /\ t.utteranceOpen = s.utteranceOpen
         /\ Texts(t.utterances) = Texts(s.utterances)
         /\ t.pending = s.pending /\ t.segments = s.segments
         /\ Len(t.utterances) = Len(s.utterances)
<1>1. /\ Unheard(s, t) /\ Len(t.utterances) = Len(s.utterances)
      /\ t.utteranceOpen = s.utteranceOpen /\ t.pending = s.pending
      /\ t.segments = s.segments
  BY NoteUtteranceIs
<1>2. t \in Record /\ t.utterances \in Seq(Utterance) /\ s.utterances \in Seq(Utterance)
  BY <1>1 DEF Unheard, Record
<1>3. t.utterances = [s.utterances EXCEPT ![Len(s.utterances)].noted = @ \cup {what}]
  BY DEF Recorder!NoteUtterance, Record
<1>4. Texts(t.utterances) = Texts(s.utterances)
  BY <1>2, <1>3, NotedTexts
<1>5. t.utterances # <<>> <=> s.utterances # <<>>
  BY <1>1, <1>2, EmptyIsLen
<1>6. SaysTheSame(s, t)
  BY <1>1, <1>4, <1>5 DEF SaysTheSame, WordsSettled
<1> QED
  BY <1>1, <1>2, <1>4, <1>6

LEMMA WithSaysTheSame ==
  ASSUME NEW s \in Record, NEW t, t = Recorder!WithUtterance(s)
  PROVE  t \in Record /\ SaysTheSame(s, t) /\ t.utteranceOpen = TRUE
<1>1. t \in Record
  BY WithUtteranceIs DEF Unheard
<1>2. CASE s.utteranceOpen
  <2>1. t = s /\ s.utteranceOpen \in BOOLEAN
    BY <1>2 DEF Recorder!WithUtterance, Record
  <2> QED
    BY <1>1, <1>2, <2>1, Zenon DEF SaysTheSame
<1>3. CASE ~s.utteranceOpen
  <2>1. PICK u : u = Recorder!NewUtterance
    OBVIOUS
  <2>2. u \in Utterance /\ u.text = <<>>
    BY <2>1, EmptyIsSeq DEF Recorder!NewUtterance, Utterance
  <2>3. /\ t.utterances = Append(s.utterances, u) /\ t.utteranceOpen = TRUE
        /\ t.segments = s.segments /\ t.pending = s.pending
    BY <1>3, <2>1 DEF Recorder!WithUtterance, Record
  <2>4. s.utterances \in Seq(Utterance)
    BY DEF Record
  <2>5. PICK texts \in Segments : texts = Texts(s.utterances)
    BY <2>4, TextsAre
  <2>6. Texts(t.utterances) = Append(texts, <<>>)
    BY <2>2, <2>3, <2>4, <2>5, TextsMore
  <2>7. <<>> \in Seq(Nat)
    BY EmptyIsSeq
  <2>8. FlattenSeq(Append(texts, <<>>)) = FlattenSeq(texts) \o <<>>
    BY <2>7, FlattenMore
  <2>9. FlattenSeq(texts) \o <<>> = FlattenSeq(texts)
    BY FlattenTyped, ConcatEmptySeq
  <2>10. t.utterances # <<>>
    BY <2>2, <2>3, <2>4, AppendProperties
  <2>11. SaysTheSame(s, t)
    BY <2>3, <2>5, <2>6, <2>8, <2>9, <2>10 DEF SaysTheSame, WordsSettled
  <2> QED
    BY <1>1, <2>3, <2>11
<1> QED
  BY <1>2, <1>3

LEMMA FinishSaysTheSame ==
  ASSUME NEW s \in Record, NEW t, t = Recorder!FinishSegment(s)
  PROVE  t \in Record /\ SaysTheSame(s, t) /\ t.pending = <<>>
<1>1. t \in Record
  BY FinishSegmentIs DEF Unheard
<1>2. CASE s.pending = <<>>
  BY <1>1, <1>2 DEF Recorder!FinishSegment, SaysTheSame
<1>3. CASE s.pending # <<>>
  <2>1. /\ t.segments = Append(s.segments, s.pending) /\ t.pending = <<>>
        /\ t.utterances = s.utterances /\ t.utteranceOpen = s.utteranceOpen
    BY <1>3 DEF Recorder!FinishSegment, Record
  <2>2. s.segments \in Segments /\ s.pending \in Seq(Nat) /\ t.segments \in Segments
    BY <1>1 DEF Record, Segments
  <2>3. FlattenSeq(t.segments) = FlattenSeq(s.segments) \o s.pending
    BY <2>1, <2>2, FlattenMore
  <2>4. FlattenSeq(t.segments) \o <<>> = FlattenSeq(t.segments)
    BY <2>2, FlattenTyped, ConcatEmptySeq
  <2>5. SaysTheSame(s, t)
    BY <2>1, <2>3, <2>4 DEF SaysTheSame, WordsSettled
  <2> QED
    BY <1>1, <2>1, <2>5
<1> QED
  BY <1>2, <1>3

\* The word of a final transcript goes to the last utterance and to the segment.
LEMMA FinalSays ==
  ASSUME NEW s \in Record, NEW word \in Nat, NEW t, t = Recorder!Final(s, word),
         s.utteranceOpen, NEW said \in Seq(Nat), WordsSettled(s, said)
  PROVE  WordsSettled(t, Append(said, word))
<1>1. PICK n : n = Recorder!NoteUtterance(s, "final")
  OBVIOUS
<1>2. "final" \in Marks
  BY DEF Marks
<1>3. /\ n \in Record /\ WordsSettled(n, said) /\ n.utteranceOpen
      /\ Len(n.utterances) = Len(s.utterances)
  BY <1>1, <1>2, NoteSaysTheSame DEF SaysTheSame
<1>4. PICK us \in Seq(Utterance) : us = n.utterances
  BY <1>3 DEF Record
<1>5. PICK len \in Nat : len = Len(us)
  BY LenProperties
<1>6. t = Worded(n, len, s.now, word)
  BY <1>1, <1>3, <1>4, <1>5 DEF Recorder!Final, Worded
<1>7. /\ t.utterances = [us EXCEPT ![len].text = Append(@, word)]
      /\ t.pending = Append(n.pending, word) /\ t.segments = n.segments
  BY <1>3, <1>4, <1>6 DEF Worded, Record
<1>8. us # <<>> /\ len # 0
  BY <1>3, <1>4, <1>5, EmptyIsLen DEF WordsSettled
<1>9. t \in Record
  BY FinalIs DEF Heard
<1>10. t.utterances \in Seq(Utterance) /\ Len(t.utterances) = len /\ t.utterances # <<>>
  <2>1. DOMAIN t.utterances = 1..len
    BY <1>5, <1>7, LenProperties
  <2>2. t.utterances \in Seq(Utterance)
    BY <1>9 DEF Record
  <2>3. Len(t.utterances) = len
    BY <1>5, <2>1, <2>2, LenProperties
  <2> QED
    BY <1>8, <2>2, <2>3, EmptyIsLen
<1>11. PICK old \in Segments : /\ old = Texts(us) /\ Len(old) = len
                               /\ \A i \in 1..len : old[i] = us[i].text
  BY <1>5, TextsAre
<1>12. PICK new \in Segments : /\ new = Texts(t.utterances) /\ Len(new) = len
                               /\ \A i \in 1..len : new[i] = t.utterances[i].text
  BY <1>10, TextsAre
<1>13. new[len] = Append(old[len], word) /\ \A i \in 1..(len - 1) : new[i] = old[i]
  <2>1. us \in [1..len -> Utterance]
    BY <1>5, LenProperties
  <2>2. len \in 1..len
    BY <1>8
  <2>3. us[len] \in Utterance
    BY <2>1, <2>2
  <2>4. t.utterances[len] = [us[len] EXCEPT !.text = Append(@, word)]
    BY <1>7, <2>1, <2>2
  <2>5. t.utterances[len].text = Append(us[len].text, word)
    BY <2>3, <2>4 DEF Utterance
  <2>6. \A i \in 1..(len - 1) : i \in 1..len /\ t.utterances[i] = us[i]
    BY <1>7, <2>1
  <2>7. new[len] = Append(old[len], word)
    BY <1>11, <1>12, <2>2, <2>5
  <2>8. ASSUME NEW i \in 1..(len - 1)
        PROVE  new[i] = old[i]
    <3>1. i \in 1..len /\ t.utterances[i] = us[i]
      BY <2>6
    <3>2. new[i] = t.utterances[i].text /\ old[i] = us[i].text
      BY <1>11, <1>12, <3>1
    <3> QED
      BY <3>1, <3>2
  <2> QED
    BY <2>7, <2>8
<1>14. FlattenSeq(new) = Append(FlattenSeq(old), word)
  BY <1>8, <1>11, <1>12, <1>13, FlattenLast
<1>15. FlattenSeq(old) = said
  BY <1>3, <1>4, <1>11 DEF WordsSettled
<1>16. FlattenSeq(t.segments) \o t.pending = Append(said, word)
  <2>1. PICK flat \in Seq(Nat) : flat = FlattenSeq(n.segments)
    BY <1>3, FlattenTyped DEF Record, Segments
  <2>2. PICK pending \in Seq(Nat) : pending = n.pending
    BY <1>3 DEF Record
  <2>3. flat \o Append(pending, word) = Append(flat \o pending, word)
    BY ConcatAppend
  <2>4. flat \o pending = said
    BY <1>3, <2>1, <2>2 DEF WordsSettled
  <2> QED
    BY <1>7, <2>1, <2>2, <2>3, <2>4
<1> QED
  BY <1>10, <1>12, <1>14, <1>15, <1>16 DEF WordsSettled

LEMMA KeptSaysTheSame ==
  ASSUME NEW s, NEW t, WordsKept(s, t)
  PROVE  SaysTheSame(s, t)
BY DEF WordsKept, SaysTheSame, WordsSettled

LEMMA SpeechFinalSaysTheSame ==
  ASSUME NEW s \in Record, NEW t, t = Recorder!SpeechFinal(s)
  PROVE  SaysTheSame(s, t)
<1>1. PICK n : n = Recorder!NoteUtterance(s, "speechFinal")
  OBVIOUS
<1>2. "speechFinal" \in Marks
  BY DEF Marks
<1>3. n \in Record /\ SaysTheSame(s, n)
  BY <1>1, <1>2, NoteSaysTheSame
<1>4. PICK m : m = [n EXCEPT !.last.speechFinal = s.now, !.last.toBoundary = s.now]
  OBVIOUS
<1>5. WordsKept(n, m)
  BY <1>3, <1>4 DEF WordsKept, Record
<1>6. m \in Record
  <2>1. n.last \in Times /\ s.now \in Time
    BY <1>3 DEF Record, Time
  <2>2. m = [n EXCEPT !.last = [n.last EXCEPT !.speechFinal = s.now, !.toBoundary = s.now]]
    BY <1>3, <1>4 DEF Record
  <2>3. [n.last EXCEPT !.speechFinal = s.now, !.toBoundary = s.now] \in Times
    BY <2>1 DEF Times
  <2> QED
    BY <1>3, <2>2, <2>3 DEF Record
<1>7. t = Recorder!FinishSegment(m)
  BY <1>1, <1>4 DEF Recorder!SpeechFinal
<1> QED
  BY <1>3, <1>5, <1>6, <1>7, KeptSaysTheSame, FinishSaysTheSame, SaysFurther

SaidAfter(said, e) ==
  IF e.kind = "SttTranscript" /\ e.final THEN Append(said, e.word) ELSE said

LEMMA TranscriptSays ==
  ASSUME NEW s \in Record, NEW e, e.final \in BOOLEAN, e.boundary \in BOOLEAN, e.word \in Nat,
         NEW t, t = Recorder!Transcript(s, e), NEW said \in Seq(Nat), WordsSettled(s, said)
  PROVE  WordsSettled(t, IF e.final THEN Append(said, e.word) ELSE said)
<1>1. PICK drafted : drafted = IF s.draftActive THEN s ELSE Recorder!StartDraft(s)
  OBVIOUS
<1>2. drafted \in Record /\ WordsSettled(drafted, said)
  <2>1. CASE s.draftActive
    BY <1>1, <2>1
  <2>2. CASE ~s.draftActive
    BY <1>1, <2>2, StartDraftIs, DraftsKeepWords, KeptSaysTheSame DEF Heard, SaysTheSame
  <2> QED
    BY <2>1, <2>2
<1>3. PICK opened : opened = Recorder!WithUtterance(drafted)
  OBVIOUS
<1>4. opened \in Record /\ WordsSettled(opened, said) /\ opened.utteranceOpen = TRUE
  BY <1>2, <1>3, WithSaysTheSame DEF SaysTheSame
<1>5. PICK heard : heard = IF e.final THEN Recorder!Final(opened, e.word)
                                      ELSE Recorder!Interim(opened)
  OBVIOUS
<1>6. PICK more \in Seq(Nat) : more = IF e.final THEN Append(said, e.word) ELSE said
  BY AppendProperties
<1>7. heard \in Record /\ WordsSettled(heard, more)
  <2>1. CASE e.final
    BY <1>4, <1>5, <1>6, <2>1, FinalIs, FinalSays DEF Heard
  <2>2. CASE ~e.final
    <3>1. "interim" \in Marks
      BY DEF Marks
    <3>2. heard = Recorder!NoteUtterance(opened, "interim")
      BY <1>5, <2>2 DEF Recorder!Interim
    <3> QED
      BY <1>4, <1>6, <2>2, <3>1, <3>2, NoteSaysTheSame DEF SaysTheSame
  <2> QED
    BY <2>1, <2>2
<1>8. t = IF e.boundary THEN Recorder!SpeechFinal(heard) ELSE heard
  BY <1>1, <1>3, <1>5 DEF Recorder!Transcript
<1>9. WordsSettled(t, more)
  <2>1. CASE e.boundary
    BY <1>7, <1>8, <2>1, SpeechFinalSaysTheSame DEF SaysTheSame
  <2>2. CASE ~e.boundary
    BY <1>7, <1>8, <2>2
  <2> QED
    BY <2>1, <2>2
<1> QED
  BY <1>6, <1>9

LEMMA SpeechStartedSaysTheSame ==
  ASSUME NEW s \in Record, NEW t, t = Recorder!SpeechStarted(s)
  PROVE  SaysTheSame(s, t)
<1>1. PICK drafted : drafted = Recorder!StartDraft(s)
  OBVIOUS
<1>2. drafted \in Record /\ SaysTheSame(s, drafted)
  BY <1>1, StartDraftIs, DraftsKeepWords, KeptSaysTheSame DEF Heard
<1> DEFINE open == drafted.utteranceOpen /\ "speechStarted" \notin
                                              s.utterances[Len(s.utterances)].noted
<1>3. PICK ready : ready = [drafted EXCEPT !.utteranceOpen = open]
  OBVIOUS
<1>4. open \in BOOLEAN
  BY Zenon
<1>5. t = Recorder!NoteUtterance(Recorder!WithUtterance(ready), "speechStarted")
  BY <1>1, <1>3 DEF Recorder!SpeechStarted
<1>6. open => drafted.utteranceOpen
  OBVIOUS
<1> HIDE DEF open
<1>7. ready \in Record
  BY <1>2, <1>3, <1>4 DEF Record
<1>8. SaysTheSame(drafted, ready)
  <2>1. /\ ready.utterances = drafted.utterances /\ ready.segments = drafted.segments
        /\ ready.pending = drafted.pending /\ ready.utteranceOpen = open
    BY <1>2, <1>3 DEF Record
  <2> QED
    BY <1>6, <2>1, ClosedSaysTheSame
<1>9. PICK opened : opened = Recorder!WithUtterance(ready)
  OBVIOUS
<1>10. opened \in Record /\ SaysTheSame(ready, opened)
  BY <1>7, <1>9, WithSaysTheSame
<1>11. SaysTheSame(opened, t)
  <2>1. "speechStarted" \in Marks
    BY DEF Marks
  <2> QED
    BY <1>5, <1>9, <1>10, <2>1, NoteSaysTheSame
<1> QED
  BY <1>2, <1>8, <1>10, <1>11, SaysFurther

LEMMA UtteranceEndSaysTheSame ==
  ASSUME NEW s \in Record, NEW t, t = Recorder!UtteranceEnd(s)
  PROVE  SaysTheSame(s, t)
<1>1. PICK ended : ended = IF s.utteranceOpen
                           THEN [Recorder!NoteUtterance(s, "utteranceEnd") EXCEPT
                                   !.utteranceOpen = FALSE]
                           ELSE s
  OBVIOUS
<1>2. ended \in Record /\ SaysTheSame(s, ended)
  <2>1. CASE s.utteranceOpen
    <3>1. PICK n : n = Recorder!NoteUtterance(s, "utteranceEnd")
      OBVIOUS
    <3>2. "utteranceEnd" \in Marks
      BY DEF Marks
    <3>3. n \in Record /\ SaysTheSame(s, n)
      BY <3>1, <3>2, NoteSaysTheSame
    <3>4. ended = [n EXCEPT !.utteranceOpen = FALSE]
      BY <1>1, <2>1, <3>1
    <3>5. /\ ended \in Record /\ ended.utterances = n.utterances /\ ended.segments = n.segments
          /\ ended.pending = n.pending /\ ended.utteranceOpen = FALSE
      BY <3>3, <3>4 DEF Record
    <3>6. SaysTheSame(n, ended)
      BY <3>5, ClosedSaysTheSame
    <3> QED
      BY <3>3, <3>5, <3>6, SaysFurther
  <2>2. CASE ~s.utteranceOpen
    BY <1>1, <2>2 DEF SaysTheSame
  <2> QED
    BY <2>1, <2>2
<1> DEFINE times == [ended.last EXCEPT !.utteranceEnd = IF s.draftActive THEN s.now ELSE @,
                                       !.wordEnd = s.now, !.toBoundary = s.now]
<1>3. PICK timed : timed = [ended EXCEPT !.last = times]
  OBVIOUS
<1>4. [ended EXCEPT !.last.utteranceEnd = IF s.draftActive THEN s.now ELSE @,
                    !.last.wordEnd = s.now, !.last.toBoundary = s.now] = timed
  BY <1>2, <1>3 DEF Record
<1>5. t = Recorder!FinishSegment(timed)
  BY <1>1, <1>4 DEF Recorder!UtteranceEnd
<1>6. times \in Times
  <2>1. ended.last \in Times /\ s.now \in Time
    BY <1>2 DEF Record, Time
  <2> QED
    BY <2>1 DEF Times
<1> HIDE DEF times
<1>7. timed \in Record /\ WordsKept(ended, timed)
  BY <1>2, <1>3, <1>6 DEF Record, WordsKept
<1> QED
  BY <1>2, <1>5, <1>7, KeptSaysTheSame, FinishSaysTheSame, SaysFurther

\* The words after an event are those before it, and that of a final transcript.
LEMMA WordsFollow ==
  ASSUME NEW s \in Record, NEW e \in Events, NEW said \in Seq(Nat), WordsSettled(s, said)
  PROVE  WordsSettled(Recorder!Record(s, e), SaidAfter(said, e))
<1>1. PICK t : t = Recorder!Record(s, e)
  OBVIOUS
<1>2. PICK kind : kind = e.kind
  OBVIOUS
<1>3. kind \in {"SttTranscript", "SpeechStarted", "UtteranceEnd", "TranscriptDraft",
                "Transcript", "Retrieval", "LlmQueued", "AnswerStarted", "AnswerUsage",
                "AnswerCompleted", "AnswerDelta", "QueueState", "KnowledgeError", "LlmError",
                "LiveCodingUpdated", "Status", "ModeChanged"}
  BY <1>2 DEF Events
<1>4. CASE kind = "SttTranscript"
  <2>1. e.final \in BOOLEAN /\ e.boundary \in BOOLEAN /\ e.word \in Nat
    BY <1>2, <1>4 DEF Events
  <2>2. t = Recorder!Transcript(s, e)
    BY <1>1, <1>2, <1>4, RecordIs
  <2>3. WordsSettled(t, IF e.final THEN Append(said, e.word) ELSE said)
    BY <2>1, <2>2, TranscriptSays
  <2> QED
    BY <1>1, <1>2, <1>4, <2>3 DEF SaidAfter
<1>5. CASE kind # "SttTranscript"
  <2>1. SaidAfter(said, e) = said
    BY <1>2, <1>5 DEF SaidAfter
  <2>2. SaysTheSame(s, t)
    <3>1. CASE kind = "SpeechStarted"
      <4>1. t = Recorder!SpeechStarted(s)
        BY <1>1, <1>2, <3>1, RecordIs
      <4> QED
        BY <4>1, SpeechStartedSaysTheSame
    <3>2. CASE kind = "UtteranceEnd"
      <4>1. t = IF e.applied THEN Recorder!UtteranceEnd(s) ELSE s
        BY <1>1, <1>2, <3>2, RecordIs
      <4>2. CASE e.applied
        BY <4>1, <4>2, UtteranceEndSaysTheSame
      <4>3. CASE ~e.applied
        BY <4>1, <4>3 DEF SaysTheSame
      <4> QED
        BY <4>2, <4>3
    <3>3. CASE kind = "TranscriptDraft"
      <4>1. t = Recorder!Draft(s, e.empty)
        BY <1>1, <1>2, <3>3, RecordIs
      <4> QED
        BY <4>1, DraftsKeepWords, KeptSaysTheSame
    <3>4. CASE kind \in {"QueueState", "KnowledgeError", "Status", "ModeChanged"}
      BY <1>1, <1>2, <3>4, RecordIs DEF SaysTheSame
    <3>5. CASE kind \in {"Transcript", "Retrieval", "LlmQueued", "AnswerStarted", "AnswerUsage",
                         "AnswerCompleted", "AnswerDelta", "LlmError", "LiveCodingUpdated"}
      <4>1. \/ t = Recorder!Question(s, e.id) \/ t = Recorder!Note(s, e.id, "retrieval")
            \/ t = Recorder!Note(s, e.id, "queued") \/ t = Recorder!Started(s, e.id)
            \/ t = Recorder!Delta(s, e.id, e.delta) \/ t = Recorder!Note(s, e.id, "usage")
            \/ t = Recorder!Completed(s, e.id) \/ t = Recorder!Failed(s)
            \/ t = Recorder!Revised(s)
        BY <1>1, <1>2, <3>5, RecordIs
      <4>2. WordsKept(s, t)
        BY <4>1, RequestsKeepWords
      <4> QED
        BY <4>2, KeptSaysTheSame
    <3> QED
      BY <1>3, <1>5, <3>1, <3>2, <3>3, <3>4, <3>5
  <2> QED
    BY <1>1, <2>1, <2>2 DEF SaysTheSame
<1> QED
  BY <1>4, <1>5

-----------------------------------------------------------------------------
(* The terminals *)

\* The sink inside: a terminal, or the overlay's channel.
Take(sink, t, e) == IF sink = "terminal" THEN Terminal!Render(t, e) ELSE Terminal!Forward(t, e)

NoteKinds ==
  {"Transcript", "QueueState", "KnowledgeError", "LiveCodingUpdated", "Status", "ModeChanged"}
Notes == {e \in Events : e.kind \in NoteKinds}

\* r is asked by a note that waits, from the n-th on.
Asks(e, r) == e.kind = "Transcript" /\ e.id = r
Waits(notes, n, r) == \E i \in (n + 1)..Len(notes) : Asks(notes[i], r)
Shows(block, r) == block.what = "question" /\ block.id = r

Ready(hap) == {r \in Requests : "ready" \in hap[r]}

\* Every place comes once on the screen, and below the one before it.
ScreenInOrder(screen) ==
  \A i \in 1..Len(screen) : screen[i].place > 0 =>
    /\ \A j \in 1..(i - 1) : screen[j].place # screen[i].place
    /\ screen[i].place = 1 \/ \E j \in 1..(i - 1) : screen[j].place = screen[i].place - 1

WaitInOrder(screen, notes, n) ==
  \A i \in (n + 1)..Len(notes) : PlaceOf(notes[i]) > 0 =>
    /\ \A j \in 1..Len(screen) : screen[j].place # PlaceOf(notes[i])
    /\ \A j \in (n + 1)..(i - 1) : PlaceOf(notes[j]) # PlaceOf(notes[i])
    /\ \/ PlaceOf(notes[i]) = 1
       \/ \E j \in 1..Len(screen) : screen[j].place = PlaceOf(notes[i]) - 1
       \/ \E j \in (n + 1)..(i - 1) : PlaceOf(notes[j]) = PlaceOf(notes[i]) - 1

\* The notes up to last are on the screen or wait, and no others.
AllPlaced(screen, notes, n, last) ==
  /\ \A k \in 1..last : \/ \E i \in 1..Len(screen) : screen[i].place = k
                        \/ \E i \in (n + 1)..Len(notes) : PlaceOf(notes[i]) = k
  /\ \A i \in 1..Len(screen) : screen[i].place <= last
  /\ \A i \in (n + 1)..Len(notes) : PlaceOf(notes[i]) <= last

\* The questions that were ready are on the screen or wait, each of them once.
AllAsked(screen, notes, n, ready) ==
  /\ \A r \in ready : Waits(notes, n, r) \/ \E i \in 1..Len(screen) : Shows(screen[i], r)
  /\ \A r \in Requests : Waits(notes, n, r) => r \in ready
  /\ \A i, j \in (n + 1)..Len(notes) : \A r \in Requests :
       Asks(notes[i], r) /\ Asks(notes[j], r) => i = j

\* The questions that are shown, of those that were ready
Answerable(notes, n, ready) == {r \in ready : ~Waits(notes, n, r)}

\* The screen t.screen, with the notes from the n-th on still to be shown.
Agrees(t, notes, n, ready, last) ==
  /\ ScreenInOrder(t.screen)
  /\ WaitInOrder(t.screen, notes, n)
  /\ AllPlaced(t.screen, notes, n, last)
  /\ AllAsked(t.screen, notes, n, ready)
  /\ t.stats.transcripts = Cardinality(Answerable(notes, n, ready))

\* An answer is one block of its deltas, open as long as it is the active one and
\* the last of the screen, below its question.
AnswersShown(t) ==
  \A i \in 1..Len(t.screen) : t.screen[i].what = "answer" =>
    /\ t.screen[i].deltas = UpTo(Len(t.screen[i].deltas))
    /\ t.screen[i].end = "open" <=> (i = Len(t.screen) /\ t.active = t.screen[i].id)
    /\ t.screen[i].id \in Requests
    /\ \E j \in 1..(i - 1) : Shows(t.screen[j], t.screen[i].id)

\* What ScreenFollowsEvents says of a terminal.
Right(sink, t) ==
  sink = "terminal" =>
    /\ InOrder(Places(t))
    /\ t.pending # <<>> => t.active # None
    /\ AnswersShown(t)

Count(hap, what) == Cardinality({r \in Requests : what \in hap[r]})

Counted(t, hap) ==
  /\ t.stats.started = Count(hap, "started")
  /\ t.stats.completed = Count(hap, "completed")
  /\ t.stats.failed = Count(hap, "failed")

\* The terminal got everything the workers did.
TerminalSettled(t, hap, current, deltas, last) ==
  /\ t.active = current /\ (t.pending # <<>> => t.active # None)
  /\ t.pending \in Seq(Notes)
  /\ Agrees(t, t.pending, 0, Ready(hap), last)
  /\ AnswersShown(t)
  /\ current # None => /\ Len(t.screen) > 0
                       /\ t.screen[Len(t.screen)].what = "answer"
                       /\ t.screen[Len(t.screen)].id = current
                       /\ t.screen[Len(t.screen)].deltas = UpTo(deltas)

OverlaySettled(t, hap) ==
  /\ t.active = None /\ t.pending = <<>>
  /\ t.stats.transcripts = Cardinality(Ready(hap))

Settled(sink, t, hap, current, deltas, last) ==
  /\ Counted(t, hap)
  /\ IF sink = "terminal" THEN TerminalSettled(t, hap, current, deltas, last)
                          ELSE OverlaySettled(t, hap)

-----------------------------------------------------------------------------
(* Lemmas about the order of the notes *)

\* b ends with x and is a before.
Longer(a, b, x) ==
  /\ Len(b) = Len(a) + 1 /\ b[Len(a) + 1] = x
  /\ \A i \in 1..Len(a) : b[i] = a[i]

LEMMA PlacesOfNotes ==
  ASSUME NEW e \in Notes
  PROVE  /\ PlaceOf(e) \in Nat
         /\ e.kind # "QueueState" => PlaceOf(e) = e.place
         /\ e.kind = "Transcript" => e.id \in Requests
BY DEF Notes, NoteKinds, Events, PlaceOf

\* The next note goes to the screen.
LEMMA NextInOrder ==
  ASSUME NEW screen \in Seq(Blocks), NEW new \in Seq(Blocks), NEW b, Longer(screen, new, b),
         NEW notes \in Seq(Notes), NEW n \in Nat, n + 1 <= Len(notes),
         b.place = PlaceOf(notes[n + 1]),
         ScreenInOrder(screen), WaitInOrder(screen, notes, n)
  PROVE  ScreenInOrder(new) /\ WaitInOrder(new, notes, n + 1)
<1>1. PICK l \in Nat : l = Len(screen)
  BY LenProperties
<1>2. PICK w \in Nat : w = Len(notes)
  BY LenProperties
<1>3. /\ Len(new) = l + 1 /\ new[l + 1].place = PlaceOf(notes[n + 1])
      /\ \A i \in 1..l : new[i].place = screen[i].place
  BY <1>1 DEF Longer
<1>4. \A i \in 1..w : PlaceOf(notes[i]) \in Nat
  BY <1>2, ElementOfSeq, PlacesOfNotes
<1>5. n + 1 \in (n + 1)..w /\ n + 1 \in 1..w
  BY <1>2
<1>6. ASSUME NEW i \in 1..(l + 1), new[i].place > 0
      PROVE  /\ \A j \in 1..(i - 1) : new[j].place # new[i].place
             /\ \/ new[i].place = 1
                \/ \E j \in 1..(i - 1) : new[j].place = new[i].place - 1
  <2>1. CASE i \in 1..l
    <3>1. \A j \in 1..(i - 1) : j \in 1..l
      OBVIOUS
    <3> QED
      BY <1>1, <1>3, <1>6, <2>1, <3>1 DEF ScreenInOrder
  <2>2. CASE i = l + 1
    <3>1. \A j \in 1..(i - 1) : j \in 1..l
      BY <2>2
    <3>2. \A j \in 1..l : j \in 1..(i - 1)
      BY <2>2
    <3>3. PlaceOf(notes[n + 1]) > 0
      BY <1>3, <1>6, <2>2
    <3>4. \A j \in 1..l : screen[j].place # PlaceOf(notes[n + 1])
      BY <1>1, <1>2, <1>5, <3>3 DEF WaitInOrder
    <3>5. \/ PlaceOf(notes[n + 1]) = 1
          \/ \E j \in 1..l : screen[j].place = PlaceOf(notes[n + 1]) - 1
      <4>1. ~ \E j \in (n + 1)..((n + 1) - 1) : TRUE
        OBVIOUS
      <4> QED
        BY <1>1, <1>2, <1>5, <3>3, <4>1 DEF WaitInOrder
    <3> QED
      BY <1>3, <2>2, <3>1, <3>2, <3>4, <3>5
  <2> QED
    BY <2>1, <2>2
<1>7. ASSUME NEW i \in ((n + 1) + 1)..w, PlaceOf(notes[i]) > 0
      PROVE  /\ \A j \in 1..(l + 1) : new[j].place # PlaceOf(notes[i])
             /\ \A j \in ((n + 1) + 1)..(i - 1) : PlaceOf(notes[j]) # PlaceOf(notes[i])
             /\ \/ PlaceOf(notes[i]) = 1
                \/ \E j \in 1..(l + 1) : new[j].place = PlaceOf(notes[i]) - 1
                \/ \E j \in ((n + 1) + 1)..(i - 1) : PlaceOf(notes[j]) = PlaceOf(notes[i]) - 1
  <2>1. i \in (n + 1)..w /\ n + 1 \in (n + 1)..(i - 1)
    OBVIOUS
  <2>2. /\ \A j \in 1..l : screen[j].place # PlaceOf(notes[i])
        /\ \A j \in (n + 1)..(i - 1) : PlaceOf(notes[j]) # PlaceOf(notes[i])
        /\ \/ PlaceOf(notes[i]) = 1
           \/ \E j \in 1..l : screen[j].place = PlaceOf(notes[i]) - 1
           \/ \E j \in (n + 1)..(i - 1) : PlaceOf(notes[j]) = PlaceOf(notes[i]) - 1
    BY <1>1, <1>2, <1>7, <2>1 DEF WaitInOrder
  <2>3. \A j \in 1..(l + 1) : j \in 1..l \/ j = l + 1
    OBVIOUS
  <2>4. \A j \in ((n + 1) + 1)..(i - 1) : j \in (n + 1)..(i - 1)
    OBVIOUS
  <2>5. \A j \in (n + 1)..(i - 1) : j = n + 1 \/ j \in ((n + 1) + 1)..(i - 1)
    OBVIOUS
  <2>6. \A j \in 1..l : j \in 1..(l + 1)
    OBVIOUS
  <2>7. l + 1 \in 1..(l + 1)
    OBVIOUS
  <2>8. \A j \in 1..(l + 1) : new[j].place # PlaceOf(notes[i])
    BY <1>3, <2>1, <2>2, <2>3
  <2>9. \/ PlaceOf(notes[i]) = 1
        \/ \E j \in 1..(l + 1) : new[j].place = PlaceOf(notes[i]) - 1
        \/ \E j \in ((n + 1) + 1)..(i - 1) : PlaceOf(notes[j]) = PlaceOf(notes[i]) - 1
    BY <1>3, <2>2, <2>5, <2>6, <2>7
  <2> QED
    BY <2>2, <2>4, <2>8, <2>9
<1>8. ScreenInOrder(new)
  BY <1>3, <1>6 DEF ScreenInOrder
<1>9. WaitInOrder(new, notes, n + 1)
  BY <1>2, <1>3, <1>7 DEF WaitInOrder
<1> QED
  BY <1>8, <1>9

\* The next note has no place.
LEMMA NextPassesInOrder ==
  ASSUME NEW screen, NEW notes \in Seq(Notes), NEW n \in Nat, n + 1 <= Len(notes),
         PlaceOf(notes[n + 1]) = 0, WaitInOrder(screen, notes, n)
  PROVE  WaitInOrder(screen, notes, n + 1)
<1>1. PICK w \in Nat : w = Len(notes)
  BY LenProperties
<1> SUFFICES ASSUME NEW i \in ((n + 1) + 1)..w, PlaceOf(notes[i]) > 0
             PROVE  /\ \A j \in 1..Len(screen) : screen[j].place # PlaceOf(notes[i])
                    /\ \A j \in ((n + 1) + 1)..(i - 1) : PlaceOf(notes[j]) # PlaceOf(notes[i])
                    /\ \/ PlaceOf(notes[i]) = 1
                       \/ \E j \in 1..Len(screen) : screen[j].place = PlaceOf(notes[i]) - 1
                       \/ \E j \in ((n + 1) + 1)..(i - 1) :
                            PlaceOf(notes[j]) = PlaceOf(notes[i]) - 1
  BY <1>1 DEF WaitInOrder
<1>2. i \in (n + 1)..w /\ i \in 1..w
  OBVIOUS
<1>3. PlaceOf(notes[i]) \in Nat
  BY <1>1, <1>2, ElementOfSeq, PlacesOfNotes
<1>4. \A j \in (n + 1)..(i - 1) : j = n + 1 \/ j \in ((n + 1) + 1)..(i - 1)
  OBVIOUS
<1>5. \A j \in ((n + 1) + 1)..(i - 1) : j \in (n + 1)..(i - 1)
  OBVIOUS
<1>6. PlaceOf(notes[i]) - 1 = 0 => PlaceOf(notes[i]) = 1
  BY <1>3
<1> QED
  BY <1>1, <1>2, <1>4, <1>5, <1>6 DEF WaitInOrder

LEMMA NextAllPlaced ==
  ASSUME NEW screen \in Seq(Blocks), NEW new \in Seq(Blocks), NEW b, Longer(screen, new, b),
         NEW notes \in Seq(Notes), NEW n \in Nat, n + 1 <= Len(notes),
         b.place = PlaceOf(notes[n + 1]), NEW last \in Nat, AllPlaced(screen, notes, n, last)
  PROVE  AllPlaced(new, notes, n + 1, last)
<1>1. PICK l \in Nat : l = Len(screen)
  BY LenProperties
<1>2. PICK w \in Nat : w = Len(notes)
  BY LenProperties
<1>3. /\ Len(new) = l + 1 /\ new[l + 1].place = PlaceOf(notes[n + 1])
      /\ \A i \in 1..l : new[i].place = screen[i].place
  BY <1>1 DEF Longer
<1>4. n + 1 \in (n + 1)..w
  BY <1>2
<1>5. /\ \A k \in 1..last : \/ \E i \in 1..l : screen[i].place = k
                            \/ \E i \in (n + 1)..w : PlaceOf(notes[i]) = k
      /\ \A i \in 1..l : screen[i].place <= last
      /\ \A i \in (n + 1)..w : PlaceOf(notes[i]) <= last
  BY <1>1, <1>2 DEF AllPlaced
<1>6. /\ \A j \in 1..(l + 1) : j \in 1..l \/ j = l + 1
      /\ \A j \in 1..l : j \in 1..(l + 1)
      /\ l + 1 \in 1..(l + 1)
      /\ \A j \in (n + 1)..w : j = n + 1 \/ j \in ((n + 1) + 1)..w
      /\ \A j \in ((n + 1) + 1)..w : j \in (n + 1)..w
  BY <1>2
<1>7. ASSUME NEW k \in 1..last
      PROVE  \/ \E i \in 1..(l + 1) : new[i].place = k
             \/ \E i \in ((n + 1) + 1)..w : PlaceOf(notes[i]) = k
  BY <1>3, <1>5, <1>6
<1>8. \A i \in 1..(l + 1) : new[i].place <= last
  BY <1>3, <1>4, <1>5, <1>6
<1>9. \A i \in ((n + 1) + 1)..w : PlaceOf(notes[i]) <= last
  BY <1>5, <1>6
<1> QED
  BY <1>2, <1>3, <1>7, <1>8, <1>9 DEF AllPlaced

LEMMA NextPassesAllPlaced ==
  ASSUME NEW screen, NEW notes \in Seq(Notes), NEW n \in Nat, n + 1 <= Len(notes),
         PlaceOf(notes[n + 1]) = 0, NEW last \in Nat, AllPlaced(screen, notes, n, last)
  PROVE  AllPlaced(screen, notes, n + 1, last)
<1>1. PICK w \in Nat : w = Len(notes)
  BY LenProperties
<1>2. /\ \A j \in (n + 1)..w : j = n + 1 \/ j \in ((n + 1) + 1)..w
      /\ \A j \in ((n + 1) + 1)..w : j \in (n + 1)..w
  BY <1>1
<1>3. \A k \in 1..last : k # 0
  OBVIOUS
<1> QED
  BY <1>1, <1>2, <1>3 DEF AllPlaced

\* Which questions wait once the next note was taken.
LEMMA NextWaits ==
  ASSUME NEW notes \in Seq(Notes), NEW n \in Nat, n + 1 <= Len(notes), NEW r
  PROVE  Waits(notes, n, r) <=> Asks(notes[n + 1], r) \/ Waits(notes, n + 1, r)
<1>1. PICK w \in Nat : w = Len(notes)
  BY LenProperties
<1>2. /\ \A j \in (n + 1)..w : j = n + 1 \/ j \in ((n + 1) + 1)..w
      /\ \A j \in ((n + 1) + 1)..w : j \in (n + 1)..w
      /\ n + 1 \in (n + 1)..w
  BY <1>1
<1> QED
  BY <1>1, <1>2 DEF Waits

\* A question waits once.
LEMMA NextWaitsOnce ==
  ASSUME NEW notes \in Seq(Notes), NEW n \in Nat, n + 1 <= Len(notes), NEW screen, NEW ready,
         AllAsked(screen, notes, n, ready), NEW r \in Requests, Asks(notes[n + 1], r)
  PROVE  r \in ready /\ ~Waits(notes, n + 1, r)
<1>1. PICK w \in Nat : w = Len(notes)
  BY LenProperties
<1>2. /\ \A j \in ((n + 1) + 1)..w : j \in (n + 1)..w /\ j # n + 1
      /\ n + 1 \in (n + 1)..w
  BY <1>1
<1>3. r \in ready
  BY NextWaits DEF AllAsked
<1>4. ASSUME Waits(notes, n + 1, r)
      PROVE  FALSE
  <2>1. PICK j \in ((n + 1) + 1)..w : Asks(notes[j], r)
    BY <1>1, <1>4 DEF Waits
  <2>2. \A i, k \in (n + 1)..w : Asks(notes[i], r) /\ Asks(notes[k], r) => i = k
    BY <1>1 DEF AllAsked
  <2>3. j = n + 1
    BY <1>2, <2>1, <2>2
  <2> QED
    BY <1>2, <2>3
<1> QED
  BY <1>3, <1>4

\* The next note goes to the screen: as a question when it asks one.
LEMMA NextAllAsked ==
  ASSUME NEW screen \in Seq(Blocks), NEW new \in Seq(Blocks), NEW b, Longer(screen, new, b),
         NEW notes \in Seq(Notes), NEW n \in Nat, n + 1 <= Len(notes), NEW ready,
         \A r \in Requests : Asks(notes[n + 1], r) => Shows(b, r),
         ready \subseteq Requests, AllAsked(screen, notes, n, ready)
  PROVE  AllAsked(new, notes, n + 1, ready)
<1>1. PICK l \in Nat : l = Len(screen)
  BY LenProperties
<1>2. PICK w \in Nat : w = Len(notes)
  BY LenProperties
<1>3. /\ Len(new) = l + 1 /\ new[l + 1] = b
      /\ \A i \in 1..l : new[i] = screen[i]
  BY <1>1 DEF Longer
<1>4. /\ \A j \in 1..l : j \in 1..(l + 1)
      /\ l + 1 \in 1..(l + 1)
      /\ \A j \in ((n + 1) + 1)..w : j \in (n + 1)..w
  BY <1>2
<1>5. ASSUME NEW r \in ready
      PROVE  Waits(notes, n + 1, r) \/ \E i \in 1..(l + 1) : Shows(new[i], r)
  <2>1. CASE Waits(notes, n, r)
    BY <1>3, <1>4, <2>1, NextWaits
  <2>2. CASE \E i \in 1..l : Shows(screen[i], r)
    BY <1>3, <1>4, <2>2
  <2> QED
    BY <1>1, <2>1, <2>2 DEF AllAsked
<1>6. \A r \in Requests : Waits(notes, n + 1, r) => r \in ready
  BY NextWaits DEF AllAsked
<1>7. \A i, j \in ((n + 1) + 1)..w : \A r \in Requests :
        Asks(notes[i], r) /\ Asks(notes[j], r) => i = j
  BY <1>2, <1>4 DEF AllAsked
<1> QED
  BY <1>2, <1>3, <1>5, <1>6, <1>7 DEF AllAsked

LEMMA NextPassesAllAsked ==
  ASSUME NEW screen, NEW notes \in Seq(Notes), NEW n \in Nat, n + 1 <= Len(notes), NEW ready,
         \A r : ~Asks(notes[n + 1], r), AllAsked(screen, notes, n, ready)
  PROVE  AllAsked(screen, notes, n + 1, ready)
<1>1. PICK w \in Nat : w = Len(notes)
  BY LenProperties
<1>2. \A j \in ((n + 1) + 1)..w : j \in (n + 1)..w
  BY <1>1
<1>3. \A r : Waits(notes, n, r) <=> Waits(notes, n + 1, r)
  BY NextWaits
<1> QED
  BY <1>1, <1>2, <1>3 DEF AllAsked

-----------------------------------------------------------------------------
(* Lemmas about what is counted *)

LEMMA RequestsAreFinite == \A S : S \subseteq Requests => IsFiniteSet(S)
<1>1. IsFiniteSet({"interviewer"})
  BY FS_Singleton
<1>2. IsFiniteSet({"interviewer"} \cup {"candidate"})
  BY <1>1, FS_AddElement
<1>3. {"interviewer"} \cup {"candidate"} = Speakers
  BY DEF Speakers
<1>4. IsFiniteSet(Speakers)
  BY <1>2, <1>3
<1>5. IsFiniteSet(1..MaxQuestions)
  BY BoundsAssumption, FS_Interval
<1>6. IsFiniteSet(Speakers \X (1..MaxQuestions))
  BY <1>4, <1>5, FS_Product
<1>7. IsFiniteSet(Requests)
  BY <1>6 DEF Requests
<1> QED
  BY <1>7, FS_Subset

LEMMA OneMore ==
  ASSUME NEW S, NEW T, S \subseteq Requests, NEW r \in Requests, r \notin S, T = S \cup {r}
  PROVE  Cardinality(T) = Cardinality(S) + 1 /\ Cardinality(S) \in Nat
<1>1. IsFiniteSet(S)
  BY RequestsAreFinite
<1> QED
  BY <1>1, FS_AddElement, FS_CardinalityType

\* What a step counts: r, when that happened to it for the first time.
LEMMA CountIs ==
  ASSUME NEW hap, NEW hap2, NEW r \in Requests, NEW what, what \notin hap[r],
         what \in hap2[r],
         \A q \in Requests : q # r => (what \in hap2[q] <=> what \in hap[q])
  PROVE  Count(hap2, what) = Count(hap, what) + 1
<1> DEFINE S == {q \in Requests : what \in hap[q]}
           T == {q \in Requests : what \in hap2[q]}
<1>1. S \subseteq Requests /\ r \notin S
  OBVIOUS
<1>2. T = S \cup {r}
  OBVIOUS
<1> HIDE DEF S, T
<1>3. Cardinality(T) = Cardinality(S) + 1
  BY <1>1, <1>2, OneMore
<1> QED
  BY <1>3 DEF S, T, Count

LEMMA CountStays ==
  ASSUME NEW hap, NEW hap2, NEW what,
         \A q \in Requests : what \in hap2[q] <=> what \in hap[q]
  PROVE  Count(hap2, what) = Count(hap, what)
<1>1. {q \in Requests : what \in hap2[q]} = {q \in Requests : what \in hap[q]}
  OBVIOUS
<1> QED
  BY <1>1 DEF Count

\* The question that is shown now is counted now.
LEMMA NextAnswerable ==
  ASSUME NEW notes \in Seq(Notes), NEW n \in Nat, n + 1 <= Len(notes), NEW screen, NEW ready,
         ready \subseteq Requests, AllAsked(screen, notes, n, ready),
         NEW r \in Requests, Asks(notes[n + 1], r)
  PROVE  Cardinality(Answerable(notes, n + 1, ready))
           = Cardinality(Answerable(notes, n, ready)) + 1
<1> DEFINE S == Answerable(notes, n, ready)
           T == Answerable(notes, n + 1, ready)
<1>1. r \in ready /\ ~Waits(notes, n + 1, r) /\ Waits(notes, n, r)
  BY NextWaitsOnce, NextWaits
<1>2. \A q \in ready : q # r => ~Asks(notes[n + 1], q)
  BY DEF Asks
<1>3. \A q \in ready : q # r => (Waits(notes, n, q) <=> Waits(notes, n + 1, q))
  BY <1>2, NextWaits
<1>4. S \subseteq Requests /\ r \notin S
  BY <1>1 DEF Answerable
<1>5. T = S \cup {r}
  BY <1>1, <1>3 DEF Answerable
<1> HIDE DEF S, T
<1> QED
  BY <1>4, <1>5, OneMore DEF S, T

LEMMA NextPassesAnswerable ==
  ASSUME NEW notes \in Seq(Notes), NEW n \in Nat, n + 1 <= Len(notes), NEW ready,
         \A r : ~Asks(notes[n + 1], r)
  PROVE  Answerable(notes, n + 1, ready) = Answerable(notes, n, ready)
<1>1. \A r : Waits(notes, n, r) <=> Waits(notes, n + 1, r)
  BY NextWaits
<1> QED
  BY <1>1 DEF Answerable

-----------------------------------------------------------------------------
(* Lemmas about a note that comes *)

\* A place that is not the next has nothing to do with the order.
LEMMA MoreInOrder ==
  ASSUME NEW screen, NEW notes \in Seq(Notes), NEW e \in Notes, NEW last \in Nat,
         PlaceOf(e) \in {0, last + 1}, NEW more, Longer(notes, more, e),
         WaitInOrder(screen, notes, 0), AllPlaced(screen, notes, 0, last)
  PROVE  WaitInOrder(screen, more, 0)
<1>1. PICK w \in Nat : w = Len(notes)
  BY LenProperties
<1>2. PICK l : l = Len(screen)
  OBVIOUS
<1>3. /\ Len(more) = w + 1 /\ more[w + 1] = e
      /\ \A i \in 1..w : PlaceOf(more[i]) = PlaceOf(notes[i])
  BY <1>1 DEF Longer
<1>4. \A i \in (0 + 1)..(w + 1) : i \in 1..w \/ i = w + 1
  OBVIOUS
<1>5. ASSUME NEW i \in (0 + 1)..(w + 1), PlaceOf(more[i]) > 0
      PROVE  /\ \A j \in 1..l : screen[j].place # PlaceOf(more[i])
             /\ \A j \in (0 + 1)..(i - 1) : PlaceOf(more[j]) # PlaceOf(more[i])
             /\ \/ PlaceOf(more[i]) = 1
                \/ \E j \in 1..l : screen[j].place = PlaceOf(more[i]) - 1
                \/ \E j \in (0 + 1)..(i - 1) : PlaceOf(more[j]) = PlaceOf(more[i]) - 1
  <2>1. \A j \in (0 + 1)..(i - 1) : j \in 1..w
    OBVIOUS
  <2>2. CASE i \in 1..w
    <3>1. i \in (0 + 1)..w
      BY <2>2
    <3>2. PlaceOf(notes[i]) > 0 /\ PlaceOf(more[i]) = PlaceOf(notes[i])
      BY <1>3, <1>5, <2>2
    <3>3. /\ \A j \in 1..l : screen[j].place # PlaceOf(notes[i])
          /\ \A j \in (0 + 1)..(i - 1) : PlaceOf(notes[j]) # PlaceOf(notes[i])
          /\ \/ PlaceOf(notes[i]) = 1
             \/ \E j \in 1..l : screen[j].place = PlaceOf(notes[i]) - 1
             \/ \E j \in (0 + 1)..(i - 1) : PlaceOf(notes[j]) = PlaceOf(notes[i]) - 1
      BY <1>1, <1>2, <3>1, <3>2 DEF WaitInOrder
    <3> QED
      BY <1>3, <2>1, <3>2, <3>3
  <2>3. CASE i = w + 1
    <3>1. PlaceOf(more[i]) = last + 1
      BY <1>3, <1>5, <2>3
    <3>2. /\ \A k \in 1..last : \/ \E j \in 1..l : screen[j].place = k
                                \/ \E j \in (0 + 1)..w : PlaceOf(notes[j]) = k
          /\ \A j \in 1..l : screen[j].place <= last
          /\ \A j \in (0 + 1)..w : PlaceOf(notes[j]) <= last
      BY <1>1, <1>2 DEF AllPlaced
    <3>3. \A j \in (0 + 1)..w : j \in (0 + 1)..(i - 1)
      BY <2>3
    <3>4. last # 0 => last \in 1..last
      OBVIOUS
    <3>5. \A j \in 1..l : screen[j].place # last + 1
      BY <3>2
    <3>6. \A j \in (0 + 1)..(i - 1) : PlaceOf(more[j]) # last + 1
      <4>1. \A j \in (0 + 1)..w : PlaceOf(notes[j]) # last + 1
        BY <3>2
      <4> QED
        BY <1>3, <2>1, <4>1
    <3>7. \/ last = 0
          \/ \E j \in 1..l : screen[j].place = last
          \/ \E j \in (0 + 1)..(i - 1) : PlaceOf(more[j]) = last
      <4>1. CASE last # 0 /\ \E j \in (0 + 1)..w : PlaceOf(notes[j]) = last
        <5>1. PICK j \in (0 + 1)..w : PlaceOf(notes[j]) = last
          BY <4>1
        <5>2. j \in (0 + 1)..(i - 1) /\ j \in 1..w
          BY <3>3
        <5>3. PlaceOf(more[j]) = last
          BY <1>3, <5>1, <5>2
        <5> QED
          BY <5>2, <5>3
      <4> QED
        BY <3>2, <3>4, <4>1
    <3>8. (last + 1) - 1 = last
      OBVIOUS
    <3> QED
      BY <3>1, <3>5, <3>6, <3>7, <3>8
  <2> QED
    BY <1>4, <2>2, <2>3
<1> QED
  BY <1>2, <1>3, <1>5 DEF WaitInOrder

LEMMA MoreAllPlaced ==
  ASSUME NEW screen, NEW notes \in Seq(Notes), NEW e \in Notes, NEW last \in Nat, NEW last2,
         \/ PlaceOf(e) = 0 /\ last2 = last
         \/ PlaceOf(e) = last + 1 /\ last2 = last + 1,
         NEW more, Longer(notes, more, e), AllPlaced(screen, notes, 0, last),
         \A i \in 1..Len(screen) : screen[i].place \in Nat
  PROVE  AllPlaced(screen, more, 0, last2)
<1>1. PICK w \in Nat : w = Len(notes)
  BY LenProperties
<1>2. PICK l : l = Len(screen)
  OBVIOUS
<1>3. /\ Len(more) = w + 1 /\ more[w + 1] = e
      /\ \A i \in 1..w : PlaceOf(more[i]) = PlaceOf(notes[i])
  BY <1>1 DEF Longer
<1>4. /\ \A i \in (0 + 1)..(w + 1) : i \in (0 + 1)..w \/ i = w + 1
      /\ \A i \in (0 + 1)..w : i \in (0 + 1)..(w + 1) /\ i \in 1..w
      /\ w + 1 \in (0 + 1)..(w + 1)
  OBVIOUS
<1>5. /\ \A k \in 1..last : \/ \E j \in 1..l : screen[j].place = k
                            \/ \E j \in (0 + 1)..w : PlaceOf(notes[j]) = k
      /\ \A j \in 1..l : screen[j].place <= last
      /\ \A j \in (0 + 1)..w : PlaceOf(notes[j]) <= last
  BY <1>1, <1>2 DEF AllPlaced
<1>6. \A k \in 1..last2 : k \in 1..last \/ k = PlaceOf(e)
  OBVIOUS
<1>7. last <= last2 /\ PlaceOf(e) <= last2
  OBVIOUS
<1>8. \A k \in 1..last2 : \/ \E j \in 1..l : screen[j].place = k
                          \/ \E j \in (0 + 1)..(w + 1) : PlaceOf(more[j]) = k
  BY <1>3, <1>4, <1>5, <1>6
<1>9. \A j \in 1..l : screen[j].place <= last2
  BY <1>2, <1>5, <1>7
<1>10. \A j \in (0 + 1)..w : PlaceOf(notes[j]) \in Nat
  BY <1>1, <1>4, ElementOfSeq, PlacesOfNotes
<1>11. \A j \in (0 + 1)..(w + 1) : PlaceOf(more[j]) <= last2
  <2> TAKE j \in (0 + 1)..(w + 1)
  <2>1. CASE j = w + 1
    BY <1>3, <1>7, <2>1
  <2>2. CASE j \in (0 + 1)..w
    BY <1>3, <1>4, <1>5, <1>7, <1>10, <2>2
  <2> QED
    BY <1>4, <2>1, <2>2
<1> QED
  BY <1>2, <1>3, <1>8, <1>9, <1>11 DEF AllPlaced

LEMMA MoreWaits ==
  ASSUME NEW notes \in Seq(Notes), NEW e, NEW more, Longer(notes, more, e), NEW r
  PROVE  Waits(more, 0, r) <=> Asks(e, r) \/ Waits(notes, 0, r)
<1>1. PICK w \in Nat : w = Len(notes)
  BY LenProperties
<1>2. /\ Len(more) = w + 1 /\ more[w + 1] = e
      /\ \A i \in 1..w : more[i] = notes[i]
  BY <1>1 DEF Longer
<1>3. /\ \A i \in (0 + 1)..(w + 1) : i \in (0 + 1)..w \/ i = w + 1
      /\ \A i \in (0 + 1)..w : i \in (0 + 1)..(w + 1) /\ i \in 1..w
      /\ w + 1 \in (0 + 1)..(w + 1)
  OBVIOUS
<1> QED
  BY <1>1, <1>2, <1>3 DEF Waits

\* asked is what the note asks: a question that was not ready, or nothing.
LEMMA MoreAllAsked ==
  ASSUME NEW screen, NEW notes \in Seq(Notes), NEW e \in Notes,
         NEW more, Longer(notes, more, e), NEW ready, NEW ready2,
         \A r \in Requests : r \in ready2 <=> r \in ready \/ Asks(e, r),
         \A r \in ready : ~Asks(e, r), ready \subseteq Requests, ready2 \subseteq Requests,
         AllAsked(screen, notes, 0, ready)
  PROVE  /\ AllAsked(screen, more, 0, ready2)
         /\ Answerable(more, 0, ready2) = Answerable(notes, 0, ready)
<1>1. PICK w \in Nat : w = Len(notes)
  BY LenProperties
<1>2. /\ Len(more) = w + 1 /\ more[w + 1] = e
      /\ \A i \in 1..w : more[i] = notes[i]
  BY <1>1 DEF Longer
<1>3. \A i \in (0 + 1)..(w + 1) : (i \in (0 + 1)..w /\ i \in 1..w) \/ i = w + 1
  OBVIOUS
<1>4. \A r : Waits(more, 0, r) <=> Asks(e, r) \/ Waits(notes, 0, r)
  BY MoreWaits
<1>5. \A r \in ready2 : Waits(more, 0, r) \/ \E i \in 1..Len(screen) : Shows(screen[i], r)
  BY <1>4 DEF AllAsked
<1>6. \A r \in Requests : Waits(more, 0, r) => r \in ready2
  BY <1>4 DEF AllAsked
<1>7. ASSUME NEW i \in (0 + 1)..(w + 1), NEW j \in (0 + 1)..(w + 1), NEW r \in Requests,
             Asks(more[i], r), Asks(more[j], r)
      PROVE  i = j
  <2>1. \A k \in (0 + 1)..w : Asks(notes[k], r) => Waits(notes, 0, r)
    BY <1>1 DEF Waits
  <2>2. \A k \in (0 + 1)..w : Asks(notes[k], r) => ~Asks(e, r)
    BY <2>1 DEF AllAsked
  <2>3. \A k, m \in (0 + 1)..w : Asks(notes[k], r) /\ Asks(notes[m], r) => k = m
    BY <1>1 DEF AllAsked
  <2>4. CASE i = w + 1 /\ j = w + 1
    BY <2>4
  <2>5. CASE i = w + 1 /\ j \in (0 + 1)..w /\ j \in 1..w
    BY <1>2, <1>7, <2>2, <2>5
  <2>6. CASE i \in (0 + 1)..w /\ i \in 1..w /\ j = w + 1
    BY <1>2, <1>7, <2>2, <2>6
  <2>7. CASE i \in (0 + 1)..w /\ i \in 1..w /\ j \in (0 + 1)..w /\ j \in 1..w
    BY <1>2, <1>7, <2>3, <2>7
  <2> QED
    BY <1>3, <2>4, <2>5, <2>6, <2>7
<1>8. AllAsked(screen, more, 0, ready2)
  BY <1>2, <1>5, <1>6, <1>7 DEF AllAsked
<1>9. \A r \in Requests : r \in ready2 /\ ~Waits(more, 0, r) <=> r \in ready /\ ~Waits(notes, 0, r)
  BY <1>4 DEF AllAsked
<1> QED
  BY <1>8, <1>9 DEF Answerable

\* e comes after last notes, as the next or without a place, and makes ready2 of ready.
Comes(e, ready, ready2, last, last2) ==
  /\ \/ PlaceOf(e) = 0 /\ last2 = last
     \/ PlaceOf(e) = last + 1 /\ last2 = last + 1
  /\ ready \subseteq Requests /\ ready2 \subseteq Requests
  /\ \A r \in Requests : r \in ready2 <=> r \in ready \/ Asks(e, r)
  /\ \A r \in ready : ~Asks(e, r)

LEMMA MoreAgrees ==
  ASSUME NEW t \in Terminals, NEW notes \in Seq(Notes), NEW e \in Notes, NEW more,
         Longer(notes, more, e), NEW last \in Nat, NEW last2, NEW ready, NEW ready2,
         Comes(e, ready, ready2, last, last2), Agrees(t, notes, 0, ready, last)
  PROVE  Agrees(t, more, 0, ready2, last2)
<1>1. PICK screen \in Seq(Blocks) : screen = t.screen
  BY DEF Terminals
<1>2. \A i \in 1..Len(screen) : screen[i].place \in Nat
  <2>1. \A i \in 1..Len(screen) : screen[i] \in Blocks
    BY ElementOfSeq
  <2> QED
    BY <2>1 DEF Blocks
<1>3. PlaceOf(e) \in {0, last + 1}
  BY DEF Comes
<1>4. WaitInOrder(screen, more, 0)
  BY <1>1, <1>3, MoreInOrder DEF Agrees
<1>5. AllPlaced(screen, more, 0, last2)
  BY <1>1, <1>2, MoreAllPlaced DEF Agrees, Comes
<1>6. AllAsked(screen, more, 0, ready2) /\ Answerable(more, 0, ready2) = Answerable(notes, 0, ready)
  <2>1. AllAsked(screen, notes, 0, ready)
    BY <1>1 DEF Agrees
  <2>2. /\ \A r \in Requests : r \in ready2 <=> r \in ready \/ Asks(e, r)
        /\ \A r \in ready : ~Asks(e, r)
        /\ ready \subseteq Requests /\ ready2 \subseteq Requests
    BY DEF Comes
  <2> QED
    BY <2>1, <2>2, MoreAllAsked
<1> QED
  BY <1>1, <1>4, <1>5, <1>6 DEF Agrees

\* Nothing of the notes is left.
LEMMA AllAreShown ==
  ASSUME NEW t, NEW notes \in Seq(Notes), NEW ready, NEW last,
         Agrees(t, notes, Len(notes), ready, last)
  PROVE  Agrees(t, <<>>, 0, ready, last)
<1>1. PICK w \in Nat : w = Len(notes)
  BY LenProperties
<1>2. /\ \A i : ~(i \in (w + 1)..w)
      /\ Len(<<>>) = 0 /\ \A i : ~(i \in (0 + 1)..0)
  OBVIOUS
<1>3. \A r : ~Waits(notes, w, r) /\ ~Waits(<<>>, 0, r)
  BY <1>1, <1>2 DEF Waits
<1>4. Answerable(notes, w, ready) = Answerable(<<>>, 0, ready)
  BY <1>3 DEF Answerable
<1>5. WaitInOrder(t.screen, <<>>, 0)
  BY <1>2 DEF WaitInOrder
<1>6. AllPlaced(t.screen, <<>>, 0, last)
  BY <1>1, <1>2 DEF Agrees, AllPlaced
<1>7. AllAsked(t.screen, <<>>, 0, ready)
  BY <1>1, <1>2, <1>3 DEF Agrees, AllAsked
<1> QED
  BY <1>1, <1>4, <1>5, <1>6, <1>7 DEF Agrees

LEMMA TwoParts ==
  ASSUME NEW l \in Nat, NEW w \in Nat, NEW a \in [1..l -> Nat], NEW b \in [1..w -> Nat]
  PROVE  /\ a \o b \in Seq(Nat) /\ Len(a \o b) = l + w
         /\ \A i \in 1..l : (a \o b)[i] = a[i]
         /\ \A i \in 1..w : (a \o b)[l + i] = b[i]
<1>1. a \in Seq(Nat) /\ b \in Seq(Nat)
  BY SeqDef
<1>2. Len(a) = l /\ Len(b) = w
  BY <1>1, LenProperties
<1>3. PICK c : c = a \o b
  OBVIOUS
<1>4. /\ c \in Seq(Nat) /\ Len(c) = l + w
      /\ \A i \in 1..(l + w) : c[i] = IF i <= l THEN a[i] ELSE b[i - l]
  BY <1>1, <1>2, <1>3, ConcatProperties
<1>5. \A i \in 1..l : c[i] = a[i]
  BY <1>4
<1>6. \A i \in 1..w : c[l + i] = b[i]
  <2> TAKE i \in 1..w
  <2>1. l + i \in 1..(l + w) /\ ~(l + i <= l) /\ (l + i) - l = i
    OBVIOUS
  <2> QED
    BY <1>4, <2>1
<1> QED
  BY <1>3, <1>4, <1>5, <1>6

\* The places of the screen come first, and then those of the notes that wait.
LEMMA PlacesOfTerminal ==
  ASSUME NEW t \in Terminals, t.pending \in Seq(Notes)
  PROVE  /\ Places(t) \in Seq(Nat) /\ Len(Places(t)) = Len(t.screen) + Len(t.pending)
         /\ \A i \in 1..Len(t.screen) : Places(t)[i] = t.screen[i].place
         /\ \A i \in 1..Len(t.pending) : Places(t)[Len(t.screen) + i] = PlaceOf(t.pending[i])
<1>1. t.screen \in Seq(Blocks)
  BY DEF Terminals
<1>2. Len(t.screen) \in Nat /\ Len(t.pending) \in Nat
  BY <1>1, LenProperties
<1>3. \A i \in 1..Len(t.screen) : t.screen[i].place \in Nat
  <2>1. \A i \in 1..Len(t.screen) : t.screen[i] \in Blocks
    BY <1>1, ElementOfSeq
  <2> QED
    BY <2>1 DEF Blocks
<1>4. \A i \in 1..Len(t.pending) : PlaceOf(t.pending[i]) \in Nat
  BY ElementOfSeq, PlacesOfNotes
<1>5. PICK a : a = [i \in 1..Len(t.screen) |-> t.screen[i].place]
  OBVIOUS
<1>6. PICK b : b = [i \in 1..Len(t.pending) |-> PlaceOf(t.pending[i])]
  OBVIOUS
<1>7. /\ a \in [1..Len(t.screen) -> Nat] /\ \A i \in 1..Len(t.screen) : a[i] = t.screen[i].place
      /\ b \in [1..Len(t.pending) -> Nat]
      /\ \A i \in 1..Len(t.pending) : b[i] = PlaceOf(t.pending[i])
  BY <1>3, <1>4, <1>5, <1>6
<1>8. Places(t) = a \o b
  BY <1>5, <1>6 DEF Places
<1>9. /\ a \o b \in Seq(Nat) /\ Len(a \o b) = Len(t.screen) + Len(t.pending)
      /\ \A i \in 1..Len(t.screen) : (a \o b)[i] = a[i]
      /\ \A i \in 1..Len(t.pending) : (a \o b)[Len(t.screen) + i] = b[i]
  BY <1>2, <1>7, TwoParts
<1> QED
  BY <1>7, <1>8, <1>9

LEMMA AgreesInOrder ==
  ASSUME NEW t \in Terminals, t.pending \in Seq(Notes), NEW ready, NEW last,
         Agrees(t, t.pending, 0, ready, last)
  PROVE  InOrder(Places(t))
<1>1. PICK l \in Nat : l = Len(t.screen)
  BY LenProperties DEF Terminals
<1>2. PICK w \in Nat : w = Len(t.pending)
  BY LenProperties
<1>3. PICK line : line = Places(t)
  OBVIOUS
<1>4. /\ line \in Seq(Nat) /\ Len(line) = l + w
      /\ \A i \in 1..l : line[i] = t.screen[i].place
      /\ \A i \in 1..w : line[l + i] = PlaceOf(t.pending[i])
  BY <1>1, <1>2, <1>3, PlacesOfTerminal
<1>5. ASSUME NEW i \in 1..(l + w), line[i] > 0
      PROVE  /\ \A j \in 1..(i - 1) : line[j] # line[i]
             /\ line[i] = 1 \/ \E j \in 1..(i - 1) : line[j] = line[i] - 1
  <2>1. CASE i \in 1..l
    <3>1. \A j \in 1..(i - 1) : j \in 1..l
      BY <2>1
    <3>2. /\ \A j \in 1..(i - 1) : t.screen[j].place # t.screen[i].place
          /\ \/ t.screen[i].place = 1
             \/ \E j \in 1..(i - 1) : t.screen[j].place = t.screen[i].place - 1
      BY <1>1, <1>4, <1>5, <2>1 DEF Agrees, ScreenInOrder
    <3> QED
      BY <1>4, <2>1, <3>1, <3>2
  <2>2. CASE ~(i \in 1..l)
    <3> DEFINE k == i - l
    <3>1. k \in (0 + 1)..w /\ k \in 1..w /\ l + k = i
      BY <2>2
    <3> HIDE DEF k
    <3>2. line[i] = PlaceOf(t.pending[k])
      BY <1>4, <3>1
    <3>3. /\ \A j \in 1..l : t.screen[j].place # PlaceOf(t.pending[k])
          /\ \A j \in (0 + 1)..(k - 1) : PlaceOf(t.pending[j]) # PlaceOf(t.pending[k])
          /\ \/ PlaceOf(t.pending[k]) = 1
             \/ \E j \in 1..l : t.screen[j].place = PlaceOf(t.pending[k]) - 1
             \/ \E j \in (0 + 1)..(k - 1) : PlaceOf(t.pending[j]) = PlaceOf(t.pending[k]) - 1
      BY <1>1, <1>2, <1>5, <3>1, <3>2 DEF Agrees, WaitInOrder
    <3>4. \A j \in 1..l : j \in 1..(i - 1)
      BY <3>1
    <3>5. \A j \in (0 + 1)..(k - 1) : l + j \in 1..(i - 1) /\ j \in 1..w
      BY <3>1
    <3>6. \A j \in 1..(i - 1) :
            j \in 1..l \/ (j - l \in (0 + 1)..(k - 1) /\ j - l \in 1..w /\ l + (j - l) = j)
      BY <3>1
    <3>7. \A j \in 1..(i - 1) : line[j] # line[i]
      <4> TAKE j \in 1..(i - 1)
      <4>1. CASE j \in 1..l
        BY <1>4, <3>2, <3>3, <4>1
      <4>2. CASE ~(j \in 1..l)
        <5>1. j - l \in (0 + 1)..(k - 1) /\ j - l \in 1..w /\ l + (j - l) = j
          BY <3>6, <4>2
        <5>2. line[l + (j - l)] = PlaceOf(t.pending[j - l])
          BY <1>4, <5>1
        <5> QED
          BY <3>2, <3>3, <5>1, <5>2
      <4> QED
        BY <4>1, <4>2
    <3>8. line[i] = 1 \/ \E j \in 1..(i - 1) : line[j] = line[i] - 1
      <4>1. CASE \E j \in 1..l : t.screen[j].place = PlaceOf(t.pending[k]) - 1
        BY <1>4, <3>2, <3>4, <4>1
      <4>2. CASE \E j \in (0 + 1)..(k - 1) : PlaceOf(t.pending[j]) = PlaceOf(t.pending[k]) - 1
        <5>1. PICK j \in (0 + 1)..(k - 1) : PlaceOf(t.pending[j]) = PlaceOf(t.pending[k]) - 1
          BY <4>2
        <5>2. l + j \in 1..(i - 1) /\ line[l + j] = PlaceOf(t.pending[j])
          BY <1>4, <3>5
        <5> QED
          BY <3>2, <5>1, <5>2
      <4> QED
        BY <3>2, <3>3, <4>1, <4>2
    <3> QED
      BY <3>7, <3>8
  <2> QED
    BY <2>1, <2>2
<1>6. DOMAIN line = 1..(l + w)
  BY <1>4, LenProperties
<1>7. InOrder(line)
  BY <1>5, <1>6 DEF InOrder
<1> QED
  BY <1>3, <1>7

LEMMA OverlayIsRight ==
  ASSUME NEW t, NEW sink, sink # "terminal"
  PROVE  Right(sink, t)
BY DEF Right

LEMMA SettledIsRight ==
  ASSUME NEW t \in Terminals, NEW sink, NEW hap, NEW current, NEW deltas, NEW last,
         Settled(sink, t, hap, current, deltas, last)
  PROVE  Right(sink, t)
<1>1. CASE sink = "terminal"
  <2>1. TerminalSettled(t, hap, current, deltas, last)
    BY <1>1 DEF Settled
  <2>2. t.pending \in Seq(Notes) /\ Agrees(t, t.pending, 0, Ready(hap), last)
    BY <2>1 DEF TerminalSettled
  <2>3. InOrder(Places(t))
    BY <2>2, AgreesInOrder
  <2> QED
    BY <1>1, <2>1, <2>3 DEF TerminalSettled, Right
<1>2. CASE sink # "terminal"
  BY <1>2, OverlayIsRight
<1> QED
  BY <1>1, <1>2

-----------------------------------------------------------------------------
(* Lemmas about the screen *)

\* What of the terminal has nothing to do with its screen.
Unseen(t, u) == u.active = t.active /\ u.pending = t.pending /\ u.stopped = t.stopped

LEMMA ShownIs ==
  ASSUME NEW t \in Terminals, NEW b \in Blocks, NEW u, u = Terminal!Shown(t, b)
  PROVE  /\ u \in Terminals /\ Longer(t.screen, u.screen, b)
         /\ Unseen(t, u) /\ u.stats = t.stats
<1>1. PICK screen \in Seq(Blocks) : screen = t.screen
  BY DEF Terminals
<1>2. PICK new \in Seq(Blocks) : new = Append(screen, b)
  BY AppendProperties
<1>3. u = [t EXCEPT !.screen = new]
  BY <1>1, <1>2 DEF Terminal!Shown, Terminals
<1>4. u \in Terminals /\ u.screen = new /\ Unseen(t, u) /\ u.stats = t.stats
  BY <1>3 DEF Terminals, Unseen
<1>5. Longer(screen, new, b)
  BY <1>2, AppendProperties DEF Longer
<1> QED
  BY <1>1, <1>4, <1>5

LEMMA StatsAre ==
  ASSUME NEW t \in Terminals, NEW stats \in Stats, NEW u, u = [t EXCEPT !.stats = stats]
  PROVE  u \in Terminals /\ u.stats = stats /\ u.screen = t.screen /\ Unseen(t, u)
BY DEF Terminals, Unseen

\* The counts of the answers stay.
AnswersCounted(t, u) ==
  /\ u.stats.started = t.stats.started /\ u.stats.completed = t.stats.completed
  /\ u.stats.failed = t.stats.failed

\* The note e becomes a block of the screen.
NoteShown(t, e, u) ==
  \E b \in Blocks :
    /\ Longer(t.screen, u.screen, b)
    /\ b.place = PlaceOf(e) /\ b.what # "answer"
    /\ \A r \in Requests : Asks(e, r) => Shows(b, r)
    /\ u.stats.transcripts = t.stats.transcripts + IF e.kind = "Transcript" THEN 1 ELSE 0

LEMMA EmptyIsDeltas == <<>> \in Seq(Nat)
BY EmptySeq

\* A note that is rendered is shown, unless it is a short queue.
LEMMA NoteRendered ==
  ASSUME NEW t \in Terminals, NEW e \in Notes, NEW u, u = Terminal!RenderIdle(t, e)
  PROVE  /\ u \in Terminals /\ Unseen(t, u) /\ AnswersCounted(t, u)
         /\ \/ PlaceOf(e) = 0 /\ (\A r : ~Asks(e, r)) /\ u = t
            \/ NoteShown(t, e, u)
<1>1. e.kind \in NoteKinds /\ e \in Events
  BY DEF Notes
<1>2. u = Terminal!RenderPassive(t, e)
  BY <1>1 DEF Terminal!RenderIdle, Terminal!Silent, NoteKinds
<1>3. t.stats \in Stats
  BY DEF Terminals
<1>4. e.place \in Nat
  BY <1>1 DEF Events, NoteKinds
<1>5. ASSUME NEW v \in Terminals, NEW what \in {"question", "note"}, NEW id \in Owners,
             Unseen(t, v), AnswersCounted(t, v), v.screen = t.screen,
             PlaceOf(e) = e.place, \A r \in Requests : Asks(e, r) => what = "question" /\ id = r,
             v.stats.transcripts = t.stats.transcripts + IF e.kind = "Transcript" THEN 1 ELSE 0,
             u = Terminal!Shown(v, Terminal!Block(what, id, e.place))
      PROVE  u \in Terminals /\ Unseen(t, u) /\ AnswersCounted(t, u) /\ NoteShown(t, e, u)
  <2>1. PICK b : b = Terminal!Block(what, id, e.place)
    OBVIOUS
  <2>2. b \in Blocks /\ b.place = e.place /\ b.what = what /\ b.id = id
    BY <1>4, <2>1, EmptyIsDeltas DEF Terminal!Block, Blocks
  <2>3. /\ u \in Terminals /\ Longer(v.screen, u.screen, b)
        /\ Unseen(v, u) /\ u.stats = v.stats
    BY <1>5, <2>1, <2>2, ShownIs
  <2>4. \A r \in Requests : Asks(e, r) => Shows(b, r)
    BY <1>5, <2>2 DEF Shows
  <2>5. NoteShown(t, e, u)
    BY <1>5, <2>2, <2>3, <2>4 DEF NoteShown
  <2> QED
    BY <1>5, <2>3, <2>5 DEF Unseen, AnswersCounted
<1>6. Unseen(t, t) /\ AnswersCounted(t, t)
  BY DEF Unseen, AnswersCounted
<1>7. None \in Owners
  BY DEF Owners
<1>8. t.stats.transcripts + 0 = t.stats.transcripts
  BY <1>3 DEF Stats
<1>9. CASE e.kind = "Transcript"
  <2>1. PICK stats : stats = [t.stats EXCEPT !.transcripts = @ + 1]
    OBVIOUS
  <2>2. /\ stats \in Stats /\ stats.started = t.stats.started /\ stats.failed = t.stats.failed
        /\ stats.completed = t.stats.completed /\ stats.transcripts = t.stats.transcripts + 1
    BY <1>3, <2>1 DEF Stats
  <2>3. PICK v : v = [t EXCEPT !.stats = stats]
    OBVIOUS
  <2>4. v \in Terminals /\ v.stats = stats /\ v.screen = t.screen /\ Unseen(t, v)
    BY <2>2, <2>3, StatsAre
  <2>5. [t EXCEPT !.stats.transcripts = @ + 1] = v
    BY <2>1, <2>3 DEF Terminals
  <2>6. u = Terminal!Shown(v, Terminal!Block("question", e.id, e.place))
    BY <1>2, <1>9, <2>5 DEF Terminal!RenderPassive
  <2>7. e.id \in Owners /\ PlaceOf(e) = e.place
    BY <1>1, <1>9 DEF Events, Owners, PlaceOf
  <2>8. \A r \in Requests : Asks(e, r) => "question" = "question" /\ e.id = r
    BY DEF Asks
  <2>9. AnswersCounted(t, v)
    BY <2>2, <2>4 DEF AnswersCounted
  <2>10. v.stats.transcripts = t.stats.transcripts + IF e.kind = "Transcript" THEN 1 ELSE 0
    BY <1>9, <2>2, <2>4
  <2> QED
    BY <1>5, <2>4, <2>6, <2>7, <2>8, <2>9, <2>10
<1>10. CASE e.kind = "Status"
  <2>1. PICK stats : stats = [t.stats EXCEPT !.statuses = @ + 1]
    OBVIOUS
  <2>2. /\ stats \in Stats /\ stats.started = t.stats.started /\ stats.failed = t.stats.failed
        /\ stats.completed = t.stats.completed /\ stats.transcripts = t.stats.transcripts
    BY <1>3, <2>1 DEF Stats
  <2>3. PICK v : v = [t EXCEPT !.stats = stats]
    OBVIOUS
  <2>4. v \in Terminals /\ v.stats = stats /\ v.screen = t.screen /\ Unseen(t, v)
    BY <2>2, <2>3, StatsAre
  <2>5. [t EXCEPT !.stats.statuses = @ + 1] = v
    BY <2>1, <2>3 DEF Terminals
  <2>6. u = Terminal!Shown(v, Terminal!Block("note", None, e.place))
    BY <1>2, <1>10, <2>5 DEF Terminal!RenderPassive, Terminal!Note
  <2>7. PlaceOf(e) = e.place
    BY <1>10 DEF PlaceOf
  <2>8. \A r \in Requests : Asks(e, r) => "note" = "question" /\ None = r
    BY <1>10 DEF Asks
  <2>9. AnswersCounted(t, v)
    BY <2>2, <2>4 DEF AnswersCounted
  <2>10. v.stats.transcripts = t.stats.transcripts + IF e.kind = "Transcript" THEN 1 ELSE 0
    BY <1>8, <1>10, <2>2, <2>4
  <2> QED
    BY <1>5, <1>7, <2>4, <2>6, <2>7, <2>8, <2>9, <2>10
<1>11. CASE e.kind = "QueueState" /\ ~(e.len > 1)
  <2>1. u = t
    BY <1>2, <1>11 DEF Terminal!RenderPassive
  <2>2. e.len \in Nat
    BY <1>1, <1>11 DEF Events
  <2>3. PlaceOf(e) = 0 /\ \A r : ~Asks(e, r)
    BY <1>11, <2>2 DEF PlaceOf, Asks
  <2> QED
    BY <1>6, <2>1, <2>3
<1>12. CASE e.kind \in {"KnowledgeError", "LiveCodingUpdated", "ModeChanged"}
            \/ (e.kind = "QueueState" /\ e.len > 1)
  <2>1. u = Terminal!Shown(t, Terminal!Block("note", None, e.place))
    BY <1>2, <1>12 DEF Terminal!RenderPassive, Terminal!Note
  <2>2. PlaceOf(e) = e.place
    <3>1. e.kind = "QueueState" => e.len \in Nat
      BY <1>1 DEF Events
    <3> QED
      BY <1>12, <3>1 DEF PlaceOf
  <2>3. \A r \in Requests : Asks(e, r) => "note" = "question" /\ None = r
    BY <1>12 DEF Asks
  <2>4. t.stats.transcripts = t.stats.transcripts + IF e.kind = "Transcript" THEN 1 ELSE 0
    BY <1>8, <1>12
  <2> QED
    BY <1>5, <1>6, <1>7, <2>1, <2>2, <2>3, <2>4
<1> QED
  BY <1>1, <1>9, <1>10, <1>11, <1>12 DEF NoteKinds

\* While no answer is open, a note below the answers leaves them as they are.
LEMMA NoteBelowAnswers ==
  ASSUME NEW t \in Terminals, NEW u \in Terminals, NEW b, Longer(t.screen, u.screen, b),
         b.what # "answer", t.active = None, u.active = None, AnswersShown(t)
  PROVE  AnswersShown(u)
<1>1. PICK a \in Seq(Blocks) : a = t.screen
  BY DEF Terminals
<1>2. PICK c \in Seq(Blocks) : c = u.screen
  BY DEF Terminals
<1>3. PICK l \in Nat : l = Len(a)
  BY LenProperties
<1>4. Len(c) = l + 1 /\ c[l + 1] = b /\ \A i \in 1..l : c[i] = a[i]
  BY <1>1, <1>2, <1>3 DEF Longer
<1>5. ASSUME NEW i \in 1..(l + 1), c[i].what = "answer"
      PROVE  /\ c[i].deltas = UpTo(Len(c[i].deltas))
             /\ c[i].end = "open" <=> (i = l + 1 /\ None = c[i].id)
             /\ c[i].id \in Requests
             /\ \E j \in 1..(i - 1) : Shows(c[j], c[i].id)
  <2>1. i \in 1..l /\ i # l + 1
    BY <1>4, <1>5
  <2>2. c[i] = a[i] /\ \A j \in 1..(i - 1) : c[j] = a[j]
    BY <1>4, <2>1
  <2>3. /\ a[i].deltas = UpTo(Len(a[i].deltas))
        /\ a[i].end = "open" <=> (i = l /\ None = a[i].id)
        /\ a[i].id \in Requests
        /\ \E j \in 1..(i - 1) : Shows(a[j], a[i].id)
    BY <1>1, <1>3, <1>5, <2>1, <2>2 DEF AnswersShown
  <2>4. a[i].id # None
    BY <2>3, NoneAssumption
  <2> QED
    BY <2>1, <2>2, <2>3, <2>4
<1> QED
  BY <1>2, <1>4, <1>5 DEF AnswersShown

LEMMA NextAgrees ==
  ASSUME NEW t \in Terminals, t.active = None, AnswersShown(t),
         NEW notes \in Seq(Notes), NEW n \in Nat, n + 1 <= Len(notes),
         NEW ready, ready \subseteq Requests, NEW last \in Nat, Agrees(t, notes, n, ready, last),
         NEW u, u = Terminal!RenderIdle(t, notes[n + 1])
  PROVE  /\ u \in Terminals /\ Unseen(t, u) /\ AnswersCounted(t, u) /\ AnswersShown(u)
         /\ Agrees(u, notes, n + 1, ready, last)
<1>1. PICK e \in Notes : e = notes[n + 1]
  <2>1. n + 1 \in 1..Len(notes)
    OBVIOUS
  <2> QED
    BY <2>1, ElementOfSeq
<1>2. /\ u \in Terminals /\ Unseen(t, u) /\ AnswersCounted(t, u)
      /\ \/ PlaceOf(e) = 0 /\ (\A r : ~Asks(e, r)) /\ u = t
         \/ NoteShown(t, e, u)
  BY <1>1, NoteRendered
<1>3. CASE PlaceOf(e) = 0 /\ (\A r : ~Asks(e, r)) /\ u = t
  <2>1. WaitInOrder(t.screen, notes, n + 1)
    BY <1>1, <1>3, NextPassesInOrder DEF Agrees
  <2>2. AllPlaced(t.screen, notes, n + 1, last)
    BY <1>1, <1>3, NextPassesAllPlaced DEF Agrees
  <2>3. AllAsked(t.screen, notes, n + 1, ready)
    BY <1>1, <1>3, NextPassesAllAsked DEF Agrees
  <2>4. Answerable(notes, n + 1, ready) = Answerable(notes, n, ready)
    BY <1>1, <1>3, NextPassesAnswerable
  <2> QED
    BY <1>2, <1>3, <2>1, <2>2, <2>3, <2>4 DEF Agrees
<1>4. CASE NoteShown(t, e, u)
  <2>1. PICK b \in Blocks :
          /\ Longer(t.screen, u.screen, b)
          /\ b.place = PlaceOf(e) /\ b.what # "answer"
          /\ \A r \in Requests : Asks(e, r) => Shows(b, r)
          /\ u.stats.transcripts = t.stats.transcripts + IF e.kind = "Transcript" THEN 1 ELSE 0
    BY <1>4 DEF NoteShown
  <2>2. PICK a \in Seq(Blocks) : a = t.screen
    BY DEF Terminals
  <2>3. PICK c \in Seq(Blocks) : c = u.screen
    BY <1>2 DEF Terminals
  <2>4. Longer(a, c, b)
    BY <2>1, <2>2, <2>3
  <2>5. /\ ScreenInOrder(a) /\ WaitInOrder(a, notes, n) /\ AllPlaced(a, notes, n, last)
        /\ AllAsked(a, notes, n, ready)
        /\ t.stats.transcripts = Cardinality(Answerable(notes, n, ready))
    BY <2>2 DEF Agrees
  <2>6. ScreenInOrder(c) /\ WaitInOrder(c, notes, n + 1)
    BY <1>1, <2>1, <2>4, <2>5, NextInOrder
  <2>7. AllPlaced(c, notes, n + 1, last)
    BY <1>1, <2>1, <2>4, <2>5, NextAllPlaced
  <2>8. AllAsked(c, notes, n + 1, ready)
    BY <1>1, <2>1, <2>4, <2>5, NextAllAsked
  <2>9. u.stats.transcripts = Cardinality(Answerable(notes, n + 1, ready))
    <3>1. CASE e.kind = "Transcript"
      <4>1. PICK r \in Requests : r = e.id
        BY <3>1, PlacesOfNotes
      <4>2. Asks(notes[n + 1], r)
        BY <1>1, <3>1, <4>1 DEF Asks
      <4>3. Cardinality(Answerable(notes, n + 1, ready))
              = Cardinality(Answerable(notes, n, ready)) + 1
        BY <2>5, <4>2, NextAnswerable
      <4> QED
        BY <2>1, <2>5, <3>1, <4>3
    <3>2. CASE e.kind # "Transcript"
      <4>1. \A r : ~Asks(notes[n + 1], r)
        BY <1>1, <3>2 DEF Asks
      <4>2. Answerable(notes, n + 1, ready) = Answerable(notes, n, ready)
        BY <4>1, NextPassesAnswerable
      <4>3. t.stats.transcripts \in Nat
        BY DEF Terminals, Stats
      <4>4. u.stats.transcripts = t.stats.transcripts
        BY <2>1, <3>2, <4>3
      <4> QED
        BY <2>5, <4>2, <4>4
    <3> QED
      BY <3>1, <3>2
  <2>10. AnswersShown(u)
    BY <1>2, <2>1, NoteBelowAnswers DEF Unseen
  <2> QED
    BY <1>2, <2>3, <2>6, <2>7, <2>8, <2>9, <2>10 DEF Agrees
<1> QED
  BY <1>2, <1>3, <1>4

-----------------------------------------------------------------------------
(* The notes that waited *)

Flushed(f, t, n) ==
  /\ DOMAIN f = 0..n
  /\ f = [i \in 0..n |-> f[i]]
  /\ f[0] = [t EXCEPT !.pending = <<>>]
  /\ \A i \in 1..n : f[i] = Terminal!Again(f[i - 1], t.pending[i])

LEMMA FlushedFurther ==
  ASSUME NEW t, NEW n \in Nat, NEW f, Flushed(f, t, n)
  PROVE  \E g : Flushed(g, t, n + 1)
<1>1. PICK next : next = Terminal!Again(f[n], t.pending[n + 1])
  OBVIOUS
<1>2. PICK g : g = [i \in 0..(n + 1) |-> IF i = n + 1 THEN next ELSE f[i]]
  OBVIOUS
<1>3. /\ DOMAIN g = 0..(n + 1) /\ g[n + 1] = next /\ \A i \in 0..n : g[i] = f[i]
      /\ g = [i \in 0..(n + 1) |-> g[i]]
  BY <1>2
<1>4. g[0] = [t EXCEPT !.pending = <<>>]
  <2>1. 0 \in 0..n
    OBVIOUS
  <2>2. g[0] = f[0]
    BY <1>3, <2>1
  <2> QED
    BY <2>2 DEF Flushed
<1>5. ASSUME NEW i \in 1..(n + 1)
      PROVE  g[i] = Terminal!Again(g[i - 1], t.pending[i])
  <2>1. CASE i = n + 1
    <3>1. n \in 0..n /\ i - 1 = n
      BY <2>1
    <3> QED
      BY <1>1, <1>3, <2>1, <3>1
  <2>2. CASE i \in 1..n
    <3>1. i \in 0..n /\ i - 1 \in 0..n
      BY <2>2
    <3> QED
      BY <1>3, <2>2, <3>1 DEF Flushed
  <2> QED
    BY <2>1, <2>2
<1> QED
  BY <1>3, <1>4, <1>5 DEF Flushed

LEMMA FlushingIsFlushed ==
  ASSUME NEW t, NEW w \in Nat, w = Len(t.pending)
  PROVE  Flushed(Terminal!Flushing(t), t, w)
<1> DEFINE S == {n \in Nat : \E f : Flushed(f, t, n)}
<1>1. 0 \in S
  <2>1. PICK f : f = [i \in 0..0 |-> [t EXCEPT !.pending = <<>>]]
    OBVIOUS
  <2>2. Flushed(f, t, 0)
    BY <2>1 DEF Flushed
  <2> QED
    BY <2>2
<1>2. ASSUME NEW n \in Nat, n \in S
      PROVE  n + 1 \in S
  BY <1>2, FlushedFurther
<1> HIDE DEF S
<1>3. w \in S
  BY <1>1, <1>2, Inductive
<1>4. PICK g : Flushed(g, t, w)
  BY <1>3 DEF S
<1> DEFINE Flows(f) == f = [n \in 0..Len(t.pending) |->
                              IF n = 0 THEN [t EXCEPT !.pending = <<>>]
                                       ELSE Terminal!Again(f[n - 1], t.pending[n])]
           flow == CHOOSE f : Flows(f)
<1>5. Flows(g)
  <2>1. \A n \in 0..w : n = 0 \/ n \in 1..w
    OBVIOUS
  <2>2. \A n \in 0..w : g[n] = IF n = 0 THEN [t EXCEPT !.pending = <<>>]
                                       ELSE Terminal!Again(g[n - 1], t.pending[n])
    BY <1>4, <2>1 DEF Flushed
  <2> QED
    BY <1>4, <2>2 DEF Flushed
<1>6. Flows(flow)
  BY <1>5
<1>7. Terminal!Flushing(t) = flow
  BY DEF Terminal!Flushing
<1> HIDE DEF flow
<1>8. \A n \in 0..w : flow[n] = IF n = 0 THEN [t EXCEPT !.pending = <<>>]
                                         ELSE Terminal!Again(flow[n - 1], t.pending[n])
  BY <1>6
<1>9. DOMAIN flow = 0..w /\ flow = [n \in 0..w |-> flow[n]]
  BY <1>6
<1>10. flow[0] = [t EXCEPT !.pending = <<>>]
  BY <1>8
<1>11. \A n \in 1..w : flow[n] = Terminal!Again(flow[n - 1], t.pending[n])
  <2>1. \A n \in 1..w : n \in 0..w /\ n # 0
    OBVIOUS
  <2> QED
    BY <1>8, <2>1
<1> QED
  BY <1>7, <1>9, <1>10, <1>11 DEF Flushed

\* Once all notes are shown nothing waits.
LEMMA FlushIs ==
  ASSUME NEW t \in Terminals, t.active = None, AnswersShown(t), t.pending \in Seq(Notes),
         NEW ready, ready \subseteq Requests, NEW last \in Nat,
         Agrees(t, t.pending, 0, ready, last), NEW u, u = Terminal!FlushPending(t)
  PROVE  /\ u \in Terminals /\ u.active = None /\ u.pending = <<>>
         /\ AnswersCounted(t, u) /\ AnswersShown(u)
         /\ Agrees(u, <<>>, 0, ready, last)
<1>1. PICK notes \in Seq(Notes) : notes = t.pending
  OBVIOUS
<1>2. PICK w \in Nat : w = Len(notes)
  BY LenProperties
<1>3. PICK f : f = Terminal!Flushing(t)
  OBVIOUS
<1>4. Flushed(f, t, w)
  BY <1>1, <1>2, <1>3, FlushingIsFlushed
<1>5. u = f[w]
  BY <1>1, <1>2, <1>3 DEF Terminal!FlushPending
<1> DEFINE Clean(v, n) ==
             /\ v \in Terminals /\ v.active = None /\ v.pending = <<>>
             /\ AnswersCounted(t, v) /\ AnswersShown(v)
             /\ Agrees(v, notes, n, ready, last)
           S == {n \in Nat : n <= w => Clean(f[n], n)}
<1>6. 0 \in S
  <2>1. PICK v : v = [t EXCEPT !.pending = <<>>]
    OBVIOUS
  <2>2. <<>> \in Seq(Events)
    BY EmptySeq
  <2>3. /\ v \in Terminals /\ v.active = None /\ v.pending = <<>>
        /\ v.stats = t.stats /\ v.screen = t.screen
    BY <2>1, <2>2 DEF Terminals
  <2>4. AnswersCounted(t, v) /\ AnswersShown(v) /\ Agrees(v, notes, 0, ready, last)
    BY <1>1, <2>3 DEF AnswersCounted, AnswersShown, Agrees
  <2>5. f[0] = v
    BY <1>4, <2>1 DEF Flushed
  <2> QED
    BY <2>3, <2>4, <2>5
<1>7. ASSUME NEW n \in Nat, n \in S
      PROVE  n + 1 \in S
  <2> SUFFICES ASSUME n + 1 <= w
               PROVE  Clean(f[n + 1], n + 1)
    OBVIOUS
  <2>1. n <= w /\ n + 1 \in 1..w /\ (n + 1) - 1 = n
    BY <1>2
  <2>2. PICK v : v = f[n]
    OBVIOUS
  <2>3. Clean(v, n)
    BY <1>7, <2>1, <2>2
  <2>4. PICK next : next = f[n + 1]
    OBVIOUS
  <2>5. next = Terminal!Again(v, notes[n + 1])
    <3> HIDE DEF Clean
    <3>1. f[n + 1] = Terminal!Again(f[(n + 1) - 1], t.pending[n + 1])
      BY <1>4, <2>1 DEF Flushed
    <3> QED
      BY <1>1, <2>1, <2>2, <2>4, <3>1
  <2>6. next = Terminal!RenderIdle(v, notes[n + 1])
    BY <2>3, <2>5 DEF Terminal!Again
  <2>7. /\ next \in Terminals /\ Unseen(v, next) /\ AnswersCounted(v, next) /\ AnswersShown(next)
        /\ Agrees(next, notes, n + 1, ready, last)
    BY <1>2, <2>3, <2>6, NextAgrees
  <2>8. Clean(next, n + 1)
    BY <2>3, <2>7 DEF Unseen, AnswersCounted
  <2> QED
    BY <2>4, <2>8
<1> HIDE DEF S
<1>8. w \in S
  BY <1>6, <1>7, Inductive
<1>9. Clean(u, w)
  BY <1>5, <1>8 DEF S
<1>10. Agrees(u, <<>>, 0, ready, last)
  BY <1>2, <1>9, AllAreShown
<1> QED
  BY <1>9, <1>10

-----------------------------------------------------------------------------
(* What each event does to the sink inside *)

\* What is told by the terminal of what happened
Told == {"ready", "started", "completed", "failed"}
Alike(hap, hap2, whats) ==
  \A what \in whats : \A r \in Requests : what \in hap2[r] <=> what \in hap[r]

LEMMA CountedAlike ==
  ASSUME NEW t, NEW hap, NEW hap2, Alike(hap, hap2, {"started", "completed", "failed"}),
         Counted(t, hap)
  PROVE  Counted(t, hap2)
<1>1. /\ Count(hap2, "started") = Count(hap, "started")
      /\ Count(hap2, "completed") = Count(hap, "completed")
      /\ Count(hap2, "failed") = Count(hap, "failed")
  <2>1. \A what \in {"started", "completed", "failed"} : \A r \in Requests :
          what \in hap2[r] <=> what \in hap[r]
    BY DEF Alike
  <2> QED
    BY <2>1, CountStays
<1> QED
  BY <1>1 DEF Counted

LEMMA ReadyAlike ==
  ASSUME NEW hap, NEW hap2, Alike(hap, hap2, {"ready"})
  PROVE  Ready(hap2) = Ready(hap)
BY DEF Alike, Ready

\* The events that the sinks pass over
LEMMA SilentIsTaken ==
  ASSUME NEW sink, NEW t, NEW e, e.kind \in Terminal!Silent
  PROVE  Take(sink, t, e) = t
<1>1. Terminal!Forward(t, e) = t
  BY DEF Terminal!Forward, Terminal!Silent
<1>2. Terminal!Render(t, e) = t
  <2>1. CASE t.active = None
    BY <2>1 DEF Terminal!Render, Terminal!RenderIdle
  <2>2. CASE t.active # None
    BY <2>2 DEF Terminal!Render, Terminal!Silent
  <2> QED
    BY <2>1, <2>2
<1> QED
  BY <1>1, <1>2 DEF Take

LEMMA SettledAlike ==
  ASSUME NEW sink, NEW t, NEW hap, NEW hap2, Alike(hap, hap2, Told),
         NEW current, NEW deltas, NEW last, Settled(sink, t, hap, current, deltas, last)
  PROVE  Settled(sink, t, hap2, current, deltas, last)
<1>1. Alike(hap, hap2, {"started", "completed", "failed"}) /\ Alike(hap, hap2, {"ready"})
  BY DEF Alike, Told
<1>2. Ready(hap2) = Ready(hap)
  BY <1>1, ReadyAlike
<1>3. Counted(t, hap2)
  BY <1>1, CountedAlike DEF Settled
<1> QED
  BY <1>2, <1>3 DEF Settled, TerminalSettled, OverlaySettled

\* A note comes, and is shown or waits for the end of the answer.
LEMMA NoteOnTerminal ==
  ASSUME NEW t \in Terminals, NEW e \in Notes, NEW hap, NEW hap2,
         Alike(hap, hap2, {"started", "completed", "failed"}),
         NEW last \in Nat, NEW last2 \in Nat, Comes(e, Ready(hap), Ready(hap2), last, last2),
         NEW current, NEW deltas, TerminalSettled(t, hap, current, deltas, last),
         Counted(t, hap), NEW u, u = Terminal!Render(t, e)
  PROVE  /\ u \in Terminals /\ Counted(u, hap2)
         /\ TerminalSettled(u, hap2, current, deltas, last2)
<1>1. PICK notes \in Seq(Notes) : notes = t.pending
  BY DEF TerminalSettled
<1>2. PICK more \in Seq(Notes) : more = Append(notes, e)
  BY AppendProperties
<1>3. Longer(notes, more, e)
  BY <1>2, AppendProperties DEF Longer
<1>4. PICK ready : ready = Ready(hap2)
  OBVIOUS
<1>5. PICK ready1 : ready1 = Ready(hap)
  OBVIOUS
<1>6. ready \subseteq Requests
  BY <1>4 DEF Ready
<1>7. Agrees(t, notes, 0, ready1, last) /\ Comes(e, ready1, ready, last, last2)
  BY <1>1, <1>4, <1>5 DEF TerminalSettled
<1>8. Agrees(t, more, 0, ready, last2)
  BY <1>3, <1>7, MoreAgrees
<1>9. Counted(t, hap2)
  BY CountedAlike
<1>10. CASE t.active = None
  <2>1. notes = <<>>
    BY <1>1, <1>10 DEF TerminalSettled
  <2>2. Len(more) = 1 /\ more[0 + 1] = e
    BY <1>2, <2>1
  <2>3. u = Terminal!RenderIdle(t, more[0 + 1])
    BY <1>10, <2>2 DEF Terminal!Render
  <2>4. AnswersShown(t) /\ current = None
    BY <1>10 DEF TerminalSettled
  <2>5. 0 + 1 <= Len(more)
    BY <2>2
  <2>6. /\ u \in Terminals /\ Unseen(t, u) /\ AnswersCounted(t, u) /\ AnswersShown(u)
        /\ Agrees(u, more, 0 + 1, ready, last2)
    BY <1>6, <1>8, <1>10, <2>3, <2>4, <2>5, NextAgrees
  <2>7. Agrees(u, more, Len(more), ready, last2)
    BY <2>2, <2>6
  <2>8. Agrees(u, <<>>, 0, ready, last2)
    BY <2>7, AllAreShown
  <2>9. u.active = None /\ u.pending = <<>> /\ <<>> \in Seq(Notes)
    BY <1>1, <1>10, <2>1, <2>6, EmptySeq DEF Unseen
  <2>10. Counted(u, hap2)
    BY <1>9, <2>6 DEF Counted, AnswersCounted
  <2> QED
    BY <1>4, <2>4, <2>6, <2>8, <2>9, <2>10 DEF TerminalSettled
<1>11. CASE t.active # None
  <2>1. e.kind \in NoteKinds /\ e \in Events
    BY DEF Notes
  <2>2. u = [t EXCEPT !.pending = more]
    BY <1>1, <1>2, <1>11, <2>1 DEF Terminal!Render, Terminal!Silent, NoteKinds, Terminals
  <2>3. more \in Seq(Events)
    <3>1. t.pending \in Seq(Events)
      BY DEF Terminals
    <3> QED
      BY <1>1, <1>2, <2>1, <3>1, AppendProperties
  <2>4. /\ u \in Terminals /\ u.pending = more /\ u.active = t.active /\ u.screen = t.screen
        /\ u.stats = t.stats
    BY <2>2, <2>3 DEF Terminals
  <2>5. Agrees(u, more, 0, ready, last2)
    BY <1>8, <2>4 DEF Agrees
  <2>6. AnswersShown(u)
    BY <2>4 DEF TerminalSettled, AnswersShown
  <2>7. Counted(u, hap2)
    BY <1>9, <2>4 DEF Counted
  <2> QED
    BY <1>4, <1>11, <2>4, <2>5, <2>6, <2>7 DEF TerminalSettled
<1> QED
  BY <1>10, <1>11

LEMMA NoteOnOverlay ==
  ASSUME NEW t \in Terminals, NEW e \in Notes, NEW hap, NEW hap2,
         Alike(hap, hap2, {"started", "completed", "failed"}),
         NEW last, NEW last2, Comes(e, Ready(hap), Ready(hap2), last, last2),
         OverlaySettled(t, hap), Counted(t, hap), NEW u, u = Terminal!Forward(t, e)
  PROVE  u \in Terminals /\ Counted(u, hap2) /\ OverlaySettled(u, hap2)
<1>1. Counted(t, hap2)
  BY CountedAlike
<1>2. PICK ready : ready = Ready(hap2)
  OBVIOUS
<1>3. PICK ready1 : ready1 = Ready(hap)
  OBVIOUS
<1>4. /\ ready1 \subseteq Requests /\ ready \subseteq Requests
      /\ \A r \in Requests : r \in ready <=> r \in ready1 \/ Asks(e, r)
      /\ \A r \in ready1 : ~Asks(e, r)
      /\ t.active = None /\ t.pending = <<>> /\ t.stats.transcripts = Cardinality(ready1)
  BY <1>2, <1>3 DEF Comes, OverlaySettled
<1>5. t.stats \in Stats /\ e \in Events /\ e.kind \in NoteKinds
  BY DEF Terminals, Notes
<1>6. CASE e.kind = "Transcript"
  <2>1. PICK r \in Requests : r = e.id
    BY <1>6, PlacesOfNotes
  <2>2. \A q \in Requests : Asks(e, q) <=> q = r
    BY <1>6, <2>1 DEF Asks
  <2>3. r \notin ready1 /\ ready = ready1 \cup {r}
    BY <1>4, <2>2
  <2>4. Cardinality(ready) = Cardinality(ready1) + 1
    BY <1>4, <2>3, OneMore
  <2>5. u = [t EXCEPT !.stats = [t.stats EXCEPT !.transcripts = @ + 1]]
    BY <1>6 DEF Terminal!Forward, Terminals
  <2>6. PICK stats : stats = [t.stats EXCEPT !.transcripts = @ + 1]
    OBVIOUS
  <2>7. /\ stats \in Stats /\ stats.started = t.stats.started /\ stats.failed = t.stats.failed
        /\ stats.completed = t.stats.completed /\ stats.transcripts = t.stats.transcripts + 1
    BY <1>5, <2>6 DEF Stats
  <2>8. u \in Terminals /\ u.stats = stats /\ Unseen(t, u)
    BY <2>5, <2>6, <2>7, StatsAre
  <2>9. Counted(u, hap2)
    BY <1>1, <2>7, <2>8 DEF Counted
  <2> QED
    BY <1>2, <1>4, <2>4, <2>7, <2>8, <2>9 DEF OverlaySettled, Unseen
<1>7. CASE e.kind # "Transcript"
  <2>1. \A q : ~Asks(e, q)
    BY <1>7 DEF Asks
  <2>2. ready = ready1
    BY <1>4, <2>1
  <2>3. CASE e.kind = "Status"
    <3>1. PICK stats : stats = [t.stats EXCEPT !.statuses = @ + 1]
      OBVIOUS
    <3>2. /\ stats \in Stats /\ stats.started = t.stats.started /\ stats.failed = t.stats.failed
          /\ stats.completed = t.stats.completed /\ stats.transcripts = t.stats.transcripts
      BY <1>5, <3>1 DEF Stats
    <3>3. u = [t EXCEPT !.stats = stats, !.stopped = e.stopped]
      BY <2>3, <3>1 DEF Terminal!Forward, Terminals
    <3>4. e.stopped \in BOOLEAN
      BY <1>5, <2>3 DEF Events
    <3>5. /\ u \in Terminals /\ u.stats = stats /\ u.active = t.active
          /\ u.pending = t.pending
      BY <3>2, <3>3, <3>4 DEF Terminals
    <3>6. Counted(u, hap2)
      BY <1>1, <3>2, <3>5 DEF Counted
    <3> QED
      BY <1>2, <1>4, <2>2, <3>2, <3>5, <3>6 DEF OverlaySettled
  <2>4. CASE e.kind # "Status"
    <3>1. u = t
      BY <1>5, <1>7, <2>4 DEF Terminal!Forward, NoteKinds
    <3> QED
      BY <1>1, <1>2, <1>4, <2>2, <3>1 DEF OverlaySettled
  <2> QED
    BY <2>3, <2>4
<1> QED
  BY <1>6, <1>7

LEMMA NoteFollows ==
  ASSUME NEW sink, NEW t \in Terminals, NEW e \in Notes, NEW hap, NEW hap2,
         Alike(hap, hap2, {"started", "completed", "failed"}),
         NEW last \in Nat, NEW last2 \in Nat, Comes(e, Ready(hap), Ready(hap2), last, last2),
         NEW current, NEW deltas, Settled(sink, t, hap, current, deltas, last),
         NEW u, u = Take(sink, t, e)
  PROVE  u \in Terminals /\ Settled(sink, u, hap2, current, deltas, last2)
<1>1. CASE sink = "terminal"
  <2>1. u = Terminal!Render(t, e)
    BY <1>1 DEF Take
  <2>2. TerminalSettled(t, hap, current, deltas, last) /\ Counted(t, hap)
    BY <1>1 DEF Settled
  <2>3. /\ u \in Terminals /\ Counted(u, hap2)
        /\ TerminalSettled(u, hap2, current, deltas, last2)
    BY <2>1, <2>2, NoteOnTerminal
  <2> QED
    BY <1>1, <2>3 DEF Settled
<1>2. CASE sink # "terminal"
  <2>1. u = Terminal!Forward(t, e)
    BY <1>2 DEF Take
  <2>2. OverlaySettled(t, hap) /\ Counted(t, hap)
    BY <1>2 DEF Settled
  <2>3. u \in Terminals /\ Counted(u, hap2) /\ OverlaySettled(u, hap2)
    BY <2>1, <2>2, NoteOnOverlay
  <2> QED
    BY <1>2, <2>3 DEF Settled
<1> QED
  BY <1>1, <1>2

-----------------------------------------------------------------------------
(* The answers on the screen *)

\* r was told to have what happened to it, and nothing else was.
Gains(hap, hap2, r, what) ==
  \A q \in Requests : \A w : w \in hap2[q] <=> w \in hap[q] \/ (q = r /\ w = what)

LEMMA GainsOne ==
  ASSUME NEW hap, NEW hap2, NEW r \in Requests, NEW what, Gains(hap, hap2, r, what),
         what \notin hap[r]
  PROVE  Count(hap2, what) = Count(hap, what) + 1
<1>1. what \in hap2[r] /\ \A q \in Requests : q # r => (what \in hap2[q] <=> what \in hap[q])
  BY DEF Gains
<1> QED
  BY <1>1, CountIs

LEMMA GainsNoOther ==
  ASSUME NEW hap, NEW hap2, NEW r, NEW what, Gains(hap, hap2, r, what), NEW other, other # what
  PROVE  Count(hap2, other) = Count(hap, other)
<1>1. \A q \in Requests : other \in hap2[q] <=> other \in hap[q]
  BY DEF Gains
<1> QED
  BY <1>1, CountStays

LEMMA GainsNotReady ==
  ASSUME NEW hap, NEW hap2, NEW r, NEW what, Gains(hap, hap2, r, what), what # "ready"
  PROVE  Ready(hap2) = Ready(hap)
<1>1. \A q \in Requests : "ready" \in hap2[q] <=> "ready" \in hap[q]
  BY DEF Gains
<1> QED
  BY <1>1 DEF Ready

\* The blocks of the notes are the same: their places, and the questions.
SameNotes(a, b) ==
  /\ Len(b) = Len(a)
  /\ \A i \in 1..Len(a) :
       b[i].what = a[i].what /\ b[i].id = a[i].id /\ b[i].place = a[i].place

LEMMA SameNotesAgree ==
  ASSUME NEW t, t.screen \in Seq(Blocks), NEW u, SameNotes(t.screen, u.screen),
         u.stats.transcripts = t.stats.transcripts,
         NEW notes, NEW n, NEW ready, NEW last, Agrees(t, notes, n, ready, last)
  PROVE  Agrees(u, notes, n, ready, last)
<1>1. PICK l \in Nat : l = Len(t.screen)
  BY LenProperties
<1>2. Len(u.screen) = l /\ \A i \in 1..l : u.screen[i].place = t.screen[i].place
  BY <1>1 DEF SameNotes
<1>3. ScreenInOrder(u.screen)
  <2>1. \A i \in 1..l : t.screen[i].place > 0 =>
          /\ \A j \in 1..(i - 1) : t.screen[j].place # t.screen[i].place
          /\ \/ t.screen[i].place = 1
             \/ \E j \in 1..(i - 1) : t.screen[j].place = t.screen[i].place - 1
    BY <1>1 DEF Agrees, ScreenInOrder
  <2>2. ASSUME NEW i \in 1..l, u.screen[i].place > 0
        PROVE  /\ \A j \in 1..(i - 1) : u.screen[j].place # u.screen[i].place
               /\ \/ u.screen[i].place = 1
                  \/ \E j \in 1..(i - 1) : u.screen[j].place = u.screen[i].place - 1
    <3>1. \A j \in 1..(i - 1) : j \in 1..l
      OBVIOUS
    <3> QED
      BY <1>2, <2>1, <2>2, <3>1
  <2> QED
    BY <1>2, <2>2 DEF ScreenInOrder
<1>4. WaitInOrder(u.screen, notes, n)
  BY <1>1, <1>2 DEF Agrees, WaitInOrder
<1>5. AllPlaced(u.screen, notes, n, last)
  BY <1>1, <1>2 DEF Agrees, AllPlaced
<1>6. \A i \in 1..l : \A r : Shows(u.screen[i], r) <=> Shows(t.screen[i], r)
  BY <1>1 DEF SameNotes, Shows
<1>7. AllAsked(u.screen, notes, n, ready)
  BY <1>1, <1>2, <1>6 DEF Agrees, AllAsked
<1> QED
  BY <1>3, <1>4, <1>5, <1>7 DEF Agrees

\* An answer has no place: it comes below the notes, with nothing that waits.
LEMMA AnswerBelowNotes ==
  ASSUME NEW t \in Terminals, NEW u \in Terminals, NEW b, Longer(t.screen, u.screen, b),
         b.place = 0, u.stats.transcripts = t.stats.transcripts,
         NEW ready, NEW last \in Nat, Agrees(t, <<>>, 0, ready, last)
  PROVE  Agrees(u, <<>>, 0, ready, last)
<1>0. t.screen \in Seq(Blocks)
  BY DEF Terminals
<1>1. PICK l \in Nat : l = Len(t.screen)
  BY <1>0, LenProperties
<1>2. /\ Len(u.screen) = l + 1 /\ u.screen[l + 1].place = 0
      /\ \A i \in 1..l : u.screen[i] = t.screen[i]
  BY <1>1 DEF Longer
<1>3. /\ Len(<<>>) = 0 /\ \A i : ~(i \in (0 + 1)..0)
      /\ \A i \in 1..(l + 1) : i \in 1..l \/ i = l + 1
      /\ \A i \in 1..l : i \in 1..(l + 1) /\ \A j \in 1..(i - 1) : j \in 1..l
  OBVIOUS
<1>4. ScreenInOrder(u.screen)
  <2>1. ASSUME NEW i \in 1..(l + 1), u.screen[i].place > 0
        PROVE  /\ \A j \in 1..(i - 1) : u.screen[j].place # u.screen[i].place
               /\ \/ u.screen[i].place = 1
                  \/ \E j \in 1..(i - 1) : u.screen[j].place = u.screen[i].place - 1
    <3>1. i \in 1..l
      BY <1>2, <2>1
    <3>2. t.screen[i].place > 0
      BY <1>2, <2>1, <3>1
    <3>3. /\ \A j \in 1..(i - 1) : t.screen[j].place # t.screen[i].place
          /\ \/ t.screen[i].place = 1
             \/ \E j \in 1..(i - 1) : t.screen[j].place = t.screen[i].place - 1
      BY <1>1, <3>1, <3>2 DEF Agrees, ScreenInOrder
    <3> QED
      BY <1>2, <1>3, <3>1, <3>3
  <2> QED
    BY <1>2, <2>1 DEF ScreenInOrder
<1>5. WaitInOrder(u.screen, <<>>, 0)
  BY <1>3 DEF WaitInOrder
<1>6. AllPlaced(u.screen, <<>>, 0, last)
  <2>1. /\ \A k \in 1..last : \E i \in 1..l : t.screen[i].place = k
        /\ \A i \in 1..l : t.screen[i].place <= last
    BY <1>1, <1>3 DEF Agrees, AllPlaced
  <2>2. ASSUME NEW i \in 1..(l + 1)
        PROVE  u.screen[i].place <= last
    <3>1. CASE i \in 1..l
      BY <1>2, <2>1, <3>1
    <3>2. CASE i = l + 1
      <4>1. 0 <= last
        OBVIOUS
      <4> QED
        BY <1>2, <3>2, <4>1
    <3> QED
      BY <1>3, <3>1, <3>2
  <2>3. \A k \in 1..last : \E i \in 1..(l + 1) : u.screen[i].place = k
    BY <1>2, <1>3, <2>1
  <2> QED
    BY <1>2, <1>3, <2>2, <2>3 DEF AllPlaced
<1>7. AllAsked(u.screen, <<>>, 0, ready)
  <2>1. \A r \in ready : \E i \in 1..l : Shows(t.screen[i], r)
    BY <1>1, <1>3 DEF Agrees, AllAsked, Waits
  <2>2. \A r \in ready : \E i \in 1..(l + 1) : Shows(u.screen[i], r)
    BY <1>2, <1>3, <2>1
  <2> QED
    BY <1>2, <1>3, <2>2 DEF AllAsked, Waits
<1> QED
  BY <1>4, <1>5, <1>6, <1>7 DEF Agrees

LEMMA StartOnTerminal ==
  ASSUME NEW t \in Terminals, NEW r \in Requests, NEW e, e.kind = "AnswerStarted", e.id = r,
         NEW hap, NEW hap2, Gains(hap, hap2, r, "started"), "started" \notin hap[r],
         r \in Ready(hap), NEW deltas, NEW last \in Nat, Counted(t, hap),
         TerminalSettled(t, hap, None, deltas, last), NEW u, u = Terminal!Render(t, e)
  PROVE  u \in Terminals /\ Counted(u, hap2) /\ TerminalSettled(u, hap2, r, 0, last)
<1>1. /\ t.active = None /\ t.pending = <<>> /\ Agrees(t, <<>>, 0, Ready(hap), last)
      /\ AnswersShown(t)
  BY DEF TerminalSettled
<1>2. PICK b : b = [what |-> "answer", id |-> r, place |-> 0, deltas |-> <<>>, end |-> "open"]
  OBVIOUS
<1>3. b \in Blocks
  BY <1>2, RequestsAre, EmptyIsDeltas DEF Blocks
<1>4. t.stats \in Stats /\ t.screen \in Seq(Blocks)
  BY DEF Terminals
<1>5. PICK stats : stats = [t.stats EXCEPT !.started = @ + 1]
  OBVIOUS
<1>6. /\ stats \in Stats /\ stats.started = t.stats.started + 1
      /\ stats.failed = t.stats.failed /\ stats.completed = t.stats.completed
      /\ stats.transcripts = t.stats.transcripts
  BY <1>4, <1>5 DEF Stats
<1>7. PICK v : v = [t EXCEPT !.active = r, !.stats = stats]
  OBVIOUS
<1>8. /\ v \in Terminals /\ v.active = r /\ v.stats = stats /\ v.screen = t.screen
      /\ v.pending = t.pending
  BY <1>6, <1>7, RequestsAre DEF Terminals
<1>9. u = Terminal!Shown(v, b)
  <2>1. v = [t EXCEPT !.active = r, !.stats.started = @ + 1]
    BY <1>5, <1>7 DEF Terminals
  <2>2. b = Terminal!Block("answer", r, 0)
    BY <1>2 DEF Terminal!Block
  <2>3. u = Terminal!Begin(t, r)
    BY <1>1 DEF Terminal!Render, Terminal!RenderIdle, Terminal!RenderPassive, Terminal!Silent
  <2> QED
    BY <2>1, <2>2, <2>3 DEF Terminal!Begin
<1>10. u \in Terminals /\ Longer(v.screen, u.screen, b) /\ Unseen(v, u) /\ u.stats = v.stats
  BY <1>3, <1>8, <1>9, ShownIs
<1>11. Longer(t.screen, u.screen, b) /\ u.active = r /\ u.pending = <<>> /\ u.stats = stats
  BY <1>1, <1>8, <1>10 DEF Unseen
<1>12. PICK ready : ready = Ready(hap)
  OBVIOUS
<1>13. Agrees(t, <<>>, 0, ready, last) /\ r \in ready
  BY <1>1, <1>12
<1>14. Agrees(u, <<>>, 0, ready, last)
  BY <1>2, <1>6, <1>10, <1>11, <1>13, AnswerBelowNotes
<1>15. PICK l \in Nat : l = Len(t.screen)
  BY <1>4, LenProperties
<1>16. /\ Len(u.screen) = l + 1 /\ u.screen[l + 1] = b
       /\ \A i \in 1..l : u.screen[i] = t.screen[i]
  BY <1>11, <1>15 DEF Longer
<1>17. AnswersShown(u)
  <2>1. ASSUME NEW i \in 1..(l + 1), u.screen[i].what = "answer"
        PROVE  /\ u.screen[i].deltas = UpTo(Len(u.screen[i].deltas))
               /\ u.screen[i].end = "open" <=> (i = l + 1 /\ u.active = u.screen[i].id)
               /\ u.screen[i].id \in Requests
               /\ \E j \in 1..(i - 1) : Shows(u.screen[j], u.screen[i].id)
    <3>1. \A j \in 1..(i - 1) : j \in 1..l
      OBVIOUS
    <3>2. CASE i \in 1..l
      <4>1. i # l + 1 /\ u.screen[i] = t.screen[i]
        BY <1>16, <3>2
      <4>2. /\ t.screen[i].deltas = UpTo(Len(t.screen[i].deltas))
            /\ t.screen[i].end = "open" <=> (i = l /\ t.active = t.screen[i].id)
            /\ t.screen[i].id \in Requests
            /\ \E j \in 1..(i - 1) : Shows(t.screen[j], t.screen[i].id)
        BY <1>1, <1>15, <2>1, <3>2, <4>1 DEF AnswersShown
      <4>3. t.screen[i].end # "open"
        BY <1>1, <4>2, RequestsAre
      <4> QED
        BY <1>16, <3>1, <4>1, <4>2, <4>3
    <3>3. CASE i = l + 1
      <4>1. u.screen[i] = b
        BY <1>16, <3>3
      <4>2. \E j \in 1..l : Shows(t.screen[j], r)
        <5>1. \A k : ~(k \in (0 + 1)..0)
          OBVIOUS
        <5>2. ~Waits(<<>>, 0, r)
          BY <5>1 DEF Waits
        <5> QED
          BY <1>13, <1>15, <5>2 DEF Agrees, AllAsked
      <4>3. \E j \in 1..(i - 1) : Shows(u.screen[j], r)
        BY <1>16, <3>3, <4>2
      <4>4. b.deltas = UpTo(Len(b.deltas))
        BY <1>2, UpToIs
      <4> QED
        BY <1>2, <1>11, <3>3, <4>1, <4>3, <4>4
    <3> QED
      BY <3>2, <3>3
  <2> QED
    BY <1>16, <2>1 DEF AnswersShown
<1>18. Counted(u, hap2) /\ Ready(hap2) = ready
  <2>1. Count(hap2, "started") = Count(hap, "started") + 1
    BY GainsOne
  <2>2. /\ Count(hap2, "completed") = Count(hap, "completed")
        /\ Count(hap2, "failed") = Count(hap, "failed")
    BY GainsNoOther
  <2>3. Ready(hap2) = Ready(hap)
    BY GainsNotReady
  <2> QED
    BY <1>6, <1>11, <1>12, <2>1, <2>2, <2>3 DEF Counted
<1>19. /\ Len(u.screen) > 0 /\ u.screen[Len(u.screen)].what = "answer"
       /\ u.screen[Len(u.screen)].id = r /\ u.screen[Len(u.screen)].deltas = UpTo(0)
  <2>1. UpTo(0) = <<>>
    BY UpToIs
  <2>2. u.screen[Len(u.screen)] = b /\ l + 1 > 0
    BY <1>16
  <2> QED
    BY <1>2, <1>16, <2>1, <2>2
<1>20. u.pending \in Seq(Notes)
  BY <1>11, EmptySeq
<1> QED
  BY <1>10, <1>11, <1>14, <1>17, <1>18, <1>19, <1>20, RequestsAre DEF TerminalSettled

\* A delta is added to the open answer.
LEMMA DeltaOnTerminal ==
  ASSUME NEW t \in Terminals, NEW r \in Requests, NEW e, e.kind = "AnswerDelta", e.id = r,
         NEW hap, NEW deltas \in Nat, e.delta = deltas + 1, NEW last,
         Counted(t, hap), TerminalSettled(t, hap, r, deltas, last),
         NEW u, u = Terminal!Render(t, e)
  PROVE  u \in Terminals /\ Counted(u, hap) /\ TerminalSettled(u, hap, r, deltas + 1, last)
<1>1. /\ t.active = r /\ t.pending \in Seq(Notes) /\ Agrees(t, t.pending, 0, Ready(hap), last)
      /\ AnswersShown(t) /\ r # None /\ Len(t.screen) > 0
      /\ t.screen[Len(t.screen)].what = "answer" /\ t.screen[Len(t.screen)].id = r
      /\ t.screen[Len(t.screen)].deltas = UpTo(deltas)
  BY RequestsAre DEF TerminalSettled
<1>2. PICK screen \in Seq(Blocks) : screen = t.screen
  BY DEF Terminals
<1>3. PICK l \in Nat : l = Len(screen)
  BY LenProperties
<1>4. l \in 1..l
  BY <1>1, <1>2, <1>3
<1>5. PICK b \in Blocks : b = screen[l]
  BY <1>3, <1>4, ElementOfSeq
<1>6. b.what = "answer" /\ b.id = r /\ b.deltas = UpTo(deltas)
  BY <1>1, <1>2, <1>3, <1>5
<1>7. PICK c : c = [b EXCEPT !.deltas = UpTo(deltas + 1)]
  OBVIOUS
<1>8. UpTo(deltas + 1) \in Seq(Nat) /\ Len(UpTo(deltas + 1)) = deltas + 1
  <2>1. deltas + 1 \in Nat
    OBVIOUS
  <2> QED
    BY <2>1, UpToIs
<1>9. /\ c \in Blocks /\ c.what = "answer" /\ c.id = r /\ c.deltas = UpTo(deltas + 1)
      /\ c.place = b.place /\ c.end = b.end
  BY <1>6, <1>7, <1>8 DEF Blocks
<1>10. PICK new : new = [screen EXCEPT ![l] = c]
  OBVIOUS
<1>11. /\ new \in Seq(Blocks) /\ Len(new) = l /\ new[l] = c
       /\ \A i \in 1..l : i # l => new[i] = screen[i]
  BY <1>3, <1>4, <1>9, <1>10, ExceptSeq
<1>12. u = [t EXCEPT !.screen = new]
  <2>1. e.kind \notin Terminal!Silent
    BY DEF Terminal!Silent
  <2>2. u = Terminal!Streamed(t, deltas + 1)
    BY <1>1, <2>1 DEF Terminal!Render
  <2>3. Append(UpTo(deltas), deltas + 1) = UpTo(deltas + 1)
    BY UpToIs
  <2>4. c = [b EXCEPT !.deltas = Append(@, deltas + 1)]
    BY <1>6, <1>7, <2>3 DEF Blocks
  <2>5. new = [screen EXCEPT ![l].deltas = Append(@, deltas + 1)]
    BY <1>3, <1>4, <1>5, <1>10, <2>4 DEF Blocks
  <2> QED
    BY <1>2, <1>3, <2>2, <2>5 DEF Terminal!Streamed, Terminals
<1>13. /\ u \in Terminals /\ u.screen = new /\ u.active = t.active /\ u.pending = t.pending
       /\ u.stats = t.stats
  BY <1>11, <1>12 DEF Terminals
<1>14. SameNotes(screen, new)
  BY <1>3, <1>5, <1>6, <1>9, <1>11 DEF SameNotes
<1>15. Agrees(u, t.pending, 0, Ready(hap), last)
  BY <1>1, <1>2, <1>13, <1>14, SameNotesAgree
<1>16. AnswersShown(u)
  <2>1. ASSUME NEW i \in 1..l, new[i].what = "answer"
        PROVE  /\ new[i].deltas = UpTo(Len(new[i].deltas))
               /\ new[i].end = "open" <=> (i = l /\ u.active = new[i].id)
               /\ new[i].id \in Requests
               /\ \E j \in 1..(i - 1) : Shows(new[j], new[i].id)
    <3>1. \A j \in 1..(i - 1) : j \in 1..l
      OBVIOUS
    <3>2. screen[i].what = "answer" /\ new[i].id = screen[i].id /\ new[i].end = screen[i].end
      BY <1>3, <1>5, <1>6, <1>9, <1>11, <2>1
    <3>3. /\ screen[i].deltas = UpTo(Len(screen[i].deltas))
          /\ screen[i].end = "open" <=> (i = l /\ t.active = screen[i].id)
          /\ screen[i].id \in Requests
          /\ \E j \in 1..(i - 1) : Shows(screen[j], screen[i].id)
      BY <1>1, <1>2, <1>3, <3>2 DEF AnswersShown
    <3>4. \A j \in 1..(i - 1) : Shows(screen[j], screen[i].id) => Shows(new[j], new[i].id)
      BY <1>11, <3>2
    <3>5. new[i].deltas = UpTo(Len(new[i].deltas))
      <4>1. Len(c.deltas) = deltas + 1
        BY <1>8, <1>9
      <4>2. CASE i = l
        BY <1>9, <1>11, <4>1, <4>2
      <4>3. CASE i # l
        BY <1>11, <3>3, <4>3
      <4> QED
        BY <4>2, <4>3
    <3> QED
      BY <1>13, <3>2, <3>3, <3>4, <3>5
  <2> QED
    BY <1>11, <1>13, <2>1 DEF AnswersShown
<1>17. Counted(u, hap)
  BY <1>13 DEF Counted
<1>18. u.screen[Len(u.screen)] = c /\ Len(u.screen) > 0
  BY <1>4, <1>11, <1>13
<1> QED
  BY <1>1, <1>9, <1>13, <1>15, <1>16, <1>17, <1>18 DEF TerminalSettled

\* How an answer ends, by the kind of the event
EndOf(e) == IF e.kind = "AnswerCompleted" THEN "completed" ELSE "failed"
Ends(e, r) == (e.kind = "AnswerCompleted" /\ e.id = r) \/ e.kind = "LlmError"

\* The open answer of t is closed, and counted.
Closed(t, v, stats, ready, last) ==
  /\ v \in Terminals /\ v.active = None /\ v.stats = stats /\ v.pending = t.pending
  /\ Agrees(v, v.pending, 0, ready, last) /\ AnswersShown(v)

LEMMA ClosedIs ==
  ASSUME NEW t \in Terminals, NEW r \in Requests, NEW hap, NEW deltas, NEW last,
         TerminalSettled(t, hap, r, deltas, last), NEW how, how \in {"completed", "failed"},
         NEW stats \in Stats, stats.transcripts = t.stats.transcripts,
         NEW w, w = Terminal!End(t, how), NEW v, v = [w EXCEPT !.stats = stats]
  PROVE  Closed(t, v, stats, Ready(hap), last)
<1>1. /\ t.active = r /\ t.pending \in Seq(Notes) /\ Agrees(t, t.pending, 0, Ready(hap), last)
      /\ AnswersShown(t) /\ r # None /\ Len(t.screen) > 0
      /\ t.screen[Len(t.screen)].what = "answer" /\ t.screen[Len(t.screen)].id = r
  BY RequestsAre DEF TerminalSettled
<1>2. PICK screen \in Seq(Blocks) : screen = t.screen
  BY DEF Terminals
<1>3. PICK l \in Nat : l = Len(screen)
  BY LenProperties
<1>4. l \in 1..l
  BY <1>1, <1>2, <1>3
<1>5. PICK b \in Blocks : b = screen[l]
  BY <1>3, <1>4, ElementOfSeq
<1>6. PICK c : c = [b EXCEPT !.end = how]
  OBVIOUS
<1>7. /\ c \in Blocks /\ c.what = b.what /\ c.id = b.id /\ c.deltas = b.deltas
      /\ c.place = b.place /\ c.end = how
  BY <1>6 DEF Blocks
<1>8. PICK new : new = [screen EXCEPT ![l] = c]
  OBVIOUS
<1>9. /\ new \in Seq(Blocks) /\ Len(new) = l /\ new[l] = c
      /\ \A i \in 1..l : i # l => new[i] = screen[i]
  BY <1>3, <1>4, <1>7, <1>8, ExceptSeq
<1>10. v = [t EXCEPT !.active = None, !.screen = new, !.stats = stats]
  <2>1. new = [screen EXCEPT ![l].end = how]
    BY <1>3, <1>4, <1>5, <1>6, <1>8 DEF Blocks
  <2>2. w = [t EXCEPT !.active = None, !.screen = new]
    BY <1>2, <1>3, <2>1 DEF Terminal!End, Terminals
  <2> QED
    BY <2>2 DEF Terminals
<1>11. /\ v \in Terminals /\ v.screen = new /\ v.active = None /\ v.pending = t.pending
       /\ v.stats = stats
  <2>1. None \in Owners
    BY DEF Owners
  <2> QED
    BY <1>9, <1>10, <2>1 DEF Terminals
<1>12. SameNotes(screen, new)
  BY <1>3, <1>5, <1>7, <1>9 DEF SameNotes
<1>13. Agrees(v, t.pending, 0, Ready(hap), last)
  BY <1>1, <1>2, <1>11, <1>12, SameNotesAgree
<1>14. ASSUME NEW i \in 1..l, new[i].what = "answer"
       PROVE  /\ new[i].deltas = UpTo(Len(new[i].deltas))
              /\ new[i].end = "open" <=> (i = l /\ v.active = new[i].id)
              /\ new[i].id \in Requests
              /\ \E j \in 1..(i - 1) : Shows(new[j], new[i].id)
  <2>1. \A j \in 1..(i - 1) : j \in 1..l /\ j # l
    OBVIOUS
  <2>2. /\ screen[i].what = "answer" /\ new[i].id = screen[i].id
        /\ new[i].deltas = screen[i].deltas
        /\ new[i].end = IF i = l THEN how ELSE screen[i].end
    BY <1>3, <1>5, <1>7, <1>9, <1>14
  <2>3. /\ screen[i].deltas = UpTo(Len(screen[i].deltas))
        /\ screen[i].end = "open" <=> (i = l /\ t.active = screen[i].id)
        /\ screen[i].id \in Requests
        /\ \E j \in 1..(i - 1) : Shows(screen[j], screen[i].id)
    BY <1>1, <1>2, <1>3, <2>2 DEF AnswersShown
  <2>4. \A j \in 1..(i - 1) : Shows(screen[j], screen[i].id) => Shows(new[j], new[i].id)
    BY <1>9, <2>1, <2>2
  <2>5. new[i].end # "open" /\ v.active # new[i].id
    BY <1>11, <2>2, <2>3, RequestsAre
  <2> QED
    BY <2>2, <2>3, <2>4, <2>5
<1>15. AnswersShown(v)
  <2>1. v.screen = new /\ Len(new) = l
    BY <1>9, <1>11
  <2> QED
    BY <1>14, <2>1 DEF AnswersShown
<1> QED
  BY <1>11, <1>13, <1>15 DEF Closed

\* The answer ends, and the notes that waited are shown.
LEMMA EndOnTerminal ==
  ASSUME NEW t \in Terminals, NEW r \in Requests, NEW e, Ends(e, r),
         NEW hap, NEW hap2, Gains(hap, hap2, r, EndOf(e)), EndOf(e) \notin hap[r],
         NEW deltas, NEW deltas2, NEW last \in Nat, Counted(t, hap),
         TerminalSettled(t, hap, r, deltas, last), NEW u, u = Terminal!Render(t, e)
  PROVE  u \in Terminals /\ Counted(u, hap2) /\ TerminalSettled(u, hap2, None, deltas2, last)
<1>1. t.active = r /\ r # None /\ t.pending \in Seq(Notes)
  BY RequestsAre DEF TerminalSettled
<1>2. PICK how \in {"completed", "failed"} : how = EndOf(e)
  BY DEF EndOf
<1>3. t.stats \in Stats
  BY DEF Terminals
<1>4. PICK stats : stats = IF how = "completed" THEN [t.stats EXCEPT !.completed = @ + 1]
                                               ELSE [t.stats EXCEPT !.failed = @ + 1]
  OBVIOUS
<1>5. /\ stats \in Stats /\ stats.transcripts = t.stats.transcripts
      /\ stats.started = t.stats.started
      /\ how = "completed" => /\ stats.completed = t.stats.completed + 1
                              /\ stats.failed = t.stats.failed
      /\ how = "failed" => /\ stats.failed = t.stats.failed + 1
                           /\ stats.completed = t.stats.completed
  BY <1>3, <1>4 DEF Stats
<1>6. PICK w : w = Terminal!End(t, how)
  OBVIOUS
<1>7. PICK v : v = [w EXCEPT !.stats = stats]
  OBVIOUS
<1>8. u = Terminal!FlushPending(v)
  <2>1. w = Terminal!End(t, how)
    BY <1>6
  <2>2. w.stats = t.stats
    BY <2>1 DEF Terminal!End, Terminals
  <2>3. v = IF how = "completed" THEN [w EXCEPT !.stats.completed = @ + 1]
                                ELSE [w EXCEPT !.stats.failed = @ + 1]
    BY <1>4, <1>7, <2>1, <2>2
  <2>4. CASE e.kind = "AnswerCompleted"
    <3>1. e.id = r /\ how = "completed"
      BY <1>2, <2>4 DEF Ends, EndOf
    <3> QED
      BY <1>1, <2>1, <2>3, <2>4, <3>1 DEF Terminal!Render, Terminal!Silent
  <2>5. CASE e.kind # "AnswerCompleted"
    <3>1. e.kind = "LlmError" /\ how = "failed"
      BY <1>2, <2>5 DEF Ends, EndOf
    <3> QED
      BY <1>1, <2>1, <2>3, <3>1 DEF Terminal!Render, Terminal!Silent
  <2> QED
    BY <2>4, <2>5
<1>9. PICK ready : ready = Ready(hap)
  OBVIOUS
<1>10. /\ v \in Terminals /\ v.active = None /\ v.stats = stats /\ v.pending = t.pending
      /\ Agrees(v, v.pending, 0, ready, last) /\ AnswersShown(v)
  <2>1. Closed(t, v, stats, Ready(hap), last)
    <3>1. stats \in Stats /\ stats.transcripts = t.stats.transcripts
      BY <1>5
    <3> QED
      BY <1>7, <1>6, <3>1, ClosedIs
  <2> QED
    BY <1>9, <2>1 DEF Closed
<1>11. ready \subseteq Requests /\ v.pending \in Seq(Notes)
  BY <1>1, <1>9, <1>10 DEF Ready
<1>12. /\ u \in Terminals /\ u.active = None /\ u.pending = <<>>
       /\ AnswersCounted(v, u) /\ AnswersShown(u) /\ Agrees(u, <<>>, 0, ready, last)
  BY <1>8, <1>10, <1>11, FlushIs
<1>13. Gains(hap, hap2, r, how) /\ how \notin hap[r]
  BY <1>2
<1>14. Count(hap2, how) = Count(hap, how) + 1
  BY <1>13, GainsOne
<1>15. Ready(hap2) = ready
  <2>1. how # "ready"
    OBVIOUS
  <2> QED
    BY <1>9, <1>13, <2>1, GainsNotReady
<1>16. Counted(u, hap2)
  <2>1. Count(hap2, "started") = Count(hap, "started")
    <3>1. "started" # how
      OBVIOUS
    <3> QED
      BY <1>13, <3>1, GainsNoOther
  <2>2. CASE how = "completed"
    <3>1. Count(hap2, "failed") = Count(hap, "failed")
      <4>1. "failed" # how
        BY <2>2
      <4> QED
        BY <1>13, <4>1, GainsNoOther
    <3> QED
      BY <1>5, <1>10, <1>12, <1>14, <2>1, <2>2, <3>1 DEF Counted, AnswersCounted
  <2>3. CASE how = "failed"
    <3>1. Count(hap2, "completed") = Count(hap, "completed")
      <4>1. "completed" # how
        BY <2>3
      <4> QED
        BY <1>13, <4>1, GainsNoOther
    <3> QED
      BY <1>5, <1>10, <1>12, <1>14, <2>1, <2>3, <3>1 DEF Counted, AnswersCounted
  <2> QED
    BY <2>2, <2>3
<1>17. u.pending \in Seq(Notes)
  BY <1>12, EmptySeq
<1> QED
  BY <1>12, <1>15, <1>16, <1>17 DEF TerminalSettled

-----------------------------------------------------------------------------
(* The answers, as either sink takes them *)

LEMMA StartFollows ==
  ASSUME NEW sink, NEW t \in Terminals, NEW r \in Requests, NEW e, e.kind = "AnswerStarted",
         e.id = r, NEW hap, NEW hap2, Gains(hap, hap2, r, "started"), "started" \notin hap[r],
         r \in Ready(hap), NEW deltas, NEW last \in Nat,
         Settled(sink, t, hap, None, deltas, last), NEW u, u = Take(sink, t, e)
  PROVE  u \in Terminals /\ Settled(sink, u, hap2, r, 0, last)
<1>1. CASE sink = "terminal"
  <2>1. u = Terminal!Render(t, e)
    BY <1>1 DEF Take
  <2>2. TerminalSettled(t, hap, None, deltas, last) /\ Counted(t, hap)
    BY <1>1 DEF Settled
  <2>3. u \in Terminals /\ Counted(u, hap2) /\ TerminalSettled(u, hap2, r, 0, last)
    BY <2>1, <2>2, StartOnTerminal
  <2> QED
    BY <1>1, <2>3 DEF Settled
<1>2. CASE sink # "terminal"
  <2>1. u = [t EXCEPT !.stats = [t.stats EXCEPT !.started = @ + 1]]
    BY <1>2 DEF Take, Terminal!Forward, Terminals
  <2>2. t.stats \in Stats
    BY DEF Terminals
  <2>3. PICK stats : stats = [t.stats EXCEPT !.started = @ + 1]
    OBVIOUS
  <2>4. /\ stats \in Stats /\ stats.started = t.stats.started + 1
        /\ stats.failed = t.stats.failed /\ stats.completed = t.stats.completed
        /\ stats.transcripts = t.stats.transcripts
    BY <2>2, <2>3 DEF Stats
  <2>5. u \in Terminals /\ u.stats = stats /\ Unseen(t, u)
    BY <2>1, <2>3, <2>4, StatsAre
  <2>6. Count(hap2, "started") = Count(hap, "started") + 1
    BY GainsOne
  <2>7. /\ Count(hap2, "completed") = Count(hap, "completed")
        /\ Count(hap2, "failed") = Count(hap, "failed")
    BY GainsNoOther
  <2>8. Ready(hap2) = Ready(hap)
    BY GainsNotReady
  <2> QED
    BY <1>2, <2>4, <2>5, <2>6, <2>7, <2>8 DEF Settled, Counted, OverlaySettled, Unseen
<1> QED
  BY <1>1, <1>2

LEMMA DeltaFollows ==
  ASSUME NEW sink, NEW t \in Terminals, NEW r \in Requests, NEW e, e.kind = "AnswerDelta",
         e.id = r, NEW hap, NEW deltas \in Nat, e.delta = deltas + 1, NEW last,
         Settled(sink, t, hap, r, deltas, last), NEW u, u = Take(sink, t, e)
  PROVE  u \in Terminals /\ Settled(sink, u, hap, r, deltas + 1, last)
<1>1. CASE sink = "terminal"
  <2>1. u = Terminal!Render(t, e)
    BY <1>1 DEF Take
  <2>2. TerminalSettled(t, hap, r, deltas, last) /\ Counted(t, hap)
    BY <1>1 DEF Settled
  <2>3. u \in Terminals /\ Counted(u, hap) /\ TerminalSettled(u, hap, r, deltas + 1, last)
    BY <2>1, <2>2, DeltaOnTerminal
  <2> QED
    BY <1>1, <2>3 DEF Settled
<1>2. CASE sink # "terminal"
  <2>1. u = t
    BY <1>2 DEF Take, Terminal!Forward
  <2> QED
    BY <1>2, <2>1 DEF Settled
<1> QED
  BY <1>1, <1>2

LEMMA EndFollows ==
  ASSUME NEW sink, NEW t \in Terminals, NEW r \in Requests, NEW e, Ends(e, r),
         NEW hap, NEW hap2, Gains(hap, hap2, r, EndOf(e)), EndOf(e) \notin hap[r],
         NEW deltas, NEW deltas2, NEW last \in Nat, Settled(sink, t, hap, r, deltas, last),
         NEW u, u = Take(sink, t, e)
  PROVE  u \in Terminals /\ Settled(sink, u, hap2, None, deltas2, last)
<1>1. CASE sink = "terminal"
  <2>1. u = Terminal!Render(t, e)
    BY <1>1 DEF Take
  <2>2. TerminalSettled(t, hap, r, deltas, last) /\ Counted(t, hap)
    BY <1>1 DEF Settled
  <2>3. u \in Terminals /\ Counted(u, hap2) /\ TerminalSettled(u, hap2, None, deltas2, last)
    BY <2>1, <2>2, EndOnTerminal
  <2> QED
    BY <1>1, <2>3 DEF Settled
<1>2. CASE sink # "terminal"
  <2>1. PICK how \in {"completed", "failed"} : how = EndOf(e)
    BY DEF EndOf
  <2>2. Gains(hap, hap2, r, how) /\ how \notin hap[r]
    BY <2>1
  <2>3. t.stats \in Stats
    BY DEF Terminals
  <2>4. PICK stats : stats = IF how = "completed" THEN [t.stats EXCEPT !.completed = @ + 1]
                                                 ELSE [t.stats EXCEPT !.failed = @ + 1]
    OBVIOUS
  <2>5. /\ stats \in Stats /\ stats.transcripts = t.stats.transcripts
        /\ stats.started = t.stats.started
        /\ how = "completed" => /\ stats.completed = t.stats.completed + 1
                                /\ stats.failed = t.stats.failed
        /\ how = "failed" => /\ stats.failed = t.stats.failed + 1
                             /\ stats.completed = t.stats.completed
    BY <2>3, <2>4 DEF Stats
  <2>6. u = [t EXCEPT !.stats = stats]
    <3>1. u = Terminal!Forward(t, e)
      BY <1>2 DEF Take
    <3>2. CASE e.kind = "AnswerCompleted"
      BY <2>1, <2>4, <3>1, <3>2 DEF EndOf, Terminal!Forward, Terminals
    <3>3. CASE e.kind = "LlmError"
      BY <2>1, <2>4, <3>1, <3>3 DEF EndOf, Terminal!Forward, Terminals
    <3> QED
      BY <3>2, <3>3 DEF Ends
  <2>7. u \in Terminals /\ u.stats = stats /\ Unseen(t, u)
    BY <2>5, <2>6, StatsAre
  <2>8. Count(hap2, how) = Count(hap, how) + 1
    BY <2>2, GainsOne
  <2>9. Count(hap2, "started") = Count(hap, "started")
    <3>1. "started" # how
      OBVIOUS
    <3> QED
      BY <2>2, <3>1, GainsNoOther
  <2>10. Ready(hap2) = Ready(hap)
    <3>1. how # "ready"
      OBVIOUS
    <3> QED
      BY <2>2, <3>1, GainsNotReady
  <2>11. Counted(t, hap) /\ OverlaySettled(t, hap)
    BY <1>2 DEF Settled
  <2>12. Counted(u, hap2)
    <3>1. CASE how = "completed"
      <4>1. "failed" # how
        BY <3>1
      <4>2. Count(hap2, "failed") = Count(hap, "failed")
        BY <2>2, <4>1, GainsNoOther
      <4> QED
        BY <2>5, <2>7, <2>8, <2>9, <2>11, <3>1, <4>2 DEF Counted
    <3>2. CASE how = "failed"
      <4>1. "completed" # how
        BY <3>2
      <4>2. Count(hap2, "completed") = Count(hap, "completed")
        BY <2>2, <4>1, GainsNoOther
      <4> QED
        BY <2>5, <2>7, <2>8, <2>9, <2>11, <3>2, <4>2 DEF Counted
    <3> QED
      BY <3>1, <3>2
  <2>13. OverlaySettled(u, hap2)
    BY <2>5, <2>7, <2>10, <2>11 DEF OverlaySettled, Unseen
  <2> QED
    BY <1>2, <2>7, <2>12, <2>13 DEF Settled
<1> QED
  BY <1>1, <1>2

-----------------------------------------------------------------------------
(* The second invariant: the words and the terminals ahead *)

\* A question is ready when it was asked.
ReadyIsAsked == \A r \in Requests : "ready" \in happened[r] <=> r[2] <= asked[r[1]]

SinksInOrder ==
  /\ innerPc = "ended" => inner = <<>> /\ sinkPc # "forwarding"
  /\ sinkPc \in {"awaiting", "finishing", "ok"} => closed /\ output = <<>>
  /\ sinkPc \in {"finishing", "ok"} => innerPc = "ended"
  /\ closed => answering = None
  /\ sinkPc = "ok" => summary = <<Recorder!Summarised(rec)>>

\* What was said, event by event
Sayings == {x \in Seq(Nat) \X Events \X Seq(Nat) : x[3] = SaidAfter(x[1], x[2])}

\* The recorder has the words up to the events that wait, which have the others.
WordsAhead ==
  /\ spoken \in Seq(Nat)
  /\ sinkPc # "error" =>
       \E said \in Seq(Nat) :
         WordsSettled(rec, said) /\ Way(Sayings, Seq(Nat), said, output, spoken)

\* A sink that takes an event and is right afterwards
Renders(sink) ==
  {x \in Terminals \X Events \X Terminals : x[3] = Take(sink, x[1], x[2]) /\ Right(sink, x[3])}

\* t is the sink that has everything the workers did.
Latest(t) == Settled(scenario.sink, t, happened, answering, given, places)

\* The sink inside after the events that wait for it, and after those that wait in
\* the output channel.
TerminalsAhead ==
  /\ term \in Terminals /\ Right(scenario.sink, term)
  /\ innerPc # "failed" =>
       \E mid \in Terminals :
         /\ Way(Renders(scenario.sink), Terminals, term, inner, mid)
         /\ sinkPc # "error" =>
              \E t \in Terminals :
                Way(Renders(scenario.sink), Terminals, mid, output, t) /\ Latest(t)

SinksAhead ==
  /\ ReadyIsAsked
  /\ SinksInOrder
  /\ WordsAhead
  /\ TerminalsAhead

-----------------------------------------------------------------------------
(* What an emission adds to them *)

LEMMA SayingIs ==
  ASSUME NEW said \in Seq(Nat), NEW e \in Events, NEW next, next = SaidAfter(said, e)
  PROVE  next \in Seq(Nat) /\ <<said, e, next>> \in Sayings
<1>1. next \in Seq(Nat)
  <2>1. CASE e.kind = "SttTranscript" /\ e.final
    <3>1. e.word \in Nat
      BY <2>1 DEF Events
    <3>2. next = Append(said, e.word)
      BY <2>1 DEF SaidAfter
    <3> QED
      BY <3>1, <3>2, AppendProperties
  <2>2. CASE ~(e.kind = "SttTranscript" /\ e.final)
    BY <2>2 DEF SaidAfter
  <2> QED
    BY <2>1, <2>2
<1>2. PICK x : x = <<said, e, next>>
  OBVIOUS
<1>3. x \in Seq(Nat) \X Events \X Seq(Nat) /\ x[1] = said /\ x[2] = e /\ x[3] = next
  BY <1>1, <1>2
<1>4. x \in Sayings
  BY <1>3 DEF Sayings
<1> QED
  BY <1>1, <1>2, <1>4

LEMMA RenderingIs ==
  ASSUME NEW sink, NEW t \in Terminals, NEW e \in Events, NEW u \in Terminals,
         u = Take(sink, t, e), Right(sink, u)
  PROVE  <<t, e, u>> \in Renders(sink)
<1>1. PICK x : x = <<t, e, u>>
  OBVIOUS
<1>2. x \in Terminals \X Events \X Terminals /\ x[1] = t /\ x[2] = e /\ x[3] = u
  BY <1>1
<1>3. x \in Renders(sink)
  BY <1>2 DEF Renders
<1> QED
  BY <1>1, <1>3

LEMMA WordsEmitted ==
  ASSUME Typing, WordsAhead, NEW e \in Events, Emit(<<e>>), UNCHANGED <<sinkPc, rec>>,
         spoken' = SaidAfter(spoken, e)
  PROVE  WordsAhead'
<1>1. sinkPc = "forwarding" /\ output' = Append(output, e)
  BY EmitIs
<1>2. output \in Seq(Events) /\ spoken \in Seq(Nat)
  BY DEF Typing, WordsAhead
<1>3. PICK said \in Seq(Nat) :
        WordsSettled(rec, said) /\ Way(Sayings, Seq(Nat), said, output, spoken)
  BY <1>1 DEF WordsAhead
<1>4. PICK now \in Seq(Nat) : now = spoken
  BY <1>2
<1>5. PICK next \in Seq(Nat) : next = SaidAfter(now, e) /\ <<now, e, next>> \in Sayings
  BY SayingIs
<1>6. Way(Sayings, Seq(Nat), said, Append(output, e), next)
  BY <1>2, <1>3, <1>4, <1>5, WayFurther
<1>7. spoken' = next
  BY <1>4, <1>5
<1> QED
  BY <1>1, <1>3, <1>6, <1>7 DEF WordsAhead

\* The second of two events is not a transcript.
LEMMA WordsEmittedTwo ==
  ASSUME Typing, WordsAhead, NEW e \in Events, NEW f \in Events, Emit(<<e, f>>),
         UNCHANGED <<sinkPc, rec>>, spoken' = SaidAfter(spoken, e), f.kind # "SttTranscript"
  PROVE  WordsAhead'
<1>1. /\ sinkPc = "forwarding" /\ output' = Append(Append(output, e), f)
      /\ Append(output, e) \in Seq(Events)
  BY EmitTwoIs
<1>2. output \in Seq(Events) /\ spoken \in Seq(Nat)
  BY DEF Typing, WordsAhead
<1>3. PICK said \in Seq(Nat) :
        WordsSettled(rec, said) /\ Way(Sayings, Seq(Nat), said, output, spoken)
  BY <1>1 DEF WordsAhead
<1>4. PICK now \in Seq(Nat) : now = spoken
  BY <1>2
<1>5. PICK next \in Seq(Nat) : next = SaidAfter(now, e) /\ <<now, e, next>> \in Sayings
  BY SayingIs
<1>6. Way(Sayings, Seq(Nat), said, Append(output, e), next)
  BY <1>2, <1>3, <1>4, <1>5, WayFurther
<1>7. next = SaidAfter(next, f)
  BY DEF SaidAfter
<1>8. <<next, f, next>> \in Sayings
  BY <1>7, SayingIs
<1>9. Way(Sayings, Seq(Nat), said, Append(Append(output, e), f), next)
  BY <1>1, <1>6, <1>8, WayFurther
<1>10. spoken' = next
  BY <1>4, <1>5
<1> QED
  BY <1>1, <1>3, <1>9, <1>10 DEF WordsAhead

\* The sink that has everything before e, and then e, has everything.
TerminalFollows(e) ==
  \A t \in Terminals : \A u :
    u = Take(scenario.sink, t, e) /\ Latest(t) => u \in Terminals /\ Latest(u)'

LEMMA TerminalsEmitted ==
  ASSUME Typing, TerminalsAhead, NEW e \in Events, Emit(<<e>>), UNCHANGED <<downstream, scenario>>,
         TerminalFollows(e)
  PROVE  TerminalsAhead'
<1>1. sinkPc = "forwarding" /\ output' = Append(output, e) /\ output \in Seq(Events)
  BY EmitIs DEF Typing
<1>2. UNCHANGED <<term, inner, innerPc, sinkPc, scenario>>
  BY DEF downstream, telemetry, inside
<1>3. PICK sink : sink = scenario.sink
  OBVIOUS
<1>4. ASSUME innerPc # "failed"
      PROVE  \E mid \in Terminals :
               /\ Way(Renders(sink), Terminals, term, inner, mid)
               /\ \E t \in Terminals :
                    Way(Renders(sink), Terminals, mid, output', t) /\ Latest(t)'
  <2>1. PICK mid \in Terminals :
          /\ Way(Renders(sink), Terminals, term, inner, mid)
          /\ \E t \in Terminals : Way(Renders(sink), Terminals, mid, output, t) /\ Latest(t)
    BY <1>1, <1>3, <1>4 DEF TerminalsAhead
  <2>2. PICK t \in Terminals : Way(Renders(sink), Terminals, mid, output, t) /\ Latest(t)
    BY <2>1
  <2>3. PICK u : u = Take(sink, t, e)
    OBVIOUS
  <2>4. u \in Terminals /\ Latest(u)'
    BY <1>3, <2>2, <2>3 DEF TerminalFollows
  <2>5. Right(sink, u)
    <3>1. Settled(sink, u, happened', answering', given', places')
      BY <1>2, <1>3, <2>4 DEF Latest
    <3> QED
      BY <2>4, <3>1, SettledIsRight
  <2>6. <<t, e, u>> \in Renders(sink)
    BY <2>3, <2>4, <2>5, RenderingIs
  <2>7. Way(Renders(sink), Terminals, mid, Append(output, e), u)
    BY <1>1, <2>2, <2>4, <2>6, WayFurther
  <2> QED
    BY <1>1, <2>1, <2>4, <2>7
<1> QED
  BY <1>1, <1>2, <1>3, <1>4 DEF TerminalsAhead

\* The second of two events is passed over.
LEMMA TerminalsEmittedTwo ==
  ASSUME Typing, TerminalsAhead, NEW e \in Events, NEW f \in Events, Emit(<<e, f>>),
         UNCHANGED <<downstream, scenario>>, TerminalFollows(e), f.kind \in Terminal!Silent
  PROVE  TerminalsAhead'
<1>1. /\ sinkPc = "forwarding" /\ output' = Append(Append(output, e), f)
      /\ Append(output, e) \in Seq(Events) /\ output \in Seq(Events)
  BY EmitTwoIs DEF Typing
<1>2. UNCHANGED <<term, inner, innerPc, sinkPc, scenario>>
  BY DEF downstream, telemetry, inside
<1>3. PICK sink : sink = scenario.sink
  OBVIOUS
<1>4. ASSUME innerPc # "failed"
      PROVE  \E mid \in Terminals :
               /\ Way(Renders(sink), Terminals, term, inner, mid)
               /\ \E t \in Terminals :
                    Way(Renders(sink), Terminals, mid, output', t) /\ Latest(t)'
  <2>1. PICK mid \in Terminals :
          /\ Way(Renders(sink), Terminals, term, inner, mid)
          /\ \E t \in Terminals : Way(Renders(sink), Terminals, mid, output, t) /\ Latest(t)
    BY <1>1, <1>3, <1>4 DEF TerminalsAhead
  <2>2. PICK t \in Terminals : Way(Renders(sink), Terminals, mid, output, t) /\ Latest(t)
    BY <2>1
  <2>3. PICK u : u = Take(sink, t, e)
    OBVIOUS
  <2>4. u \in Terminals /\ Latest(u)'
    BY <1>3, <2>2, <2>3 DEF TerminalFollows
  <2>5. Right(sink, u)
    <3>1. Settled(sink, u, happened', answering', given', places')
      BY <1>2, <1>3, <2>4 DEF Latest
    <3> QED
      BY <2>4, <3>1, SettledIsRight
  <2>6. <<t, e, u>> \in Renders(sink)
    BY <2>3, <2>4, <2>5, RenderingIs
  <2>7. Way(Renders(sink), Terminals, mid, Append(output, e), u)
    BY <1>1, <2>2, <2>4, <2>6, WayFurther
  <2>8. u = Take(sink, u, f)
    BY SilentIsTaken
  <2>9. <<u, f, u>> \in Renders(sink)
    BY <2>4, <2>5, <2>8, RenderingIs
  <2>10. Way(Renders(sink), Terminals, mid, Append(Append(output, e), f), u)
    BY <1>1, <2>4, <2>7, <2>9, WayFurther
  <2> QED
    BY <1>1, <2>1, <2>4, <2>10
<1> QED
  BY <1>1, <1>2, <1>3, <1>4 DEF TerminalsAhead

-----------------------------------------------------------------------------
(* A step of the workers or of the app *)

LEMMA OneEmitted ==
  ASSUME IInv, SinksAhead, NEW e \in Events, Emit(<<e>>), UNCHANGED <<downstream, scenario>>,
         spoken' = SaidAfter(spoken, e), TerminalFollows(e), ReadyIsAsked',
         closed' => answering' = None
  PROVE  SinksAhead'
<1>1. sinkPc = "forwarding"
  BY EmitIs DEF IInv
<1>2. UNCHANGED <<inner, innerPc, sinkPc, rec, summary>>
  BY DEF downstream, telemetry, inside
<1>3. WordsAhead'
  BY <1>2, WordsEmitted DEF IInv, SinksAhead
<1>4. TerminalsAhead'
  BY TerminalsEmitted DEF IInv, SinksAhead
<1>5. SinksInOrder'
  BY <1>1, <1>2 DEF SinksAhead, SinksInOrder
<1> QED
  BY <1>3, <1>4, <1>5 DEF SinksAhead

LEMMA TwoEmitted ==
  ASSUME IInv, SinksAhead, NEW e \in Events, NEW f \in Events, Emit(<<e, f>>),
         f.kind = "TranscriptDraft", UNCHANGED <<downstream, scenario>>,
         spoken' = SaidAfter(spoken, e), TerminalFollows(e), ReadyIsAsked',
         closed' => answering' = None
  PROVE  SinksAhead'
<1>1. sinkPc = "forwarding"
  BY EmitTwoIs DEF IInv
<1>2. UNCHANGED <<inner, innerPc, sinkPc, rec, summary>>
  BY DEF downstream, telemetry, inside
<1>3. f.kind # "SttTranscript" /\ f.kind \in Terminal!Silent
  BY DEF Terminal!Silent
<1>4. WordsAhead'
  BY <1>2, <1>3, WordsEmittedTwo DEF IInv, SinksAhead
<1>5. TerminalsAhead'
  BY <1>3, TerminalsEmittedTwo DEF IInv, SinksAhead
<1>6. SinksInOrder'
  BY <1>1, <1>2 DEF SinksAhead, SinksInOrder
<1> QED
  BY <1>4, <1>5, <1>6 DEF SinksAhead

LEMMA SilentFollows ==
  ASSUME NEW e, e.kind \in Terminal!Silent, Alike(happened, happened', Told),
         UNCHANGED <<scenario, answering, given, places>>
  PROVE  TerminalFollows(e)
<1> SUFFICES ASSUME NEW t \in Terminals, NEW u, u = Take(scenario.sink, t, e), Latest(t)
             PROVE  u \in Terminals /\ Latest(u)'
  BY DEF TerminalFollows
<1>1. u = t
  BY SilentIsTaken
<1>2. Settled(scenario.sink, t, happened', answering, given, places)
  BY SettledAlike DEF Latest
<1> QED
  BY <1>1, <1>2 DEF Latest

LEMMA NotesFollow ==
  ASSUME Typing, NEW e \in Notes,
         Alike(happened, happened', {"started", "completed", "failed"}), places' \in Nat,
         Comes(e, Ready(happened), Ready(happened'), places, places'),
         UNCHANGED <<scenario, answering, given>>
  PROVE  TerminalFollows(e)
<1> SUFFICES ASSUME NEW t \in Terminals, NEW u, u = Take(scenario.sink, t, e), Latest(t)
             PROVE  u \in Terminals /\ Latest(u)'
  BY DEF TerminalFollows
<1>1. places \in Nat
  BY DEF Typing, WindowsTyped
<1>2. Settled(scenario.sink, t, happened, answering, given, places)
  BY DEF Latest
<1>3. PICK hap : hap = happened'
  OBVIOUS
<1>4. PICK last \in Nat : last = places'
  OBVIOUS
<1>5. u \in Terminals /\ Settled(scenario.sink, u, hap, answering, given, last)
  BY <1>1, <1>2, <1>3, <1>4, NoteFollows
<1> QED
  BY <1>3, <1>4, <1>5 DEF Latest

\* A note that is not a question comes with the next place, or with none.
LEMMA PlainNotesFollow ==
  ASSUME Typing, NEW e \in Notes, e.kind # "Transcript",
         (PlaceOf(e) = 0 /\ places' = places) \/ (PlaceOf(e) = places + 1 /\ places' = places + 1),
         UNCHANGED <<scenario, happened, answering, given>>
  PROVE  TerminalFollows(e)
<1>1. Alike(happened, happened', {"started", "completed", "failed"})
  BY DEF Alike
<1>2. Ready(happened') = Ready(happened) /\ Ready(happened) \subseteq Requests
  BY DEF Ready
<1>3. \A r : ~Asks(e, r)
  BY DEF Asks
<1>4. Comes(e, Ready(happened), Ready(happened'), places, places')
  BY <1>2, <1>3 DEF Comes
<1>5. places' \in Nat
  BY DEF Typing, WindowsTyped
<1> QED
  BY <1>1, <1>4, <1>5, NotesFollow

\* What happened is not that a question was ready.
LEMMA ReadyRests ==
  ASSUME SinksAhead, UNCHANGED asked, Alike(happened, happened', {"ready"})
  PROVE  ReadyIsAsked'
BY DEF SinksAhead, ReadyIsAsked, Alike

LEMMA AlikeItself ==
  ASSUME NEW whats, UNCHANGED happened
  PROVE  Alike(happened, happened', whats)
BY DEF Alike

\* What happened that no sink is told.
LEMMA HappensUntold ==
  ASSUME Typing, NEW r \in Requests, NEW what \in Whats, Happens(r, what), what \notin Told
  PROVE  Alike(happened, happened', Told) /\ Alike(happened, happened', {"ready"})
<1>1. \A q \in Requests : \A w : w # what => (w \in happened'[q] <=> w \in happened[q])
  BY HappensIs DEF Typing
<1> QED
  BY <1>1 DEF Alike, Told

LEMMA HappensGains ==
  ASSUME Typing, NEW r \in Requests, NEW what \in Whats, Happens(r, what)
  PROVE  /\ Gains(happened, happened', r, what)
         /\ what # "ready" => Alike(happened, happened', {"ready"})
<1>1. /\ happened'[r] = happened[r] \cup {what}
      /\ \A q \in Requests : q # r => happened'[q] = happened[q]
      /\ \A q \in Requests : \A w : w # what => (w \in happened'[q] <=> w \in happened[q])
  BY HappensIs DEF Typing
<1>2. Gains(happened, happened', r, what)
  BY <1>1 DEF Gains
<1>3. what # "ready" => Alike(happened, happened', {"ready"})
  BY <1>1 DEF Alike
<1> QED
  BY <1>2, <1>3

-----------------------------------------------------------------------------
(* The steps of the windows *)

LEMMA HearAhead ==
  ASSUME IInv, SinksAhead, NEW final \in BOOLEAN, NEW boundary \in BOOLEAN,
         Hear(final, boundary)
  PROVE  SinksAhead'
<1>1. /\ UNCHANGED <<asked, places, llm, happened, downstream, app>>
      /\ Emit(<<[kind |-> "SttTranscript", final |-> final, boundary |-> boundary,
                 word |-> words + 1], DraftEvent(FALSE)>>)
      /\ spoken' = IF final THEN Append(spoken, words + 1) ELSE spoken
  BY DEF Hear
<1>2. PICK e : e = [kind |-> "SttTranscript", final |-> final, boundary |-> boundary,
                    word |-> words + 1]
  OBVIOUS
<1>3. PICK f : f = DraftEvent(FALSE)
  OBVIOUS
<1>4. e \in Events /\ f \in Events /\ f.kind = "TranscriptDraft" /\ e.kind = "SttTranscript"
  <2>1. words + 1 \in Nat
    BY DEF IInv, Typing, WindowsTyped
  <2> QED
    BY <1>2, <1>3, <2>1 DEF Events, DraftEvent
<1>5. Emit(<<e, f>>)
  BY <1>1, <1>2, <1>3
<1>6. spoken' = SaidAfter(spoken, e)
  <2>1. e.word = words + 1 /\ e.final = final
    BY <1>2
  <2> QED
    BY <1>1, <1>4, <2>1 DEF SaidAfter
<1>7. UNCHANGED <<scenario, answering, given, places, asked, happened, closed>>
  BY <1>1 DEF llm, app
<1>8. TerminalFollows(e)
  <2>1. e.kind \in Terminal!Silent
    BY <1>4 DEF Terminal!Silent
  <2>2. Alike(happened, happened', Told)
    BY <1>7, AlikeItself
  <2> QED
    BY <1>7, <2>1, <2>2, SilentFollows
<1>9. ReadyIsAsked'
  BY <1>7, AlikeItself, ReadyRests
<1>10. closed' => answering' = None
  BY <1>7 DEF SinksAhead, SinksInOrder
<1> QED
  BY <1>1, <1>4, <1>5, <1>6, <1>7, <1>8, <1>9, <1>10, TwoEmitted

\* One event that the sinks pass over.
LEMMA SilentAhead ==
  ASSUME IInv, SinksAhead, NEW e \in Events, Emit(<<e>>), e.kind \in Terminal!Silent,
         e.kind # "SttTranscript", Alike(happened, happened', Told),
         UNCHANGED <<asked, places, answering, given, spoken, downstream, app>>
  PROVE  SinksAhead'
<1>1. UNCHANGED <<scenario, closed>>
  BY DEF app
<1>2. TerminalFollows(e)
  BY <1>1, SilentFollows
<1>3. ReadyIsAsked'
  <2>1. Alike(happened, happened', {"ready"})
    BY DEF Alike, Told
  <2> QED
    BY <2>1, ReadyRests
<1>4. spoken' = SaidAfter(spoken, e)
  BY DEF SaidAfter
<1>5. closed' => answering' = None
  BY <1>1 DEF SinksAhead, SinksInOrder
<1> QED
  BY <1>1, <1>2, <1>3, <1>4, <1>5, OneEmitted

LEMMA MarkAhead ==
  ASSUME IInv, SinksAhead, SpeechStarts \/ \E applied \in BOOLEAN : UtteranceEnds(applied)
  PROVE  SinksAhead'
<1>1. PICK e \in Events : Mark(e) /\ e.kind \in {"SpeechStarted", "UtteranceEnd"}
  <2>1. CASE SpeechStarts
    <3>1. PICK e : e = [kind |-> "SpeechStarted"]
      OBVIOUS
    <3>2. e \in Events /\ e.kind = "SpeechStarted"
      BY <3>1 DEF Events
    <3>3. Mark(e)
      BY <2>1, <3>1 DEF SpeechStarts
    <3> QED
      BY <3>2, <3>3
  <2>2. ASSUME NEW applied \in BOOLEAN, UtteranceEnds(applied)
        PROVE  \E e \in Events : Mark(e) /\ e.kind \in {"SpeechStarted", "UtteranceEnd"}
    <3>1. PICK e : e = [kind |-> "UtteranceEnd", applied |-> applied]
      OBVIOUS
    <3>2. e \in Events /\ e.kind = "UtteranceEnd"
      BY <3>1 DEF Events
    <3>3. Mark(e)
      BY <2>2, <3>1 DEF UtteranceEnds
    <3> QED
      BY <3>2, <3>3
  <2> QED
    BY <2>1, <2>2
<1>2. /\ Emit(<<e>>)
      /\ UNCHANGED <<asked, places, answering, given, spoken, happened, downstream, app>>
  BY <1>1 DEF Mark, llm, history
<1>3. e.kind \in Terminal!Silent /\ e.kind # "SttTranscript"
  BY <1>1 DEF Terminal!Silent
<1> QED
  BY <1>2, <1>3, AlikeItself, SilentAhead

LEMMA DiscardAhead ==
  ASSUME IInv, SinksAhead, Discard
  PROVE  SinksAhead'
<1>1. PICK e : e = DraftEvent(TRUE)
  OBVIOUS
<1>2. e \in Events /\ e.kind = "TranscriptDraft"
  BY <1>1 DEF Events, DraftEvent
<1>3. /\ Emit(<<e>>)
      /\ UNCHANGED <<asked, places, answering, given, spoken, happened, downstream, app>>
  BY <1>1 DEF Discard, llm, history
<1>4. e.kind \in Terminal!Silent /\ e.kind # "SttTranscript"
  BY <1>2 DEF Terminal!Silent
<1> QED
  BY <1>2, <1>3, <1>4, AlikeItself, SilentAhead

\* The question comes to the screen, or waits for the end of the answer.
LEMMA AskAhead ==
  ASSUME IInv, SinksAhead, NEW s \in Speakers, NEW mode, Ask(s, mode)
  PROVE  SinksAhead'
<1>1. PICK r : r = <<s, asked[s] + 1>>
  OBVIOUS
<1>2. /\ r \in Requests /\ r[1] = s /\ r[2] = asked[s] + 1
      /\ asked' \in [Speakers -> 0..MaxQuestions] /\ asked'[s] = asked[s] + 1
      /\ \A p \in Speakers : p # s => asked'[p] = asked[p]
  BY <1>1, AskedIs DEF IInv
<1>3. PICK e : e = [kind |-> "Transcript", id |-> r, place |-> places + 1]
  OBVIOUS
<1>4. /\ Emit(<<e>>) /\ Happens(r, "ready") /\ places' = places + 1
      /\ UNCHANGED <<answering, given, spoken, downstream, app>>
  BY <1>1, <1>3 DEF Ask
<1>5. places \in Nat /\ asked \in [Speakers -> 0..MaxQuestions]
  BY DEF IInv, Typing, WindowsTyped
<1>6. e \in Events /\ e.kind = "Transcript" /\ e.id = r /\ e.place = places + 1
  BY <1>2, <1>3, <1>5 DEF Events
<1>7. e \in Notes /\ PlaceOf(e) = places + 1
  BY <1>6 DEF Notes, NoteKinds, PlaceOf
<1>8. UNCHANGED <<scenario, closed>>
  BY <1>4 DEF app
<1>9. /\ happened'[r] = happened[r] \cup {"ready"}
      /\ \A q \in Requests : q # r => happened'[q] = happened[q]
      /\ \A q \in Requests : \A w : w # "ready" => (w \in happened'[q] <=> w \in happened[q])
  <2>1. "ready" \in Whats
    BY DEF Whats
  <2> QED
    BY <1>2, <1>4, <2>1, HappensIs DEF IInv, Typing
<1>10. asked[s] \in 0..MaxQuestions
  BY <1>5
<1>11. "ready" \notin happened[r]
  <2>1. ~(r[2] <= asked[r[1]])
    BY <1>2, <1>10
  <2> QED
    BY <1>2, <2>1 DEF SinksAhead, ReadyIsAsked
<1>12. Comes(e, Ready(happened), Ready(happened'), places, places')
  <2>1. \A q \in Requests : Asks(e, q) <=> q = r
    BY <1>6 DEF Asks
  <2>2. Ready(happened) \subseteq Requests /\ Ready(happened') \subseteq Requests
    BY DEF Ready
  <2>3. \A q \in Requests : q \in Ready(happened') <=> q \in Ready(happened) \/ Asks(e, q)
    BY <1>9, <2>1 DEF Ready
  <2>4. \A q \in Ready(happened) : ~Asks(e, q)
    BY <1>11, <2>1 DEF Ready
  <2> QED
    BY <1>4, <1>7, <2>2, <2>3, <2>4 DEF Comes
<1>13. Alike(happened, happened', {"started", "completed", "failed"})
  BY <1>9 DEF Alike
<1>14. places' \in Nat
  BY <1>4, <1>5
<1>15. TerminalFollows(e)
  BY <1>4, <1>7, <1>8, <1>12, <1>13, <1>14, NotesFollow DEF IInv
<1>16. ReadyIsAsked'
  <2>1. ASSUME NEW q \in Requests
        PROVE  "ready" \in happened'[q] <=> q[2] <= asked'[q[1]]
    <3>1. q[1] \in Speakers /\ q[2] \in 1..MaxQuestions /\ q = <<q[1], q[2]>> /\ asked[q[1]] \in 0..MaxQuestions
      BY <1>5 DEF Requests
    <3>2. "ready" \in happened[q] <=> q[2] <= asked[q[1]]
      BY DEF SinksAhead, ReadyIsAsked
    <3>3. CASE q = r
      BY <1>2, <1>9, <1>10, <3>3
    <3>4. CASE q # r
      <4>1. happened'[q] = happened[q]
        BY <1>9, <3>4
      <4>2. CASE q[1] # s
        BY <1>2, <3>1, <3>2, <4>1, <4>2
      <4>3. CASE q[1] = s
        <5>1. q[2] # asked[s] + 1
          BY <1>1, <3>1, <3>4, <4>3
        <5>2. q[2] <= asked[s] + 1 <=> q[2] <= asked[s]
          BY <1>10, <3>1, <5>1
        <5> QED
          BY <1>2, <3>2, <4>1, <4>3, <5>2
      <4> QED
        BY <4>2, <4>3
    <3> QED
      BY <3>3, <3>4
  <2> QED
    BY <2>1 DEF ReadyIsAsked
<1>17. spoken' = SaidAfter(spoken, e)
  BY <1>4, <1>6 DEF SaidAfter
<1>18. closed' => answering' = None
  BY <1>4, <1>8 DEF SinksAhead, SinksInOrder
<1> QED
  BY <1>4, <1>6, <1>8, <1>15, <1>16, <1>17, <1>18, OneEmitted

\* One note that is not a question.
LEMMA NoteAhead ==
  ASSUME IInv, SinksAhead, NEW e \in Events, Emit(<<e>>),
         e.kind \in {"KnowledgeError", "LiveCodingUpdated", "Status", "ModeChanged"},
         e.place = places + 1, places' = places + 1,
         UNCHANGED <<scenario, asked, happened, answering, given, spoken, downstream>>,
         closed' => answering = None
  PROVE  SinksAhead'
<1>1. e \in Notes /\ PlaceOf(e) = places + 1 /\ e.kind # "Transcript"
  BY DEF Notes, NoteKinds, PlaceOf
<1>2. TerminalFollows(e)
  BY <1>1, PlainNotesFollow DEF IInv
<1>3. ReadyIsAsked'
  BY AlikeItself, ReadyRests
<1>4. spoken' = SaidAfter(spoken, e)
  BY DEF SaidAfter
<1> QED
  BY <1>2, <1>3, <1>4, OneEmitted

LEMMA ResolveAhead ==
  ASSUME IInv, SinksAhead, NEW found \in BOOLEAN, Resolve(found)
  PROVE  SinksAhead'
<1>1. /\ "interviewer" \in Speakers /\ flushPc["interviewer"] = "resolve"
      /\ UNCHANGED <<asked, llm, spoken, downstream, app>>
  BY DEF Resolve, Speakers
<1>2. PICK r \in Requests : r = flushing["interviewer"]
  BY <1>1, FlushingIs DEF IInv
<1>3. UNCHANGED <<scenario, closed, answering, given>>
  BY <1>1 DEF llm, app
<1>4. CASE found
  <2>1. PICK e : e = [kind |-> "Retrieval", id |-> r]
    OBVIOUS
  <2>2. e \in Events /\ e.kind = "Retrieval"
    BY <2>1 DEF Events
  <2>3. Emit(<<e>>) /\ Happens(r, "retrieval") /\ UNCHANGED places
    BY <1>2, <1>4, <2>1 DEF Resolve
  <2>4. Alike(happened, happened', Told)
    <3>1. "retrieval" \in Whats /\ "retrieval" \notin Told
      BY DEF Whats, Told
    <3> QED
      BY <2>3, <3>1, HappensUntold DEF IInv
  <2>5. e.kind \in Terminal!Silent /\ e.kind # "SttTranscript"
    BY <2>2 DEF Terminal!Silent
  <2> QED
    BY <1>1, <1>3, <2>2, <2>3, <2>4, <2>5, SilentAhead
<1>5. CASE ~found
  <2>1. PICK e : e = [kind |-> "KnowledgeError", place |-> places + 1]
    OBVIOUS
  <2>2. places + 1 \in Nat
    BY PlacesAre
  <2>3. e \in Events /\ e.kind = "KnowledgeError" /\ e.place = places + 1
    BY <2>1, <2>2 DEF Events
  <2>4. Emit(<<e>>) /\ places' = places + 1 /\ UNCHANGED happened
    BY <1>5, <2>1 DEF Resolve
  <2>5. closed' => answering = None
    BY <1>3 DEF SinksAhead, SinksInOrder
  <2> QED
    BY <1>1, <1>3, <2>3, <2>4, <2>5, NoteAhead
<1> QED
  BY <1>4, <1>5

LEMMA QueueAhead ==
  ASSUME IInv, SinksAhead, NEW s \in Speakers, Queue(s)
  PROVE  SinksAhead'
<1>1. /\ flushPc[s] = "queue" /\ Happens(flushing[s], "queued")
      /\ Emit(<<[kind |-> "LlmQueued", id |-> flushing[s]]>>)
      /\ UNCHANGED <<asked, places, answering, given, spoken, downstream, app>>
  BY DEF Queue
<1>2. PICK r \in Requests : r = flushing[s]
  BY <1>1, FlushingIs DEF IInv
<1>3. PICK e : e = [kind |-> "LlmQueued", id |-> r]
  OBVIOUS
<1>4. e \in Events /\ e.kind = "LlmQueued"
  BY <1>3 DEF Events
<1>5. Emit(<<e>>) /\ Happens(r, "queued")
  BY <1>1, <1>2, <1>3
<1>6. Alike(happened, happened', Told)
  <2>1. "queued" \in Whats /\ "queued" \notin Told
    BY DEF Whats, Told
  <2> QED
    BY <1>5, <2>1, HappensUntold DEF IInv
<1>7. e.kind \in Terminal!Silent /\ e.kind # "SttTranscript"
  BY <1>4 DEF Terminal!Silent
<1> QED
  BY <1>1, <1>4, <1>5, <1>6, <1>7, SilentAhead

LEMMA QueuedAhead ==
  ASSUME IInv, SinksAhead, NEW s \in Speakers, Queued(s)
  PROVE  SinksAhead'
<1>1. /\ places' = IF Len(requests) > 1 THEN places + 1 ELSE places
      /\ UNCHANGED <<asked, llm, history, downstream, app>>
  BY DEF Queued
<1>2. PICK n \in Nat : n = Len(requests)
  BY LenProperties DEF IInv, Typing, LlmTyped
<1>3. places \in Nat
  BY PlacesAre
<1>4. PICK place \in Nat : place = places'
  BY <1>1, <1>2, <1>3
<1>5. PICK e : e = [kind |-> "QueueState", len |-> n, place |-> place]
  OBVIOUS
<1>6. PICK f : f = DraftEvent(TRUE)
  OBVIOUS
<1>7. /\ e \in Events /\ e.kind = "QueueState" /\ e.len = n /\ e.place = place
      /\ f \in Events /\ f.kind = "TranscriptDraft"
  BY <1>5, <1>6 DEF Events, DraftEvent
<1>8. Emit(IF s = "interviewer" /\ ~closing THEN <<e, f>> ELSE <<e>>)
  BY <1>2, <1>4, <1>5, <1>6 DEF Queued
<1>9. e \in Notes
  BY <1>7 DEF Notes, NoteKinds
<1>10. (PlaceOf(e) = 0 /\ places' = places) \/ (PlaceOf(e) = places + 1 /\ places' = places + 1)
  <2>1. CASE n > 1
    BY <1>1, <1>2, <1>4, <1>7, <2>1 DEF PlaceOf
  <2>2. CASE n <= 1
    BY <1>1, <1>2, <1>4, <1>7, <2>2 DEF PlaceOf
  <2> QED
    BY <2>1, <2>2
<1>11. UNCHANGED <<scenario, closed, happened, answering, given, spoken>>
  BY <1>1 DEF llm, history, app
<1>12. TerminalFollows(e)
  <2>1. e.kind # "Transcript"
    BY <1>7
  <2> QED
    BY <1>9, <1>10, <1>11, <2>1, PlainNotesFollow DEF IInv
<1>13. ReadyIsAsked'
  BY <1>1, <1>11, AlikeItself, ReadyRests
<1>14. spoken' = SaidAfter(spoken, e)
  BY <1>7, <1>11 DEF SaidAfter
<1>15. closed' => answering' = None
  BY <1>11 DEF SinksAhead, SinksInOrder
<1>16. CASE s = "interviewer" /\ ~closing
  BY <1>1, <1>7, <1>8, <1>11, <1>12, <1>13, <1>14, <1>15, <1>16, TwoEmitted
<1>17. CASE ~(s = "interviewer" /\ ~closing)
  BY <1>1, <1>7, <1>8, <1>11, <1>12, <1>13, <1>14, <1>15, <1>17, OneEmitted
<1> QED
  BY <1>16, <1>17

-----------------------------------------------------------------------------
(* The steps of the LLM worker *)

\* The request was asked, so that its question is ready.
LEMMA StartAnswerAhead ==
  ASSUME IInv, SinksAhead, StartAnswer
  PROVE  SinksAhead'
<1>1. /\ llmPc = "idle" /\ requests # <<>> /\ answering' = Head(requests) /\ given' = 0
      /\ Emit(<<[kind |-> "AnswerStarted", id |-> Head(requests)]>>)
      /\ Happens(Head(requests), "started")
      /\ UNCHANGED <<asked, places, spoken, downstream, app>>
  BY DEF StartAnswer, windows
<1>2. requests \in Seq(Requests)
  BY DEF IInv, Typing, LlmTyped
<1>3. /\ Head(requests) = requests[1] /\ 1 \in 1..Len(requests)
      /\ Head(requests) \in Requests
  <2>1. Len(requests) \in Nat /\ Len(requests) # 0
    BY <1>1, <1>2, LenProperties, EmptySeq
  <2> QED
    BY <1>1, <1>2, <2>1, HeadTailProperties
<1>4. PICK r \in Requests : r = Head(requests)
  BY <1>3
<1>5. "queued" \in happened[r] /\ "started" \notin happened[r]
  BY <1>3, <1>4 DEF IInv, QueueIsUnanswered
<1>6. r \in Ready(happened)
  <2>1. ~(r[2] > asked[r[1]])
    BY <1>5 DEF IInv, QuestionsGoOn
  <2>2. r[2] \in 1..MaxQuestions /\ asked[r[1]] \in 0..MaxQuestions
    BY DEF IInv, Typing, WindowsTyped, Requests
  <2>3. r[2] <= asked[r[1]]
    BY <2>1, <2>2
  <2> QED
    BY <2>3 DEF SinksAhead, ReadyIsAsked, Ready
<1>7. PICK e : e = [kind |-> "AnswerStarted", id |-> r]
  OBVIOUS
<1>8. e \in Events /\ e.kind = "AnswerStarted" /\ e.id = r
  BY <1>7 DEF Events
<1>9. Emit(<<e>>) /\ Happens(r, "started")
  BY <1>1, <1>4, <1>7
<1>10. Gains(happened, happened', r, "started") /\ Alike(happened, happened', {"ready"})
  <2>1. "started" \in Whats
    BY DEF Whats
  <2> QED
    BY <1>9, <2>1, HappensGains DEF IInv
<1>11. UNCHANGED <<scenario, closed>> /\ answering = None /\ ~closed
  BY <1>1, <1>9 DEF app, IInv, Typing, LlmTyped, Emit
<1>12. TerminalFollows(e)
  <2> SUFFICES ASSUME NEW t \in Terminals, NEW u, u = Take(scenario.sink, t, e), Latest(t)
               PROVE  u \in Terminals /\ Latest(u)'
    BY DEF TerminalFollows
  <2>1. Settled(scenario.sink, t, happened, None, given, places) /\ places \in Nat
    BY <1>11, PlacesAre DEF Latest
  <2>2. PICK hap : hap = happened'
    OBVIOUS
  <2>3. Gains(happened, hap, r, "started")
    BY <1>10, <2>2
  <2>4. u \in Terminals /\ Settled(scenario.sink, u, hap, r, 0, places)
    BY <1>5, <1>6, <1>8, <2>1, <2>3, StartFollows
  <2> QED
    BY <1>1, <1>4, <1>11, <2>2, <2>4 DEF Latest
<1>13. ReadyIsAsked'
  BY <1>1, <1>10, ReadyRests
<1>14. spoken' = SaidAfter(spoken, e)
  BY <1>1, <1>8 DEF SaidAfter
<1> QED
  BY <1>1, <1>8, <1>9, <1>11, <1>12, <1>13, <1>14, OneEmitted

LEMMA GiveDeltaAhead ==
  ASSUME IInv, SinksAhead, GiveDelta
  PROVE  SinksAhead'
<1>1. /\ llmPc = "streaming" /\ given' = given + 1
      /\ Emit(<<[kind |-> "AnswerDelta", id |-> answering, delta |-> given + 1]>>)
      /\ Happens(answering, "token")
      /\ UNCHANGED <<asked, places, answering, spoken, downstream, app>>
  BY DEF GiveDelta, windows
<1>2. PICK r \in Requests : r = answering
  BY <1>1, AnsweringIs
<1>3. given \in Nat /\ given + 1 \in Nat
  BY PlacesAre
<1>4. PICK e : e = [kind |-> "AnswerDelta", id |-> r, delta |-> given + 1]
  OBVIOUS
<1>5. e \in Events /\ e.kind = "AnswerDelta" /\ e.id = r /\ e.delta = given + 1
  BY <1>3, <1>4 DEF Events
<1>6. Emit(<<e>>) /\ Happens(r, "token")
  BY <1>1, <1>2, <1>4
<1>7. Alike(happened, happened', Told) /\ Alike(happened, happened', {"ready"})
  <2>1. "token" \in Whats /\ "token" \notin Told
    BY DEF Whats, Told
  <2> QED
    BY <1>6, <2>1, HappensUntold DEF IInv
<1>8. UNCHANGED <<scenario, closed>>
  BY <1>1 DEF app
<1>9. TerminalFollows(e)
  <2> SUFFICES ASSUME NEW t \in Terminals, NEW u, u = Take(scenario.sink, t, e), Latest(t)
               PROVE  u \in Terminals /\ Latest(u)'
    BY DEF TerminalFollows
  <2>1. Settled(scenario.sink, t, happened, r, given, places)
    BY <1>2 DEF Latest
  <2>2. u \in Terminals /\ Settled(scenario.sink, u, happened, r, given + 1, places)
    BY <1>3, <1>5, <2>1, DeltaFollows
  <2>3. Settled(scenario.sink, u, happened', r, given + 1, places)
    BY <1>7, <2>2, SettledAlike
  <2> QED
    BY <1>1, <1>2, <1>8, <2>2, <2>3 DEF Latest
<1>10. ReadyIsAsked'
  BY <1>1, <1>7, ReadyRests
<1>11. spoken' = SaidAfter(spoken, e)
  BY <1>1, <1>5 DEF SaidAfter
<1>12. closed' => answering' = None
  BY <1>1, <1>8 DEF SinksAhead, SinksInOrder
<1> QED
  BY <1>1, <1>5, <1>6, <1>8, <1>9, <1>10, <1>11, <1>12, OneEmitted

LEMMA GiveUsageAhead ==
  ASSUME IInv, SinksAhead, GiveUsage
  PROVE  SinksAhead'
<1>1. /\ llmPc = "streaming" /\ Happens(answering, "usage")
      /\ Emit(<<[kind |-> "AnswerUsage", id |-> answering]>>)
      /\ UNCHANGED <<asked, places, answering, given, spoken, downstream, app>>
  BY DEF GiveUsage, windows, llm
<1>2. PICK r \in Requests : r = answering
  BY <1>1, AnsweringIs
<1>3. PICK e : e = [kind |-> "AnswerUsage", id |-> r]
  OBVIOUS
<1>4. e \in Events /\ e.kind = "AnswerUsage"
  BY <1>3 DEF Events
<1>5. Emit(<<e>>) /\ Happens(r, "usage")
  BY <1>1, <1>2, <1>3
<1>6. Alike(happened, happened', Told)
  <2>1. "usage" \in Whats /\ "usage" \notin Told
    BY DEF Whats, Told
  <2> QED
    BY <1>5, <2>1, HappensUntold DEF IInv
<1>7. e.kind \in Terminal!Silent /\ e.kind # "SttTranscript"
  BY <1>4 DEF Terminal!Silent
<1> QED
  BY <1>1, <1>4, <1>5, <1>6, <1>7, SilentAhead

LEMMA RevisionAhead ==
  ASSUME IInv, SinksAhead, UpdateLiveCoding \/ ClearHistory
  PROVE  SinksAhead'
<1>1. PICK e : e = [kind |-> "LiveCodingUpdated", place |-> places + 1]
  OBVIOUS
<1>2. places + 1 \in Nat
  BY PlacesAre
<1>3. e \in Events /\ e.kind = "LiveCodingUpdated" /\ e.place = places + 1
  BY <1>1, <1>2 DEF Events
<1>4. /\ Emit(<<e>>) /\ places' = places + 1
      /\ UNCHANGED <<asked, happened, answering, given, spoken, downstream, app>>
  BY <1>1 DEF UpdateLiveCoding, ClearHistory
<1>5. UNCHANGED scenario /\ (closed' => answering = None)
  BY <1>4 DEF app, SinksAhead, SinksInOrder
<1> QED
  BY <1>3, <1>4, <1>5, NoteAhead

\* The answer ends on the screen as it ended.
LEMMA EndAhead ==
  ASSUME IInv, SinksAhead, CompleteAnswer \/ FailAnswer
  PROVE  SinksAhead'
<1>1. llmPc # "idle" /\ UNCHANGED <<asked, places, given, spoken, downstream, app>>
      /\ answering' = None
  BY DEF CompleteAnswer, FailAnswer, windows
<1>2. PICK r \in Requests : r = answering
  BY <1>1, AnsweringIs
<1>3. "completed" \notin happened[r] /\ "failed" \notin happened[r]
  BY <1>1, <1>2, AnsweringIs
<1>4. PICK e \in Events : Emit(<<e>>) /\ Ends(e, r) /\ Happens(r, EndOf(e))
  <2>1. CASE CompleteAnswer
    <3>1. PICK e : e = [kind |-> "AnswerCompleted", id |-> r]
      OBVIOUS
    <3>2. e \in Events /\ e.kind = "AnswerCompleted" /\ e.id = r
      BY <3>1 DEF Events
    <3>3. Emit(<<e>>) /\ Happens(r, "completed")
      BY <1>2, <2>1, <3>1 DEF CompleteAnswer
    <3>4. Ends(e, r) /\ EndOf(e) = "completed"
      BY <3>2 DEF Ends, EndOf
    <3> QED
      BY <3>2, <3>3, <3>4
  <2>2. CASE FailAnswer
    <3>1. PICK e : e = [kind |-> "LlmError", place |-> 0]
      OBVIOUS
    <3>2. e \in Events /\ e.kind = "LlmError"
      BY <3>1 DEF Events
    <3>3. Emit(<<e>>) /\ Happens(r, "failed")
      BY <1>2, <2>2, <3>1 DEF FailAnswer
    <3>4. Ends(e, r) /\ EndOf(e) = "failed"
      BY <3>2 DEF Ends, EndOf
    <3> QED
      BY <3>2, <3>3, <3>4
  <2> QED
    BY <2>1, <2>2
<1>5. EndOf(e) \in Whats /\ EndOf(e) # "ready" /\ EndOf(e) \notin happened[r]
  BY <1>3 DEF EndOf, Whats
<1>6. Gains(happened, happened', r, EndOf(e)) /\ Alike(happened, happened', {"ready"})
  BY <1>4, <1>5, HappensGains DEF IInv
<1>7. UNCHANGED <<scenario, closed>>
  BY <1>1 DEF app
<1>8. TerminalFollows(e)
  <2> SUFFICES ASSUME NEW t \in Terminals, NEW u, u = Take(scenario.sink, t, e), Latest(t)
               PROVE  u \in Terminals /\ Latest(u)'
    BY DEF TerminalFollows
  <2>1. Settled(scenario.sink, t, happened, r, given, places) /\ places \in Nat
    BY <1>2, PlacesAre DEF Latest
  <2>2. PICK hap : hap = happened'
    OBVIOUS
  <2>3. Gains(happened, hap, r, EndOf(e))
    BY <1>6, <2>2
  <2>4. u \in Terminals /\ Settled(scenario.sink, u, hap, None, given, places)
    BY <1>4, <1>5, <2>1, <2>3, EndFollows
  <2> QED
    BY <1>1, <1>7, <2>2, <2>4 DEF Latest
<1>9. ReadyIsAsked'
  BY <1>1, <1>6, ReadyRests
<1>10. spoken' = SaidAfter(spoken, e)
  BY <1>1, <1>4 DEF SaidAfter, Ends
<1> QED
  BY <1>1, <1>4, <1>7, <1>8, <1>9, <1>10, OneEmitted

-----------------------------------------------------------------------------
(* The steps of the app *)

LEMMA NoticeAhead ==
  ASSUME IInv, SinksAhead, Notice \/ Stop
  PROVE  SinksAhead'
<1>1. /\ places' = places + 1
      /\ UNCHANGED <<scenario, asked, happened, answering, given, spoken, downstream>>
  BY DEF Notice, Stop, llm, history
<1>2. places + 1 \in Nat
  BY PlacesAre
<1>3. closed' => answering = None
  BY DEF Notice, Stop, SinksAhead, SinksInOrder, IInv, Typing, LlmTyped
<1>4. PICK e \in Events :
        e.kind \in {"Status", "ModeChanged"} /\ e.place = places + 1 /\ Emit(<<e>>)
  <2>1. CASE Notice
    <3>1. notices < Len(scenario.notices) /\ notices \in Nat
      BY <2>1 DEF Notice, IInv, Typing
    <3>2. notices + 1 \in 1..Len(scenario.notices)
      <4>1. Len(scenario.notices) \in Nat
        BY ScenarioIs, LenProperties DEF IInv
      <4> QED
        BY <3>1, <4>1
    <3>3. PICK kind \in {"Status", "ModeChanged"} : kind = scenario.notices[notices + 1]
      BY <3>2, ScenarioIs, ElementOfSeq DEF IInv
    <3>4. PICK e : e = [kind |-> kind, place |-> places + 1, stopped |-> FALSE]
      OBVIOUS
    <3>5. e \in Events /\ e.kind = kind /\ e.place = places + 1
      BY <1>2, <3>4 DEF Events
    <3>6. Emit(<<e>>)
      BY <2>1, <3>3, <3>4 DEF Notice
    <3> QED
      BY <3>5, <3>6
  <2>2. CASE Stop
    <3>1. PICK e : e = [kind |-> "Status", place |-> places + 1, stopped |-> TRUE]
      OBVIOUS
    <3>2. e \in Events /\ e.kind = "Status" /\ e.place = places + 1
      BY <1>2, <3>1 DEF Events
    <3>3. Emit(<<e>>)
      BY <2>2, <3>1 DEF Stop
    <3> QED
      BY <3>2, <3>3
  <2> QED
    BY <2>1, <2>2
<1> QED
  BY <1>1, <1>3, <1>4, NoteAhead

-----------------------------------------------------------------------------
(* The sinks: the words and the terminals ahead *)

\* What the workers have done stays.
DoneKept ==
  UNCHANGED <<scenario, asked, happened, answering, given, places, spoken>>

LEMMA DoneRests ==
  ASSUME DoneKept
  PROVE  /\ ReadyIsAsked => ReadyIsAsked'
         /\ \A t : Latest(t) => Latest(t)'
BY DEF DoneKept, ReadyIsAsked, Latest

\* Nothing of what the two invariants speak of changes.
LEMMA RestsAhead ==
  ASSUME SinksAhead, DoneKept, UNCHANGED <<telemetry, inside, channels, closed>>
  PROVE  SinksAhead'
<1>1. UNCHANGED <<sinkPc, rec, summary, innerPc, term, inner, output, closed>>
  BY DEF telemetry, inside, channels
<1>2. ReadyIsAsked'
  BY DoneRests DEF SinksAhead
<1>3. SinksInOrder'
  BY <1>1 DEF SinksAhead, SinksInOrder, DoneKept
<1>4. WordsAhead'
  BY <1>1 DEF SinksAhead, WordsAhead, DoneKept
<1>5. TerminalsAhead'
  BY <1>1, DoneRests DEF SinksAhead, TerminalsAhead, DoneKept
<1> QED
  BY <1>2, <1>3, <1>4, <1>5 DEF SinksAhead

LEMMA QuietAhead ==
  ASSUME SinksAhead, CloseWindow \/ Quit \/ UNCHANGED vars
  PROVE  SinksAhead'
<1>1. UNCHANGED <<windows, llm, history, telemetry, inside, channels, scenario, closed>>
  BY DEF CloseWindow, Quit, vars, app
<1>2. DoneKept
  BY <1>1 DEF DoneKept, windows, llm, history
<1> QED
  BY <1>1, <1>2, RestsAhead

LEMMA ForwardWords ==
  ASSUME IInv, SinksAhead, ForwardEvent
  PROVE  WordsAhead'
<1>1. /\ sinkPc = "forwarding" /\ output # <<>> /\ output' = Tail(output)
      /\ rec' = Recorder!Record(rec, Head(output)) /\ spoken' = spoken
  BY DEF ForwardEvent, history
<1>2. PICK events \in Seq(Events) : events = output
  BY DEF IInv, Typing
<1>3. PICK e \in Events : e = Head(events)
  BY <1>1, <1>2, HeadTailProperties
<1>4. PICK r \in Record : r = rec
  <2>1. PICK t : Leads(rec, output, happened, revisions, t)
    BY <1>1 DEF IInv, RecordersAhead
  <2> QED
    BY <1>2, <2>1, LeadsFromTo
<1>5. PICK said \in Seq(Nat) :
        WordsSettled(r, said) /\ Way(Sayings, Seq(Nat), said, events, spoken)
  BY <1>1, <1>2, <1>4 DEF SinksAhead, WordsAhead
<1>6. PICK next \in Seq(Nat) :
        <<said, e, next>> \in Sayings /\ Way(Sayings, Seq(Nat), next, Tail(events), spoken)
  BY <1>1, <1>2, <1>3, <1>5, WayFromNext
<1>7. next = SaidAfter(said, e)
  BY <1>6 DEF Sayings
<1>8. WordsSettled(Recorder!Record(r, e), next)
  BY <1>5, <1>7, WordsFollow
<1>9. WordsSettled(rec', next) /\ Way(Sayings, Seq(Nat), next, output', spoken')
  BY <1>1, <1>2, <1>3, <1>4, <1>6, <1>8
<1>10. spoken' \in Seq(Nat)
  BY <1>1 DEF SinksAhead, WordsAhead
<1> QED
  BY <1>9, <1>10 DEF WordsAhead

\* The first of the events that wait in the output channel waits for the sink inside.
LEMMA ForwardTerminals ==
  ASSUME IInv, SinksAhead, ForwardEvent
  PROVE  TerminalsAhead'
<1>1. /\ sinkPc = "forwarding" /\ output # <<>> /\ output' = Tail(output)
      /\ UNCHANGED <<windows, llm, history, scenario, term, innerPc>>
  BY DEF ForwardEvent, inside, app
<1>2. DoneKept
  BY <1>1 DEF DoneKept, windows, llm, history
<1>3. term' \in Terminals /\ Right(scenario'.sink, term')
  BY <1>1 DEF SinksAhead, TerminalsAhead
<1>4. CASE innerPc # "running"
  <2>1. sinkPc' = "error"
    BY <1>4 DEF ForwardEvent
  <2>2. innerPc = "failed"
    BY <1>1, <1>4 DEF IInv, Typing, SinksTyped, SinksAhead, SinksInOrder
  <2> QED
    BY <1>1, <1>3, <2>1, <2>2 DEF TerminalsAhead
<1>5. CASE innerPc = "running"
  <2>1. PICK events \in Seq(Events) : events = output
    BY DEF IInv, Typing
  <2>2. PICK e \in Events : e = Head(events)
    BY <1>1, <2>1, HeadTailProperties
  <2>3. PICK waiting \in Seq(Events) : waiting = inner
    BY DEF IInv, Typing, SinksTyped
  <2>4. inner' = Append(waiting, e) /\ sinkPc' = "forwarding"
    BY <1>1, <1>5, <2>1, <2>2, <2>3 DEF ForwardEvent
  <2>5. PICK R : R = Renders(scenario.sink)
    OBVIOUS
  <2>6. PICK mid \in Terminals :
          /\ Way(R, Terminals, term, waiting, mid)
          /\ \E t \in Terminals : Way(R, Terminals, mid, events, t) /\ Latest(t)
    BY <1>1, <1>5, <2>1, <2>3, <2>5 DEF SinksAhead, TerminalsAhead
  <2>7. PICK t \in Terminals : Way(R, Terminals, mid, events, t) /\ Latest(t)
    BY <2>6
  <2>8. PICK next \in Terminals :
          <<mid, e, next>> \in R /\ Way(R, Terminals, next, Tail(events), t)
    BY <1>1, <2>1, <2>2, <2>7, WayFromNext
  <2>9. Way(R, Terminals, term, Append(waiting, e), next)
    BY <2>6, <2>8, WayFurther
  <2>10. Latest(t)'
    BY <1>2, <2>7, DoneRests
  <2>11. Way(R, Terminals, term', inner', next) /\ Way(R, Terminals, next, output', t)
    BY <1>1, <2>1, <2>4, <2>8, <2>9
  <2>12. R = Renders(scenario'.sink)
    BY <1>1, <2>5
  <2> QED
    BY <1>3, <2>10, <2>11, <2>12 DEF TerminalsAhead
<1> QED
  BY <1>4, <1>5

LEMMA ForwardAhead ==
  ASSUME IInv, SinksAhead, ForwardEvent
  PROVE  SinksAhead'
<1>1. UNCHANGED <<windows, llm, history, scenario, closed, innerPc>> /\ sinkPc = "forwarding"
  BY DEF ForwardEvent, inside, app
<1>2. DoneKept
  BY <1>1 DEF DoneKept, windows, llm, history
<1>3. ReadyIsAsked'
  BY <1>2, DoneRests DEF SinksAhead
<1>4. sinkPc' \in {"forwarding", "error"}
  BY <1>1 DEF ForwardEvent
<1>5. innerPc # "ended"
  BY <1>1 DEF SinksAhead, SinksInOrder
<1>6. SinksInOrder'
  BY <1>1, <1>2, <1>4, <1>5 DEF SinksAhead, SinksInOrder, DoneKept
<1> QED
  BY <1>3, <1>6, ForwardWords, ForwardTerminals DEF SinksAhead

\* The events that wait are lost: nothing is ahead any more but what the sink inside
\* has to show.
LEMMA FailureAhead ==
  ASSUME SinksAhead, DoneKept, UNCHANGED <<innerPc, term, inner, closed>>, sinkPc' = "error"
  PROVE  SinksAhead'
<1>1. ReadyIsAsked'
  BY DoneRests DEF SinksAhead
<1>2. SinksInOrder'
  BY DEF SinksAhead, SinksInOrder, DoneKept
<1>3. WordsAhead'
  BY DEF SinksAhead, WordsAhead, DoneKept
<1>4. TerminalsAhead'
  BY DEF SinksAhead, TerminalsAhead, DoneKept
<1> QED
  BY <1>1, <1>2, <1>3, <1>4 DEF SinksAhead

\* The sink goes on to its end.
LEMMA GoesOnAhead ==
  ASSUME SinksAhead, DoneKept, UNCHANGED <<rec, output, innerPc, term, inner, closed>>,
         sinkPc # "error", sinkPc' \in {"awaiting", "finishing", "ok"}, closed, output = <<>>,
         sinkPc' # "awaiting" => innerPc = "ended",
         sinkPc' = "ok" => summary' = <<Recorder!Summarised(rec)>>
  PROVE  SinksAhead'
<1>1. ReadyIsAsked'
  BY DoneRests DEF SinksAhead
<1>2. SinksInOrder'
  BY DEF SinksAhead, SinksInOrder, DoneKept
<1>3. WordsAhead'
  BY DEF SinksAhead, WordsAhead, DoneKept
<1>4. TerminalsAhead'
  BY DoneRests DEF SinksAhead, TerminalsAhead, DoneKept
<1> QED
  BY <1>1, <1>2, <1>3, <1>4 DEF SinksAhead

LEMMA SinkEndAhead ==
  ASSUME IInv, SinksAhead,
         RecordFails \/ EndOfEvents \/ AwaitInner \/ \E written \in BOOLEAN : Finish(written)
  PROVE  SinksAhead'
<1>1. UNCHANGED <<windows, llm, history, scenario, closed, rec, inside, inner>>
  BY DEF RecordFails, EndOfEvents, AwaitInner, Finish, channels, app
<1>2. DoneKept
  BY <1>1 DEF DoneKept, windows, llm, history
<1>3. UNCHANGED <<innerPc, term>>
  BY <1>1 DEF inside
<1>4. CASE sinkPc' = "error"
  BY <1>1, <1>2, <1>3, <1>4, FailureAhead
<1>5. CASE sinkPc' # "error"
  <2>1. UNCHANGED output /\ sinkPc # "error" /\ closed /\ output = <<>>
    BY <1>5 DEF RecordFails, EndOfEvents, AwaitInner, Finish, channels, SinksAhead, SinksInOrder
  <2>2. sinkPc' \in {"awaiting", "finishing", "ok"}
    BY <1>5 DEF RecordFails, EndOfEvents, AwaitInner, Finish
  <2>3. sinkPc' # "awaiting" => innerPc = "ended"
    BY <1>5 DEF RecordFails, EndOfEvents, AwaitInner, Finish, SinksAhead, SinksInOrder
  <2>4. sinkPc' = "ok" => summary' = <<Recorder!Summarised(rec)>>
    BY DEF RecordFails, EndOfEvents, AwaitInner, Finish
  <2> QED
    BY <1>1, <1>2, <1>3, <2>1, <2>2, <2>3, <2>4, GoesOnAhead
<1> QED
  BY <1>4, <1>5

\* The sink inside takes the first of the events that wait for it, and is right.
LEMMA RenderAhead ==
  ASSUME IInv, SinksAhead, RenderEvent
  PROVE  SinksAhead'
<1>1. /\ innerPc = "running" /\ inner # <<>> /\ inner' = Tail(inner)
      /\ term' = Take(scenario.sink, term, Head(inner))
      /\ UNCHANGED <<windows, llm, history, telemetry, output, innerPc, scenario, closed>>
  BY DEF RenderEvent, Take, app
<1>2. DoneKept
  BY <1>1 DEF DoneKept, windows, llm, history
<1>3. UNCHANGED <<sinkPc, rec, summary>>
  BY <1>1 DEF telemetry
<1>4. PICK waiting \in Seq(Events) : waiting = inner
  BY DEF IInv, Typing, SinksTyped
<1>5. PICK e \in Events : e = Head(waiting)
  BY <1>1, <1>4, HeadTailProperties
<1>6. PICK sink : sink = scenario.sink
  OBVIOUS
<1>7. PICK mid \in Terminals :
        /\ Way(Renders(sink), Terminals, term, waiting, mid)
        /\ sinkPc # "error" =>
             \E t \in Terminals : Way(Renders(sink), Terminals, mid, output, t) /\ Latest(t)
  BY <1>1, <1>4, <1>6 DEF SinksAhead, TerminalsAhead
<1>8. PICK next \in Terminals :
        /\ <<term, e, next>> \in Renders(sink)
        /\ Way(Renders(sink), Terminals, next, Tail(waiting), mid)
  BY <1>1, <1>4, <1>5, <1>7, WayFromNext
<1>9. next = Take(sink, term, e) /\ Right(sink, next)
  BY <1>8 DEF Renders
<1>10. term' = next
  BY <1>1, <1>4, <1>5, <1>6, <1>9
<1>11. Way(Renders(sink), Terminals, term', inner', mid)
  BY <1>1, <1>4, <1>8, <1>10
<1>12. sinkPc' # "error" =>
         \E t \in Terminals : Way(Renders(sink), Terminals, mid, output', t) /\ Latest(t)'
  BY <1>1, <1>2, <1>3, <1>7, DoneRests
<1>13. scenario'.sink = sink
  BY <1>1, <1>6
<1>14. TerminalsAhead'
  BY <1>9, <1>10, <1>11, <1>12, <1>13 DEF TerminalsAhead
<1>15. ReadyIsAsked'
  BY <1>2, DoneRests DEF SinksAhead
<1>16. SinksInOrder'
  BY <1>1, <1>2, <1>3 DEF SinksAhead, SinksInOrder, DoneKept
<1>17. WordsAhead'
  BY <1>1, <1>2, <1>3 DEF SinksAhead, WordsAhead, DoneKept
<1> QED
  BY <1>14, <1>15, <1>16, <1>17 DEF SinksAhead

LEMMA InnerEndAhead ==
  ASSUME IInv, SinksAhead, RenderFails \/ InnerEnds
  PROVE  SinksAhead'
<1>1. /\ innerPc = "running"
      /\ innerPc' = "failed" \/ (innerPc' = "ended" /\ inner' = inner /\ inner = <<>> /\ ~innerOpen)
      /\ UNCHANGED <<windows, llm, history, telemetry, output, term, scenario, closed>>
  BY DEF RenderFails, InnerEnds, channels, app
<1>2. DoneKept
  BY <1>1 DEF DoneKept, windows, llm, history
<1>3. UNCHANGED <<sinkPc, rec, summary>>
  BY <1>1 DEF telemetry
<1>4. ReadyIsAsked'
  BY <1>2, DoneRests DEF SinksAhead
<1>5. SinksInOrder'
  <2>1. innerPc' = "ended" => inner' = <<>> /\ sinkPc # "forwarding"
    BY <1>1 DEF IInv, Typing, SinksTyped
  <2>2. sinkPc \notin {"finishing", "ok"}
    BY <1>1 DEF SinksAhead, SinksInOrder
  <2> QED
    BY <1>1, <1>2, <1>3, <2>1, <2>2 DEF SinksAhead, SinksInOrder, DoneKept
<1>6. WordsAhead'
  BY <1>1, <1>2, <1>3 DEF SinksAhead, WordsAhead, DoneKept
<1>7. TerminalsAhead'
  <2>1. CASE innerPc' = "failed"
    BY <1>1, <2>1 DEF SinksAhead, TerminalsAhead
  <2>2. CASE innerPc' = "ended"
    BY <1>1, <1>2, <1>3, <2>2, DoneRests DEF SinksAhead, TerminalsAhead
  <2> QED
    BY <1>1, <2>1, <2>2
<1> QED
  BY <1>4, <1>5, <1>6, <1>7 DEF SinksAhead

-----------------------------------------------------------------------------
(* The second invariant *)

\* Nothing happened, and nothing is shown.
LEMMA NothingIsSettled ==
  ASSUME NEW t, t = Terminal!EmptyTerminal, NEW hap, hap = [r \in Requests |-> {}], NEW sink
  PROVE  t \in Terminals /\ Settled(sink, t, hap, None, 0, 0)
<1>1. /\ t.active = None /\ t.pending = <<>> /\ t.screen = <<>> /\ t.stopped = FALSE
      /\ t.stats = Terminal!NoStats
  BY DEF Terminal!EmptyTerminal
<1>2. Terminal!NoStats \in Stats /\ t.stats.transcripts = 0
      /\ t.stats.started = 0 /\ t.stats.completed = 0 /\ t.stats.failed = 0
  BY <1>1 DEF Terminal!NoStats, Stats
<1>3. <<>> \in Seq(Events) /\ <<>> \in Seq(Blocks) /\ <<>> \in Seq(Notes) /\ Len(<<>>) = 0
  BY EmptyIsSeq
<1>4. t \in Terminals
  BY <1>1, <1>2, <1>3 DEF Terminals, Terminal!EmptyTerminal, Owners
<1>5. \A what : {r \in Requests : what \in hap[r]} = {}
  OBVIOUS
<1>6. Cardinality({}) = 0
  BY FS_EmptySet
<1>7. \A what : Count(hap, what) = 0
  BY <1>5, <1>6 DEF Count
<1>8. Counted(t, hap)
  BY <1>2, <1>7 DEF Counted
<1>9. Ready(hap) = {}
  BY DEF Ready
<1>10. \A r : ~Waits(<<>>, 0, r)
  BY <1>3 DEF Waits
<1>11. Answerable(<<>>, 0, Ready(hap)) = {}
  BY <1>9 DEF Answerable
<1>12. Agrees(t, <<>>, 0, Ready(hap), 0)
  <2>1. ScreenInOrder(<<>>) /\ WaitInOrder(<<>>, <<>>, 0) /\ AllPlaced(<<>>, <<>>, 0, 0)
    BY <1>3 DEF ScreenInOrder, WaitInOrder, AllPlaced
  <2>2. AllAsked(<<>>, <<>>, 0, {})
    BY <1>3, <1>10 DEF AllAsked
  <2> QED
    BY <1>1, <1>2, <1>6, <1>9, <1>11, <2>1, <2>2 DEF Agrees
<1>13. AnswersShown(t)
  BY <1>1, <1>3 DEF AnswersShown
<1>14. TerminalSettled(t, hap, None, 0, 0)
  BY <1>1, <1>3, <1>12, <1>13 DEF TerminalSettled
<1>15. OverlaySettled(t, hap)
  BY <1>1, <1>2, <1>6, <1>9 DEF OverlaySettled
<1> QED
  BY <1>4, <1>8, <1>14, <1>15 DEF Settled

LEMMA InitSinksAhead ==
  ASSUME Init
  PROVE  SinksAhead
<1>1. /\ asked = [s \in Speakers |-> 0] /\ happened = [r \in Requests |-> {}]
      /\ answering = None /\ given = 0 /\ places = 0 /\ output = <<>> /\ inner = <<>>
      /\ sinkPc = "forwarding" /\ innerPc = "running" /\ spoken = <<>>
      /\ rec = Recorder!EmptyRecorder /\ term = Terminal!EmptyTerminal
  BY DEF Init
<1>2. closed = FALSE
  BY Zenon DEF Init
<1>3. ReadyIsAsked
  BY <1>1 DEF ReadyIsAsked, Requests
<1>4. SinksInOrder
  BY <1>1, <1>2 DEF SinksInOrder
<1>5. WordsAhead
  <2>1. /\ rec.utteranceOpen = FALSE /\ rec.segments = <<>> /\ rec.pending = <<>>
        /\ rec.utterances = <<>>
    BY <1>1 DEF Recorder!EmptyRecorder
  <2>2. Texts(<<>>) = <<>>
    BY DEF Texts
  <2>3. FlattenSeq(<<>>) = <<>> /\ <<>> \o <<>> = <<>>
    BY DEF FlattenSeq
  <2>4. WordsSettled(rec, <<>>)
    BY <2>1, <2>2, <2>3 DEF WordsSettled
  <2>5. <<>> \in Seq(Nat)
    BY EmptyIsSeq
  <2>6. Way(Sayings, Seq(Nat), <<>>, output, spoken)
    BY <1>1, <2>5, WayNowhere
  <2> QED
    BY <1>1, <2>4, <2>5, <2>6 DEF WordsAhead
<1>6. TerminalsAhead
  <2>1. PICK t : t = term
    OBVIOUS
  <2>2. t \in Terminals /\ Settled(scenario.sink, t, happened, None, 0, 0)
    BY <1>1, <2>1, NothingIsSettled
  <2>3. Right(scenario.sink, t)
    BY <2>2, SettledIsRight
  <2>4. Latest(t)
    BY <1>1, <2>2 DEF Latest
  <2>5. Way(Renders(scenario.sink), Terminals, t, <<>>, t)
    BY <2>2, WayNowhere
  <2> QED
    BY <1>1, <2>1, <2>2, <2>3, <2>4, <2>5 DEF TerminalsAhead
<1> QED
  BY <1>3, <1>4, <1>5, <1>6 DEF SinksAhead

LEMMA NextSinksAhead ==
  ASSUME IInv, SinksAhead, [Next]_vars
  PROVE  SinksAhead'
<1>1. CASE \E final, boundary \in BOOLEAN : Hear(final, boundary)
  BY <1>1, HearAhead
<1>2. CASE SpeechStarts \/ \E applied \in BOOLEAN : UtteranceEnds(applied)
  BY <1>2, MarkAhead
<1>3. CASE Discard
  BY <1>3, DiscardAhead
<1>4. CASE \E s \in Speakers : \E mode \in scenario.modes : Ask(s, mode)
  BY <1>4, AskAhead
<1>5. CASE \E s \in Speakers : Queue(s) \/ Queued(s)
  BY <1>5, QueueAhead, QueuedAhead
<1>6. CASE \E found \in BOOLEAN : Resolve(found)
  BY <1>6, ResolveAhead
<1>7. CASE StartAnswer
  BY <1>7, StartAnswerAhead
<1>8. CASE GiveDelta
  BY <1>8, GiveDeltaAhead
<1>9. CASE GiveUsage
  BY <1>9, GiveUsageAhead
<1>10. CASE UpdateLiveCoding \/ ClearHistory
  BY <1>10, RevisionAhead
<1>11. CASE CompleteAnswer \/ FailAnswer
  BY <1>11, EndAhead
<1>12. CASE Notice \/ Stop
  BY <1>12, NoticeAhead
<1>13. CASE CloseWindow \/ Quit \/ UNCHANGED vars
  BY <1>13, QuietAhead
<1>14. CASE ForwardEvent
  BY <1>14, ForwardAhead
<1>15. CASE RecordFails \/ EndOfEvents \/ AwaitInner \/ \E written \in BOOLEAN : Finish(written)
  BY <1>15, SinkEndAhead
<1>16. CASE RenderEvent
  BY <1>16, RenderAhead
<1>17. CASE RenderFails \/ InnerEnds
  BY <1>17, InnerEndAhead
<1> QED
  BY <1>1, <1>2, <1>3, <1>4, <1>5, <1>6, <1>7, <1>8, <1>9, <1>10, <1>11, <1>12, <1>13,
     <1>14, <1>15, <1>16, <1>17 DEF Next, Produce, RunSink, RunInner

LEMMA SinksInvariance == Spec => [](IInv /\ SinksAhead)
BY InitIInv, NextIInv, InitSinksAhead, NextSinksAhead, PTL DEF Spec

-----------------------------------------------------------------------------
(* The bounds of a run *)

\* The bounds are numbers.
LEMMA BoundsAre ==
  ASSUME Typing
  PROVE  /\ scenario.words \in Nat /\ scenario.marks \in Nat /\ scenario.clears \in Nat
         /\ scenario.deltas \in Nat /\ Len(scenario.notices) \in Nat
         /\ scenario.modes \subseteq {"voice", "live_coding"}
<1>1. /\ scenario.words \in Nat /\ scenario.marks \in Nat /\ scenario.clears \in Nat
      /\ scenario.deltas \in Nat /\ scenario.notices \in Seq({"Status", "ModeChanged"})
      /\ scenario.modes \subseteq {"voice", "live_coding"}
  BY ScenariosAssumption DEF Typing
<1> QED
  BY <1>1, LenProperties

LEMMA InitBounds ==
  ASSUME Init, IInv
  PROVE  BoundsOK
<1>1. /\ words = 0 /\ marks = 0 /\ clears = 0 /\ given = 0 /\ notices = 0
      /\ modes = [r \in Requests |-> None]
  BY DEF Init
<1>2. closed \in BOOLEAN /\ exited \in BOOLEAN
  BY Zenon DEF Init
<1> QED
  BY <1>1, <1>2, BoundsAre DEF BoundsOK, IInv

\* One of them is counted up, or none.
LEMMA BoundsStep ==
  ASSUME IInv, BoundsOK, scenario' = scenario,
         UNCHANGED words \/ (words < scenario.words /\ words' = words + 1),
         UNCHANGED marks \/ (marks < scenario.marks /\ marks' = marks + 1),
         UNCHANGED clears \/ (clears < scenario.clears /\ clears' = clears + 1),
         UNCHANGED given \/ given' = 0 \/ (given < scenario.deltas /\ given' = given + 1),
         UNCHANGED notices
           \/ (notices < Len(scenario.notices) /\ notices' = notices + 1),
         UNCHANGED modes,
         closed' \in BOOLEAN, exited' \in BOOLEAN
  PROVE  BoundsOK'
<1> USE BoundsAre DEF IInv
<1>1. words' \in 0..scenario.words
  BY DEF BoundsOK
<1>2. marks' \in 0..scenario.marks
  BY DEF BoundsOK
<1>3. clears' \in 0..scenario.clears
  BY DEF BoundsOK
<1>4. given' \in 0..scenario.deltas
  BY DEF BoundsOK
<1>5. notices' \in 0..Len(scenario.notices)
  BY DEF BoundsOK
<1> QED
  BY <1>1, <1>2, <1>3, <1>4, <1>5 DEF BoundsOK

LEMMA NextBounds ==
  ASSUME IInv, BoundsOK, [Next]_vars
  PROVE  BoundsOK'
<1> DEFINE Fixed == UNCHANGED <<scenario, modes, closed, exited>>
<1>1. ASSUME NEW final \in BOOLEAN, NEW boundary \in BOOLEAN, Hear(final, boundary)
      PROVE  BoundsOK'
  <2>1. /\ Fixed /\ UNCHANGED <<marks, clears, given, notices>>
        /\ words < scenario.words /\ words' = words + 1
    BY <1>1 DEF Hear, llm, app
  <2> QED
    BY <2>1, BoundsStep DEF BoundsOK
<1>2. CASE SpeechStarts \/ \E applied \in BOOLEAN : UtteranceEnds(applied)
  <2>1. /\ Fixed /\ UNCHANGED <<words, clears, given, notices>>
        /\ marks < scenario.marks /\ marks' = marks + 1
    BY <1>2 DEF SpeechStarts, UtteranceEnds, Mark, llm, app
  <2> QED
    BY <2>1, BoundsStep DEF BoundsOK
<1>3. ASSUME NEW s \in Speakers, NEW mode \in scenario.modes, Ask(s, mode)
      PROVE  BoundsOK'
  <2>1. /\ UNCHANGED <<scenario, closed, exited, words, marks, clears, given, notices>>
        /\ \E r \in {<<s, asked[s] + 1>>} : modes' = [modes EXCEPT ![r] = mode]
    BY <1>3 DEF Ask, app
  <2>2. mode \in {"voice", "live_coding"}
    BY BoundsAre DEF IInv
  <2>3. modes' \in [Requests -> {"voice", "live_coding", None}]
    BY <2>1, <2>2 DEF BoundsOK
  <2> QED
    BY <2>1, <2>3 DEF BoundsOK
<1>4. CASE GiveDelta
  <2>1. /\ Fixed /\ UNCHANGED <<words, marks, clears, notices>>
        /\ given < scenario.deltas /\ given' = given + 1
    BY <1>4 DEF GiveDelta, windows, app
  <2> QED
    BY <2>1, BoundsStep DEF BoundsOK
<1>5. CASE StartAnswer
  <2>1. /\ Fixed /\ UNCHANGED <<words, marks, clears, notices>> /\ given' = 0
    BY <1>5 DEF StartAnswer, windows, app
  <2> QED
    BY <2>1, BoundsStep DEF BoundsOK
<1>6. CASE ClearHistory
  <2>1. /\ Fixed /\ UNCHANGED <<words, marks, given, notices>>
        /\ clears < scenario.clears /\ clears' = clears + 1
    BY <1>6 DEF ClearHistory, app
  <2> QED
    BY <2>1, BoundsStep DEF BoundsOK
<1>7. CASE Notice
  <2>1. /\ Fixed /\ UNCHANGED <<words, marks, clears, given>>
        /\ notices < Len(scenario.notices) /\ notices' = notices + 1
    BY <1>7 DEF Notice, llm
  <2> QED
    BY <2>1, BoundsStep DEF BoundsOK
<1> DEFINE Counters == UNCHANGED <<scenario, modes, words, marks, clears, given, notices>>
<1>8. CASE Stop
  <2>1. Counters /\ closed' = TRUE /\ exited' = exited
    BY <1>8 DEF Stop, llm
  <2>2. closed' \in BOOLEAN
    BY <2>1, Zenon
  <2> QED
    BY <2>1, <2>2, BoundsStep DEF BoundsOK
<1>9. CASE Quit
  <2>1. Counters /\ exited' = TRUE /\ closed' = closed
    BY <1>9 DEF Quit, windows, llm
  <2>2. exited' \in BOOLEAN
    BY <2>1, Zenon
  <2> QED
    BY <2>1, <2>2, BoundsStep DEF BoundsOK
<1>10. ASSUME Fixed, UNCHANGED <<words, marks, clears, given, notices>>
       PROVE  BoundsOK'
  BY <1>10, BoundsStep DEF BoundsOK
<1>11. CASE Discard \/ CloseWindow \/ GiveUsage \/ UpdateLiveCoding
  BY <1>10, <1>11 DEF Discard, CloseWindow, GiveUsage, UpdateLiveCoding, windows, llm, app
<1>12. CASE CompleteAnswer \/ FailAnswer
  BY <1>10, <1>12 DEF CompleteAnswer, FailAnswer, windows, app
<1>13. CASE \E s \in Speakers : Queue(s) \/ Queued(s)
  BY <1>10, <1>13 DEF Queue, Queued, llm, app
<1>14. CASE \E found \in BOOLEAN : Resolve(found)
  BY <1>10, <1>14 DEF Resolve, llm, app
<1>15. CASE ForwardEvent \/ RecordFails \/ EndOfEvents \/ AwaitInner
  BY <1>10, <1>15 DEF ForwardEvent, RecordFails, EndOfEvents, AwaitInner, windows, llm, app
<1>16. CASE (\E written \in BOOLEAN : Finish(written)) \/ RunInner
  BY <1>10, <1>16 DEF Finish, RunInner, RenderEvent, RenderFails, InnerEnds, windows, llm, app
<1>17. CASE UNCHANGED vars
  BY <1>10, <1>17 DEF vars, windows, llm, app
<1> HIDE DEF Fixed, Counters
<1> QED
  BY <1>1, <1>2, <1>3, <1>4, <1>5, <1>6, <1>7, <1>8, <1>9, <1>11, <1>12, <1>13, <1>14,
     <1>15, <1>16, <1>17 DEF Next, Produce, RunSink

LEMMA BoundsInvariance == Spec => [](IInv /\ BoundsOK)
BY InitIInv, NextIInv, InitBounds, NextBounds, PTL DEF Spec

\* The type invariant: the workers, the recorder, the sink inside and what is
\* remembered of the run have their types and keep within its bounds; the workers, the
\* sinks and the channels are in step with their program counters; a summary is there
\* when and only when the sink returned without an error (TelemetryOutputSink::run).
THEOREM TypeCorrect == Spec => []TypeOK
<1>1. ASSUME IInv, SinksAhead, BoundsOK
      PROVE  TypeOK
  <2>1. output \in Seq(Events)
    BY <1>1 DEF IInv, Typing
  <2>2. rec \in Record
    BY <1>1, <2>1, LeadsFromTo DEF IInv, RecordersAhead
  <2>3. term \in Terminals /\ spoken \in Seq(Nat)
    BY <1>1 DEF SinksAhead, TerminalsAhead, WordsAhead
  <2>4. summary = IF sinkPc = "ok" THEN <<Recorder!Summarised(rec)>> ELSE <<>>
    BY <1>1 DEF IInv, Typing, SinksTyped, SinksAhead, SinksInOrder
  <2> QED
    BY <1>1, <2>1, <2>2, <2>3, <2>4
    DEF IInv, Typing, WindowsTyped, LlmTyped, SinksTyped, TypeOK
<1> QED
  BY <1>1, SinksInvariance, BoundsInvariance, PTL

-----------------------------------------------------------------------------
(* What the second invariant says *)

\* What the terminal shows is what was emitted: the notes in their order, each of
\* them once, kept back while an answer is shown and no longer; an answer is one
\* block of its deltas below its question, and nothing is shown below it before it
\* ends: however the workers, the sink and the renderer take turns, and whatever is
\* lost at a failure (TerminalRenderer::render and flush_pending).
THEOREM ScreenFollows == Spec => []ScreenFollowsEvents
<1>1. IInv /\ SinksAhead => ScreenFollowsEvents
  <2> SUFFICES ASSUME IInv, SinksAhead, scenario.sink = "terminal"
               PROVE  /\ InOrder(Places(term))
                      /\ term.pending # <<>> => term.active # None
                      /\ \A i \in DOMAIN term.screen :
                           term.screen[i].what = "answer" =>
                             /\ term.screen[i].deltas = UpTo(Len(term.screen[i].deltas))
                             /\ term.screen[i].end = "open" <=>
                                  (i = Len(term.screen) /\ term.active = term.screen[i].id)
                             /\ \E j \in 1..(i - 1) :
                                  /\ term.screen[j].what = "question"
                                  /\ term.screen[j].id = term.screen[i].id
    BY DEF ScreenFollowsEvents
  <2>1. /\ term \in Terminals /\ InOrder(Places(term)) /\ AnswersShown(term)
        /\ term.pending # <<>> => term.active # None
    BY DEF SinksAhead, TerminalsAhead, Right
  <2>2. term.screen \in Seq(Blocks)
    BY <2>1 DEF Terminals
  <2>3. DOMAIN term.screen = 1..Len(term.screen)
    BY <2>2, LenProperties
  <2> QED
    BY <2>1, <2>3 DEF AnswersShown, Shows
<1> QED
  BY <1>1, SinksInvariance, PTL

\* What is there when the summary was written.
LEMMA SummaryIsOf ==
  ASSUME IInv, SinksAhead, summary # <<>>
  PROVE  /\ sinkPc = "ok" /\ closed /\ output = <<>> /\ inner = <<>> /\ innerPc = "ended"
         /\ answering = None /\ rec \in Record /\ AnswersSettled(rec)
         /\ WordsSettled(rec, spoken) /\ spoken \in Seq(Nat)
         /\ summary = <<Recorder!Summarised(rec)>>
<1>1. /\ sinkPc = "ok" /\ closed /\ output = <<>> /\ inner = <<>> /\ innerPc = "ended"
      /\ answering = None /\ summary = <<Recorder!Summarised(rec)>>
  BY DEF IInv, Typing, SinksTyped, SinksAhead, SinksInOrder
<1>2. output \in Seq(Events)
  BY DEF IInv, Typing
<1>3. PICK t \in Record : Leads(rec, output, happened, revisions, t) /\ AnswersSettled(t)
  BY <1>1 DEF IInv, RecordersAhead
<1>4. rec \in Record /\ AnswersSettled(rec)
  BY <1>1, <1>2, <1>3, LeadsFromTo
<1>5. PICK said \in Seq(Nat) :
        WordsSettled(rec, said) /\ Way(Sayings, Seq(Nat), said, output, spoken)
  BY <1>1 DEF SinksAhead, WordsAhead
<1>6. spoken = said
  BY <1>1, <1>2, <1>5, WayFromTo
<1> QED
  BY <1>1, <1>4, <1>5, <1>6

\* What the sink inside counted and shows at that time.
LEMMA StatsAreOf ==
  ASSUME IInv, SinksAhead, summary # <<>>
  PROVE  /\ term.active = None /\ term.pending = <<>>
         /\ term.stats.transcripts = Count(happened, "ready")
         /\ term.stats.started = Count(happened, "started")
         /\ term.stats.completed = Count(happened, "completed")
         /\ term.stats.failed = Count(happened, "failed")
<1>1. /\ sinkPc = "ok" /\ output = <<>> /\ inner = <<>> /\ innerPc = "ended"
      /\ answering = None
  BY SummaryIsOf
<1>2. PICK sink : sink = scenario.sink
  OBVIOUS
<1>3. PICK mid \in Terminals :
        /\ Way(Renders(sink), Terminals, term, inner, mid)
        /\ \E t \in Terminals : Way(Renders(sink), Terminals, mid, output, t) /\ Latest(t)
  BY <1>1, <1>2 DEF SinksAhead, TerminalsAhead
<1>4. PICK t \in Terminals : Way(Renders(sink), Terminals, mid, output, t) /\ Latest(t)
  BY <1>3
<1>5. inner \in Seq(Events) /\ output \in Seq(Events)
  BY DEF IInv, Typing, SinksTyped
<1>6. mid = term
  BY <1>1, <1>3, <1>5, WayFromTo
<1>7. t = mid
  BY <1>1, <1>4, <1>5, WayFromTo
<1>8. Settled(scenario.sink, term, happened, None, given, places)
  BY <1>1, <1>4, <1>6, <1>7 DEF Latest
<1>9. Counted(term, happened)
  BY <1>8 DEF Settled
<1>10. Count(happened, "ready") = Cardinality(Ready(happened))
  BY DEF Count, Ready
<1>11. CASE scenario.sink = "terminal"
  <2>1. TerminalSettled(term, happened, None, given, places)
    BY <1>8, <1>11 DEF Settled
  <2>2. /\ term.active = None /\ term.pending = <<>>
        /\ Agrees(term, <<>>, 0, Ready(happened), places)
    BY <2>1 DEF TerminalSettled
  <2>3. \A r : ~Waits(<<>>, 0, r)
    BY DEF Waits
  <2>4. Answerable(<<>>, 0, Ready(happened)) = Ready(happened)
    BY <2>3 DEF Answerable
  <2>5. term.stats.transcripts = Cardinality(Ready(happened))
    BY <2>2, <2>4 DEF Agrees
  <2> QED
    BY <1>9, <1>10, <2>2, <2>5 DEF Counted
<1>12. CASE scenario.sink # "terminal"
  <2>1. OverlaySettled(term, happened)
    BY <1>8, <1>12 DEF Settled
  <2> QED
    BY <1>9, <1>10, <2>1 DEF Counted, OverlaySettled
<1> QED
  BY <1>11, <1>12

\* A summary that was written has every request as it was, every revision and every
\* word that was recognised, once, as segments and as utterances; the statistics of
\* the sink inside agree with it, and the terminal keeps nothing back: for every
\* order of the workers and whatever failed before (TelemetryOutputSink::run and
\* TelemetryRecorder::finish).
THEOREM SummaryComplete == Spec => []SummaryIsComplete
<1>1. IInv /\ SinksAhead => SummaryIsComplete
  <2> SUFFICES ASSUME IInv, SinksAhead, summary # <<>>
               PROVE  SummaryIsComplete
    BY DEF SummaryIsComplete
  <2>1. /\ closed /\ output = <<>> /\ inner = <<>> /\ innerPc = "ended"
        /\ summary = <<Recorder!Summarised(rec)>>
    BY SummaryIsOf
  <2>2. PICK r \in Record : r = rec /\ AnswersSettled(r) /\ WordsSettled(r, spoken)
    BY SummaryIsOf
  <2>3. PICK done : done = Recorder!FinishSegment(r)
    OBVIOUS
  <2>4. Head(summary) = done
    BY <2>1, <2>2, <2>3 DEF Recorder!Summarised
  <2>5. done \in Record /\ SaysTheSame(r, done) /\ done.pending = <<>>
    BY <2>3, FinishSaysTheSame
  <2>6. done.requests = r.requests /\ done.liveCoding = r.liveCoding
    BY <2>3, FinishSegmentIs DEF Unheard
  <2>7. /\ \A q \in Requests : done.requests[q].noted = happened[q]
        /\ done.liveCoding = revisions
    BY <2>2, <2>6 DEF AnswersSettled
  <2>8. WordsSettled(done, spoken)
    BY <2>2, <2>5, SummaryIsOf DEF SaysTheSame
  <2>9. done.segments \in Segments
    BY <2>5 DEF Record, Segments
  <2>10. FlattenSeq(done.segments) \in Seq(Nat)
    BY <2>9, FlattenTyped
  <2>11. FlattenSeq(done.segments) = spoken
    BY <2>5, <2>8, <2>10, ConcatEmptySeq DEF WordsSettled
  <2>12. FlattenSeq([i \in DOMAIN done.utterances |-> done.utterances[i].text]) = spoken
    BY <2>8 DEF WordsSettled, Texts
  <2>13. \A what : Cardinality(Recorder!Noted(done, what)) = Count(happened, what)
    <3>1. \A what : {q \in Requests : what \in done.requests[q].noted}
                      = {q \in Requests : what \in happened[q]}
      BY <2>7
    <3> QED
      BY <3>1 DEF Recorder!Noted, Count
  <2> QED
    BY <2>1, <2>4, <2>7, <2>11, <2>12, <2>13, StatsAreOf DEF SummaryIsComplete
<1> QED
  BY <1>1, SinksInvariance, PTL
=============================================================================
