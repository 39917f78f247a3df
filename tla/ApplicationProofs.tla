-------------------------- MODULE ApplicationProofs --------------------------
(***************************************************************************)
(* Safety of the application (app/mod.rs), of which two modules show a     *)
(* side each, with variables of their own:                                 *)
(*   - Supervisor, its tasks and how they end: the type invariant, and     *)
(*     that what the application says at its end is so, for every number   *)
(*     of questions and every order in which the tasks end;                *)
(*   - Session, the controls and statuses that pass through it: the type   *)
(*     invariant, and that commands reach everyone, for every number of    *)
(*     them.                                                               *)
(***************************************************************************)
EXTENDS Supervisor, Session, TLAPS, SequenceTheorems

-----------------------------------------------------------------------------
(* The inductive invariant of the supervision *)

\* Only the candidate's tasks are ever absent, and all of them together.
Present == \A t \in Tasks : status[t] = "absent" <=> t \in TasksOf(Candidate) /\ run # "both"

\* A question that was heard is asked once.
Holds(s) == IF s \in unsent THEN 1 ELSE 0
QuestionsCounted == asked + Holds(Interviewer) + Holds(Candidate) <= heard

\* A task that was joined is over, and did not panic unless nobody cares.
Joined(t) == Over(t) /\ (status[t] = "panicked" => t = Knowledge)

\* How far the shutdown is.
ShutdownOrder ==
  /\ ~guards => shutdown
  /\ pc \in {"loop", "eofDrain", "stopping"} => next = 1
  /\ pc = "joining" => shutdown /\ \A i \in 1..(next - 1) : Joins[i] \in Tasks => Joined(Joins[i])
  /\ stopped => shutdown
  /\ pc # "loop" => reason # NoReason
  /\ pc # "returned" => result = "none"
  /\ pc \notin {"stuck", "returned"} => \A t \in Tasks : status[t] # "aborted"

\* What a task that ended well leaves behind.
EndsInOrder ==
  /\ \A s \in Speakers :
       /\ status[Transcript(s)] \in {"ok", "absent"} => s \notin unsent
       /\ status[Transcript(s)] = "ok" => Over(Stt(s))
  /\ status[Llm] = "ok" => asked = 0 /\ \A s \in Speakers : Over(Transcript(s))
  /\ status[Output] = "ok" => stopped /\ Over(Llm) /\ \A s \in Speakers : Over(Transcript(s))

\* While nothing but the shutdown disturbs the tasks, none of them fails, and
\* before it none ends.
Undisturbed == ~Troubled /\ status[Output] \in {"running", "ok"} /\ ~Benchmark
Calm ==
  Undisturbed =>
    /\ \A t \in Tasks : status[t] \notin Failures
    /\ ~shutdown => \A t \in Tasks : status[t] \in {"running", "absent"}

IInv ==
  /\ TypeOK
  /\ Present
  /\ QuestionsCounted
  /\ ShutdownOrder
  /\ EndsInOrder
  /\ Calm
  /\ EndIsTrue

-----------------------------------------------------------------------------
(* Lemmas about tasks *)

LEMMA TaskNames ==
  /\ Speakers = {Interviewer, Candidate} /\ Interviewer # Candidate
  /\ \A s \in Speakers : {Audio(s), Stt(s), Transcript(s)} \subseteq Tasks
  /\ {Knowledge, Llm, Output} \subseteq Tasks /\ EmitStopped \notin Tasks
  /\ \A s, r \in Speakers :
       /\ Audio(s) \notin {Stt(r), Transcript(r), Knowledge, Llm, Output}
       /\ Stt(s) \notin {Transcript(r), Knowledge, Llm, Output}
       /\ Transcript(s) \notin {Knowledge, Llm, Output}
       /\ s # r => Audio(s) # Audio(r) /\ Stt(s) # Stt(r) /\ Transcript(s) # Transcript(r)
  /\ Knowledge # Llm /\ Knowledge # Output /\ Llm # Output
  /\ \A t \in Tasks :
       t \in {Knowledge, Llm, Output} \/ \E s \in Speakers : t \in {Audio(s), Stt(s), Transcript(s)}
  /\ \A t \in TasksOf(Candidate) : t \in {Audio(Candidate), Stt(Candidate), Transcript(Candidate)}
BY DEF Speakers, Interviewer, Candidate, Audio, Stt, Transcript, Knowledge, Llm, Output,
   EmitStopped, Tasks, TasksOf, Shared

\* None of the reasons that are not tasks is one.
LEMMA ReasonNames ==
  /\ NoReason \notin Tasks /\ NoReason \notin Expected
  /\ \A r \in Expected : r \notin Tasks
  /\ Asked \in Expected /\ BenchmarkEof \in Expected
BY DEF Speakers, Interviewer, Candidate, Audio, Stt, Transcript, Knowledge, Llm, Output,
   Tasks, TasksOf, Shared, NoReason, Expected, Asked, BenchmarkEof

\* The order of the shutdown has every task once, and Stopped after all that
\* could emit.
LEMMA JoinsAre ==
  /\ Len(Joins) = 10
  /\ Joins[1] = Audio(Interviewer) /\ Joins[2] = Stt(Interviewer)
  /\ Joins[3] = Transcript(Interviewer) /\ Joins[4] = Audio(Candidate)
  /\ Joins[5] = Stt(Candidate) /\ Joins[6] = Transcript(Candidate)
  /\ Joins[7] = Knowledge /\ Joins[8] = Llm /\ Joins[9] = EmitStopped /\ Joins[10] = Output
BY DEF Joins

LEMMA JoinsPlace ==
  ASSUME NEW i \in 1..10, Joins[i] = EmitStopped
  PROVE  i = 9
<1>1. i \in {1, 2, 3, 4, 5, 6, 7, 8, 9, 10}
  OBVIOUS
<1>2. \A s \in Speakers :
        EmitStopped \notin {Audio(s), Stt(s), Transcript(s), Knowledge, Llm, Output}
  BY TaskNames
<1> QED
  BY <1>1, <1>2, JoinsAre, TaskNames

\* The results that are looked at are those of all tasks but the knowledge
\* worker.
LEMMA FlattenedAre ==
  /\ Len(Flattened) = 8
  /\ \A t \in Tasks : t # Knowledge => \E i \in 1..8 : Flattened[i] = t
  /\ \A i \in 1..8 : Flattened[i] \in Tasks
<1>1. /\ Len(Flattened) = 8
      /\ Flattened[1] = Audio(Interviewer) /\ Flattened[2] = Stt(Interviewer)
      /\ Flattened[3] = Audio(Candidate) /\ Flattened[4] = Stt(Candidate)
      /\ Flattened[5] = Transcript(Interviewer) /\ Flattened[6] = Transcript(Candidate)
      /\ Flattened[7] = Llm /\ Flattened[8] = Output
  BY DEF Flattened
<1>2. \A i \in 1..8 : i \in {1, 2, 3, 4, 5, 6, 7, 8}
  OBVIOUS
<1>3. \A t \in Tasks : t # Knowledge => \E i \in 1..8 : Flattened[i] = t
  BY <1>1, TaskNames
<1>4. \A i \in 1..8 : Flattened[i] \in Tasks
  BY <1>1, <1>2, TaskNames
<1> QED
  BY <1>1, <1>3, <1>4

\* What the end of one task does: the others keep their states.
LEMMA EndChanges ==
  ASSUME TypeOK, NEW t \in Tasks, NEW how \in Ends, End(t, how)
  PROVE  /\ status' \in [Tasks -> {"running", "absent"} \cup Ends]
         /\ status[t] = "running" /\ status'[t] = how
         /\ \A u \in Tasks : u # t => status'[u] = status[u]
         /\ \A u \in Tasks : Over(u) => status'[u] = status[u] /\ Over(u)'
         /\ UNCHANGED <<run, app, work>>
BY DEF TypeOK, End, Over, Ends, Failures

LEMMA InitIInv == Init => IInv
<1> SUFFICES ASSUME Init
             PROVE  IInv
  OBVIOUS
<1>1. \A t \in Tasks : status[t] = IF t \in TasksOf(Candidate) /\ run # "both" THEN "absent"
                                                                         ELSE "running"
  BY DEF Init
<1>2. TypeOK
  <2>1. shutdown \in BOOLEAN /\ guards \in BOOLEAN /\ ready \in BOOLEAN /\ stopped \in BOOLEAN
    BY Zenon DEF Init
  <2> QED
    BY <2>1, MaxQuestionsAssumption, JoinsAre DEF Init, TypeOK, Ends, Speakers
<1>3. Present
  BY <1>1 DEF Present
<1>4. QuestionsCounted
  BY DEF Init, QuestionsCounted, Holds
<1>5. ShutdownOrder
  BY <1>1 DEF Init, ShutdownOrder
<1>6. EndsInOrder
  BY <1>1, TaskNames DEF Init, EndsInOrder
<1>7. Calm
  BY <1>1 DEF Init, Calm, Failures
<1>8. EndIsTrue
  BY <1>1, TaskNames DEF Init, EndIsTrue, SuccessMeansDone, StoppedIsLast, AskedStopIsClean,
     NoRecogniserStarves
<1> QED
  BY <1>2, <1>3, <1>4, <1>5, <1>6, <1>7, <1>8 DEF IInv

-----------------------------------------------------------------------------
(* The end of a task *)

\* A task may end while the application has not returned, if it leaves behind
\* what the others rely on, and if it fails only when something disturbs it.
LEMMA TaskEnds ==
  ASSUME IInv, pc # "returned",
         NEW t \in Tasks, NEW how \in {"ok", "panicked", "failed", "aborted"}, End(t, how),
         how = "aborted" => pc = "stuck",
         how = "ok" => /\ \A s \in Speakers : t = Transcript(s) => s \notin unsent /\ Over(Stt(s))
                       /\ t = Llm => asked = 0 /\ \A s \in Speakers : Over(Transcript(s))
                       /\ t = Output => /\ stopped /\ Over(Llm)
                                        /\ \A s \in Speakers : Over(Transcript(s)),
         how = "failed" => ~Undisturbed',
         Undisturbed /\ how = "ok" => shutdown
  PROVE  IInv'
<1>1. /\ status' \in [Tasks -> {"running", "absent"} \cup Ends]
      /\ status[t] = "running" /\ status'[t] = how
      /\ \A u \in Tasks : u # t => status'[u] = status[u]
      /\ \A u \in Tasks : Over(u) => status'[u] = status[u] /\ Over(u)'
      /\ UNCHANGED <<run, app, work>>
  BY EndChanges DEF IInv, Ends, Failures
<1>2. UNCHANGED <<pc, next, reason, shutdown, guards, stopped, result, ready, unsent, heard,
                  asked>>
  BY <1>1 DEF app, work
<1>3. TypeOK'
  BY <1>1, <1>2 DEF IInv, TypeOK
<1>4. Present'
  <2> SUFFICES ASSUME NEW u \in Tasks
               PROVE  status'[u] = "absent" <=> u \in TasksOf(Candidate) /\ run' # "both"
    BY DEF Present
  <2>1. status'[u] = "absent" <=> status[u] = "absent"
    BY <1>1
  <2> QED
    BY <1>1, <2>1 DEF IInv, Present
<1>5. QuestionsCounted'
  BY <1>2 DEF IInv, QuestionsCounted, Holds
<1>6. ShutdownOrder'
  <2>1. \A u \in Tasks : Joined(u) => Joined(u)'
    BY <1>1 DEF Joined
  <2>2. pc # "stuck" => \A u \in Tasks : status[u] # "aborted" => status'[u] # "aborted"
    BY <1>1
  <2>3. pc' = "joining" =>
          shutdown' /\ \A i \in 1..(next' - 1) : Joins[i] \in Tasks => Joined(Joins[i])'
    BY <1>2, <2>1 DEF IInv, ShutdownOrder
  <2>4. /\ ~guards' => shutdown'
        /\ pc' \in {"loop", "eofDrain", "stopping"} => next' = 1
        /\ stopped' => shutdown'
        /\ pc' # "loop" => reason' # NoReason
        /\ pc' # "returned" => result' = "none"
        /\ pc' \notin {"stuck", "returned"} => \A u \in Tasks : status'[u] # "aborted"
    BY <1>2, <2>2 DEF IInv, ShutdownOrder
  <2> QED
    BY <2>3, <2>4 DEF ShutdownOrder
<1>7. EndsInOrder'
  <2>1. ASSUME NEW s \in Speakers
        PROVE  /\ status'[Transcript(s)] \in {"ok", "absent"} => s \notin unsent'
               /\ status'[Transcript(s)] = "ok" => Over(Stt(s))'
    BY <1>1, <1>2, TaskNames DEF IInv, EndsInOrder
  <2>2. \A s \in Speakers : Over(Transcript(s)) => Over(Transcript(s))'
    BY <1>1, TaskNames
  <2>3. status'[Llm] = "ok" => asked' = 0 /\ \A s \in Speakers : Over(Transcript(s))'
    BY <1>1, <1>2, <2>2, TaskNames DEF IInv, EndsInOrder
  <2>4. status'[Output] = "ok" =>
          stopped' /\ Over(Llm)' /\ \A s \in Speakers : Over(Transcript(s))'
    BY <1>1, <1>2, <2>2, TaskNames DEF IInv, EndsInOrder
  <2> QED
    BY <2>1, <2>3, <2>4 DEF EndsInOrder
<1>8. Calm'
  <2> SUFFICES ASSUME Undisturbed'
               PROVE  /\ \A u \in Tasks : status'[u] \notin Failures
                      /\ ~shutdown' => \A u \in Tasks : status'[u] \in {"running", "absent"}
    BY DEF Calm
  <2>1. Undisturbed
    <3>1. ~Troubled
      BY <1>1 DEF Undisturbed, Troubled
    <3>2. status[Output] \in {"running", "ok"}
      BY <1>1, TaskNames DEF Undisturbed
    <3> QED
      BY <1>1, <3>1, <3>2 DEF Undisturbed, Benchmark
  <2>2. how \notin {"panicked", "aborted"}
    BY <1>1 DEF Undisturbed, Troubled
  <2>3. how = "ok" /\ shutdown'
    BY <1>2, <2>1, <2>2
  <2> QED
    BY <1>1, <2>1, <2>3 DEF IInv, Calm, Failures
<1>9. EndIsTrue'
  <2>1. result' = "none"
    BY <1>2 DEF IInv, ShutdownOrder
  <2>2. SuccessMeansDone' /\ AskedStopIsClean'
    BY <2>1 DEF SuccessMeansDone, AskedStopIsClean
  <2>3. StoppedIsLast'
    BY <1>1, <1>2, TaskNames DEF IInv, EndIsTrue, StoppedIsLast
  <2>4. NoRecogniserStarves'
    BY <1>1, TaskNames DEF IInv, EndIsTrue, NoRecogniserStarves
  <2> QED
    BY <2>2, <2>3, <2>4 DEF EndIsTrue
<1> QED
  BY <1>3, <1>4, <1>5, <1>6, <1>7, <1>8, <1>9 DEF IInv

\* Nothing disturbs a task that was not disturbed before, and its neighbours
\* end only after a shutdown.
LEMMA BeforeEnd ==
  ASSUME IInv, NEW t \in Tasks, NEW how \in Ends, End(t, how), Undisturbed'
  PROVE  /\ Undisturbed
         /\ \A u \in Tasks : Over(u) => status[u] \in {"ok", "absent"}
         /\ ~shutdown => \A u \in Tasks : Over(u) => status[u] = "absent"
         /\ Started
<1>1. /\ status[t] = "running" /\ status'[t] = how
      /\ \A u \in Tasks : u # t => status'[u] = status[u]
      /\ UNCHANGED run
  BY EndChanges DEF IInv
<1>2. Undisturbed
  <2>1. ~Troubled
    BY <1>1 DEF Undisturbed, Troubled
  <2>2. status[Output] \in {"running", "ok"}
    BY <1>1, TaskNames DEF Undisturbed
  <2> QED
    BY <1>1, <2>1, <2>2 DEF Undisturbed, Benchmark
<1>3. \A u \in Tasks : status[u] \in {"running", "absent", "ok"}
  BY <1>2 DEF IInv, TypeOK, Ends, Calm, Undisturbed, Troubled
<1>4. ~shutdown => \A u \in Tasks : status[u] \in {"running", "absent"}
  BY <1>2 DEF IInv, Calm
<1> QED
  BY <1>2, <1>3, <1>4 DEF Over, Undisturbed, Started

\* The tasks of a speaker are absent together.
LEMMA AbsentTogether ==
  ASSUME IInv, NEW s \in Speakers, NEW t \in TasksOf(s), NEW u \in TasksOf(s),
         status[t] = "absent"
  PROVE  status[u] = "absent"
<1>1. t \in Tasks /\ u \in Tasks
  BY DEF Tasks, Speakers
<1>2. t \in TasksOf(Candidate) /\ run # "both"
  BY <1>1 DEF IInv, Present
<1>3. s = Candidate
  BY <1>2 DEF TasksOf, Audio, Stt, Transcript, Speakers, Interviewer, Candidate
<1> QED
  BY <1>1, <1>2, <1>3 DEF IInv, Present

LEMMA AudioEndsStep ==
  ASSUME IInv, pc # "returned", NEW s \in Speakers, AudioEnds(s)
  PROVE  IInv'
<1>1. /\ Audio(s) \in Tasks /\ Stt(s) \in Tasks
      /\ Audio(s) \notin {Llm, Output} /\ \A r \in Speakers : Audio(s) # Transcript(r)
      /\ Audio(s) \in TasksOf(s) /\ Stt(s) \in TasksOf(s)
  BY TaskNames DEF TasksOf
<1>2. ASSUME NEW how \in {"ok", "failed"}, End(Audio(s), how),
             how = "failed" => ~Undisturbed',
             Undisturbed /\ how = "ok" => shutdown
      PROVE  IInv'
  BY <1>1, <1>2, TaskEnds
<1>3. CASE shutdown /\ End(Audio(s), "ok")
  BY <1>2, <1>3
<1>4. ASSUME NEW how \in {"ok", "failed"}, Benchmark, End(Audio(s), how)
      PROVE  IInv'
  <2>1. ~Undisturbed /\ (~Undisturbed)'
    BY <1>1, <1>4, EndChanges DEF IInv, Ends, Failures, Undisturbed, Benchmark
  <2> QED
    BY <1>2, <1>4, <2>1
<1>5. CASE Over(Stt(s)) /\ (~shutdown \/ ~Started) /\ End(Audio(s), "failed")
  <2>1. ASSUME Undisturbed'
        PROVE  FALSE
    <3>1. /\ ~shutdown => status[Stt(s)] = "absent"
          /\ Started
      BY <1>1, <1>5, <2>1, BeforeEnd DEF Ends, Failures
    <3>2. status[Audio(s)] = "running"
      BY <1>5 DEF End
    <3> QED
      BY <1>1, <1>5, <3>1, <3>2, AbsentTogether
  <2> QED
    BY <1>2, <1>5, <2>1
<1> QED
  BY <1>3, <1>4, <1>5 DEF AudioEnds

LEMMA SttEndsStep ==
  ASSUME IInv, pc # "returned", NEW s \in Speakers, SttEnds(s)
  PROVE  IInv'
<1>1. /\ Stt(s) \in Tasks /\ Transcript(s) \in Tasks
      /\ Stt(s) \notin {Llm, Output} /\ \A r \in Speakers : Stt(s) # Transcript(r)
      /\ Stt(s) \in TasksOf(s) /\ Transcript(s) \in TasksOf(s)
  BY TaskNames DEF TasksOf
<1>2. CASE shutdown /\ End(Stt(s), "ok")
  BY <1>1, <1>2, TaskEnds
<1>3. CASE Over(Transcript(s)) /\ End(Stt(s), "failed")
  <2>1. ASSUME Undisturbed'
        PROVE  FALSE
    <3>1. status[Transcript(s)] \in {"ok", "absent"}
      BY <1>1, <1>3, <2>1, BeforeEnd DEF Ends, Failures
    <3>2. status[Stt(s)] = "running"
      BY <1>3 DEF End
    <3>3. CASE status[Transcript(s)] = "ok"
      BY <3>2, <3>3 DEF IInv, EndsInOrder, Over
    <3>4. CASE status[Transcript(s)] = "absent"
      BY <1>1, <3>2, <3>4, AbsentTogether
    <3> QED
      BY <3>1, <3>3, <3>4
  <2> QED
    BY <1>1, <1>3, <2>1, TaskEnds
<1>4. ~(~guards /\ ~shutdown)
  BY DEF IInv, ShutdownOrder
<1> QED
  BY <1>2, <1>3, <1>4 DEF SttEnds

LEMMA TranscriptEndsStep ==
  ASSUME IInv, pc # "returned", NEW s \in Speakers, TranscriptEnds(s)
  PROVE  IInv'
<1>1. /\ Transcript(s) \in Tasks /\ Stt(s) \in Tasks /\ Llm \in Tasks /\ Output \in Tasks
      /\ Transcript(s) \notin {Llm, Output}
      /\ \A r \in Speakers : Transcript(s) = Transcript(r) => s = r
      /\ Stt(s) \in TasksOf(s) /\ Transcript(s) \in TasksOf(s)
      /\ Llm \notin TasksOf(Candidate) /\ Output \notin TasksOf(Candidate)
  BY TaskNames DEF TasksOf
<1>2. status[Transcript(s)] = "running"
  BY DEF TranscriptEnds, End
<1>3. status[Llm] # "absent" /\ status[Output] # "absent"
  BY <1>1 DEF IInv, Present
<1>4. CASE Over(Stt(s)) /\ s \notin unsent /\ End(Transcript(s), "ok")
  <2>1. ASSUME Undisturbed
        PROVE  shutdown
    <3>1. ~shutdown => status[Stt(s)] \in {"running", "absent"}
      BY <1>1, <2>1 DEF IInv, Calm
    <3>2. status[Stt(s)] # "absent"
      BY <1>1, <1>2, AbsentTogether
    <3> QED
      BY <1>4, <3>1, <3>2 DEF Over
  <2> QED
    BY <1>1, <1>4, <2>1, TaskEnds
<1>5. ASSUME End(Transcript(s), "failed"), Undisturbed'
      PROVE  /\ Started /\ ~Over(Output) /\ ~Over(Llm)
  <2>1. /\ Started
        /\ \A u \in Tasks : Over(u) => status[u] \in {"ok", "absent"}
    BY <1>1, <1>5, BeforeEnd DEF Ends, Failures
  <2>2. ~(status[Output] = "ok") /\ ~(status[Llm] = "ok")
    BY <1>2 DEF IInv, EndsInOrder, Over
  <2> QED
    BY <1>1, <1>3, <2>1, <2>2
<1>6. CASE End(Transcript(s), "failed") /\ (~Started \/ Over(Output) \/ Over(Llm))
  BY <1>1, <1>5, <1>6, TaskEnds
<1> QED
  BY <1>4, <1>6 DEF TranscriptEnds

LEMMA SharedEndStep ==
  ASSUME IInv, pc # "returned", KnowledgeEnds \/ LlmEnds \/ OutputEnds
  PROVE  IInv'
<1>1. /\ {Knowledge, Llm, Output} \subseteq Tasks
      /\ Knowledge # Llm /\ Knowledge # Output /\ Llm # Output
      /\ \A r \in Speakers :
           Transcript(r) \notin {Knowledge, Llm, Output} /\ Transcript(r) \in Tasks
      /\ Llm \notin TasksOf(Candidate) /\ Output \notin TasksOf(Candidate)
      /\ Transcript(Interviewer) \notin TasksOf(Candidate) /\ Interviewer \in Speakers
  BY TaskNames
<1>2. Undisturbed /\ Over(Transcript(Interviewer)) => shutdown
  <2>1. status[Transcript(Interviewer)] # "absent"
    BY <1>1 DEF IInv, Present
  <2> QED
    BY <1>1, <2>1 DEF IInv, Calm, Over
<1>3. CASE KnowledgeEnds
  BY <1>1, <1>2, <1>3, TaskEnds DEF KnowledgeEnds
<1>4. CASE (\A s \in Speakers : Over(Transcript(s))) /\ asked = 0 /\ End(Llm, "ok")
  BY <1>1, <1>2, <1>4, TaskEnds
<1>5. CASE Over(Output) /\ asked > 0 /\ End(Llm, "failed")
  <2>1. ASSUME Undisturbed'
        PROVE  FALSE
    <3>1. status[Output] \in {"ok", "absent"}
      BY <1>1, <1>5, <2>1, BeforeEnd DEF Ends, Failures
    <3>2. status[Output] # "absent"
      BY <1>1 DEF IInv, Present
    <3>3. status[Llm] = "running"
      BY <1>5 DEF End
    <3> QED
      BY <3>1, <3>2, <3>3 DEF IInv, EndsInOrder, Over
  <2> QED
    BY <1>1, <1>5, <2>1, TaskEnds
<1>6. CASE /\ stopped /\ Over(Llm) /\ \A s \in Speakers : Over(Transcript(s))
           /\ End(Output, "ok")
  <2>1. shutdown
    BY <1>6 DEF IInv, ShutdownOrder
  <2> QED
    BY <1>1, <1>6, <2>1, TaskEnds
<1>7. CASE End(Output, "failed")
  <2>1. ~Undisturbed'
    BY <1>1, <1>7, EndChanges DEF IInv, Ends, Failures, Undisturbed
  <2> QED
    BY <1>1, <1>7, <2>1, TaskEnds
<1> QED
  BY <1>3, <1>4, <1>5, <1>6, <1>7 DEF LlmEnds, OutputEnds

LEMMA PanicStep ==
  ASSUME IInv, pc # "returned", NEW t \in Tasks, Panics(t)
  PROVE  IInv'
<1>1. End(t, "panicked")
  BY DEF Panics
<1> QED
  BY <1>1, TaskEnds

-----------------------------------------------------------------------------
(* Questions *)

LEMMA QuestionsStep ==
  ASSUME IInv, pc # "returned",
         \/ SttReady \/ Answer \/ \E s \in Speakers : Hear(s) \/ Submit(s)
  PROVE  IInv'
<1>1. UNCHANGED <<run, status, app>>
  BY DEF SttReady, Answer, Hear, Submit
<1>2. UNCHANGED <<pc, next, reason, shutdown, guards, stopped, result>>
  BY <1>1 DEF app
<1> DEFINE Kept ==
      /\ ready' \in BOOLEAN /\ unsent' \subseteq Speakers
      /\ heard' \in 0..MaxQuestions /\ asked' \in 0..MaxQuestions
      /\ asked' + Holds(Interviewer)' + Holds(Candidate)' <= heard'
      /\ \A s \in Speakers : s \in unsent' \ unsent => status[Transcript(s)] = "running"
      /\ asked' > asked => status[Llm] = "running"
<1>3. Kept
  <2>1. /\ ready \in BOOLEAN /\ unsent \subseteq Speakers
        /\ heard \in 0..MaxQuestions /\ asked \in 0..MaxQuestions
        /\ asked + Holds(Interviewer) + Holds(Candidate) <= heard
        /\ Speakers = {Interviewer, Candidate} /\ Interviewer # Candidate
    BY TaskNames DEF IInv, TypeOK, QuestionsCounted
  <2>2. CASE SttReady
    <3>1. ready' \in BOOLEAN /\ UNCHANGED <<unsent, heard, asked>>
      BY <2>2, Zenon DEF SttReady
    <3> QED
      BY <2>1, <3>1 DEF Holds
  <2>3. CASE Answer
    <3>1. UNCHANGED <<ready, unsent, heard>> /\ asked' = asked - 1 /\ asked > 0
      BY <2>3 DEF Answer
    <3> QED
      BY <2>1, <3>1, MaxQuestionsAssumption DEF Holds
  <2>4. ASSUME NEW s \in Speakers, Hear(s)
        PROVE  Kept
    <3>1. /\ heard < MaxQuestions /\ s \notin unsent /\ status[Transcript(s)] = "running"
          /\ heard' = heard + 1 /\ unsent' = unsent \cup {s} /\ UNCHANGED <<ready, asked>>
      BY <2>4 DEF Hear
    <3> QED
      BY <2>1, <3>1, MaxQuestionsAssumption DEF Holds
  <2>5. ASSUME NEW s \in Speakers, Submit(s)
        PROVE  Kept
    <3>1. /\ s \in unsent /\ status[Transcript(s)] = "running" /\ status[Llm] = "running"
          /\ unsent' = unsent \ {s} /\ asked' = asked + 1 /\ UNCHANGED <<ready, heard>>
      BY <2>5 DEF Submit
    <3> QED
      BY <2>1, <3>1, MaxQuestionsAssumption DEF Holds
  <2> QED
    BY <2>2, <2>3, <2>4, <2>5
<1>4. TypeOK'
  BY <1>1, <1>2, <1>3 DEF IInv, TypeOK
<1>5. Present' /\ QuestionsCounted' /\ Calm'
  BY <1>1, <1>2, <1>3
  DEF IInv, Present, QuestionsCounted, Calm, Undisturbed, Troubled, Benchmark
<1>6. ShutdownOrder'
  BY <1>1, <1>2 DEF IInv, ShutdownOrder, Joined, Over
<1>7. EndsInOrder'
  <2>1. \A s \in Speakers : status[Transcript(s)] \in {"ok", "absent"} => s \notin unsent'
    BY <1>3 DEF IInv, EndsInOrder
  <2>2. status[Llm] = "ok" => asked' = 0
    <3>1. status[Llm] = "ok" => asked = 0 /\ ~(asked' > asked)
      BY <1>3 DEF IInv, EndsInOrder
    <3>2. asked' \in Nat
      BY <1>3, MaxQuestionsAssumption
    <3> QED
      BY <3>1, <3>2
  <2> QED
    BY <1>1, <1>2, <2>1, <2>2 DEF IInv, EndsInOrder, Over
<1>8. EndIsTrue'
  BY <1>1, <1>2 DEF IInv, ShutdownOrder, EndIsTrue, SuccessMeansDone, StoppedIsLast,
     AskedStopIsClean, NoRecogniserStarves, Over
<1> QED
  BY <1>4, <1>5, <1>6, <1>7, <1>8 DEF IInv

-----------------------------------------------------------------------------
(* The application *)

LEMMA LeaveStep ==
  ASSUME IInv, Requested \/ ForwardFails \/ SeeEnd \/ EofDrained
  PROVE  IInv'
<1>1. PICK r \in Tasks \cup Expected, to \in {"eofDrain", "stopping"} :
        Leave(r, to) /\ pc \in {"loop", "eofDrain"}
  <2>1. CASE Requested
    BY <2>1, ReasonNames DEF Requested
  <2>2. CASE ForwardFails
    <3>1. PICK t \in {Transcript(s) : s \in Speakers} \cup {Llm, Output} :
            pc = "loop" /\ Leave(t, "stopping")
      BY <2>2 DEF ForwardFails
    <3>2. t \in Tasks
      BY TaskNames
    <3> QED
      BY <3>1, <3>2
  <2>3. CASE SeeEnd
    BY <2>3, ReasonNames DEF SeeEnd
  <2>4. CASE EofDrained
    <3>1. pc = "eofDrain" /\ Leave(reason, "stopping")
      BY <2>4 DEF EofDrained
    <3>2. reason \in Tasks \cup Expected
      BY <3>1 DEF IInv, TypeOK, ShutdownOrder
    <3> QED
      BY <3>1, <3>2
  <2> QED
    BY <2>1, <2>2, <2>3, <2>4
<1>2. /\ pc' = to /\ reason' = r
      /\ UNCHANGED <<run, status, next, shutdown, guards, stopped, result>>
      /\ UNCHANGED <<ready, unsent, heard, asked>>
  BY <1>1 DEF Leave, work
<1>3. r # NoReason
  BY <1>1, ReasonNames
<1>4. TypeOK'
  BY <1>1, <1>2 DEF IInv, TypeOK
<1>5. Present' /\ QuestionsCounted' /\ Calm' /\ EndsInOrder'
  BY <1>2 DEF IInv, Present, QuestionsCounted, Holds, Calm, Undisturbed, Troubled, Benchmark,
     EndsInOrder, Over
<1>6. ShutdownOrder'
  BY <1>1, <1>2, <1>3 DEF IInv, ShutdownOrder, Joined, Over
<1>7. EndIsTrue'
  BY <1>1, <1>2 DEF IInv, ShutdownOrder, EndIsTrue, SuccessMeansDone, StoppedIsLast,
     AskedStopIsClean, NoRecogniserStarves, Over
<1> QED
  BY <1>4, <1>5, <1>6, <1>7 DEF IInv

\* From the request to stop to the first join.
LEMMA StoppingStep ==
  ASSUME IInv, RequestShutdown \/ DropGuards
  PROVE  IInv'
<1>1. /\ pc = "stopping"
      /\ pc' = "stopping" \/ (pc' = "joining" /\ shutdown)
      /\ shutdown' \in BOOLEAN /\ guards' \in BOOLEAN
      /\ shutdown => shutdown'
      /\ ~guards' => shutdown'
      /\ UNCHANGED <<run, status, next, reason, stopped, result>>
      /\ UNCHANGED <<ready, unsent, heard, asked>>
  <2>1. CASE RequestShutdown
    <3>1. /\ shutdown' = TRUE /\ pc = "stopping"
          /\ UNCHANGED <<run, status, pc, next, reason, guards, stopped, result, work>>
      BY <2>1 DEF RequestShutdown
    <3>2. shutdown' \in BOOLEAN /\ shutdown'
      BY <3>1, Zenon
    <3>3. guards' \in BOOLEAN
      BY <3>1 DEF IInv, TypeOK
    <3> QED
      BY <3>1, <3>2, <3>3 DEF work
  <2>2. CASE DropGuards
    <3>1. /\ guards' = FALSE /\ pc = "stopping" /\ pc' = "joining" /\ shutdown
          /\ UNCHANGED <<run, status, next, reason, shutdown, stopped, result, work>>
      BY <2>2 DEF DropGuards
    <3>2. guards' \in BOOLEAN /\ shutdown' \in BOOLEAN /\ shutdown'
      BY <3>1, Zenon
    <3> QED
      BY <3>1, <3>2 DEF work
  <2> QED
    BY <2>1, <2>2
<1>2. TypeOK'
  BY <1>1 DEF IInv, TypeOK
<1>3. Present' /\ QuestionsCounted' /\ EndsInOrder'
  BY <1>1 DEF IInv, Present, QuestionsCounted, Holds, EndsInOrder, Over
<1>4. Calm'
  BY <1>1 DEF IInv, Calm, Undisturbed, Troubled, Benchmark
<1>5. ShutdownOrder'
  <2>1. next' = 1
    BY <1>1 DEF IInv, ShutdownOrder
  <2>2. 1..(next' - 1) = {}
    BY <2>1
  <2> QED
    BY <1>1, <2>1, <2>2 DEF IInv, ShutdownOrder
<1>6. EndIsTrue'
  BY <1>1 DEF IInv, ShutdownOrder, EndIsTrue, SuccessMeansDone, StoppedIsLast,
     AskedStopIsClean, NoRecogniserStarves, Over
<1> QED
  BY <1>2, <1>3, <1>4, <1>5, <1>6 DEF IInv

\* What has been joined when it is somebody's turn.
LEMMA JoinedBefore ==
  ASSUME IInv, pc = "joining"
  PROVE  /\ next \in 1..11 /\ shutdown /\ result = "none"
         /\ \A i \in 1..(next - 1) : Joins[i] \in Tasks => Joined(Joins[i])
BY JoinsAre DEF IInv, TypeOK, ShutdownOrder

\* The next one is waited for.
LEMMA AdvanceStep ==
  ASSUME IInv, pc = "joining", next <= Len(Joins), next' = next + 1,
         Joins[next] \in Tasks => Joined(Joins[next]),
         UNCHANGED <<run, status, pc, reason, shutdown, guards, result, work>>,
         stopped' \in BOOLEAN,
         stopped' => Over(Llm) /\ \A s \in Speakers : Over(Transcript(s)),
         stopped => stopped'
  PROVE  IInv'
<1>1. /\ next \in 1..11 /\ shutdown /\ result = "none" /\ Len(Joins) = 10
      /\ \A i \in 1..(next - 1) : Joins[i] \in Tasks => Joined(Joins[i])
  BY JoinedBefore, JoinsAre
<1>2. UNCHANGED <<ready, unsent, heard, asked>>
  BY DEF work
<1>3. TypeOK'
  BY <1>1, <1>2 DEF IInv, TypeOK
<1>4. Present' /\ QuestionsCounted' /\ Calm' /\ EndsInOrder'
  BY <1>2 DEF IInv, Present, QuestionsCounted, Holds, Calm, Undisturbed, Troubled, Benchmark,
     EndsInOrder, Over
<1>5. ShutdownOrder'
  <2>1. ASSUME NEW i \in 1..(next' - 1), Joins[i] \in Tasks
        PROVE  Joined(Joins[i])'
    <3>1. i \in 1..(next - 1) \/ i = next
      BY <1>1
    <3>2. Joined(Joins[i])
      BY <1>1, <2>1, <3>1
    <3> QED
      BY <3>2 DEF Joined, Over
  <2> QED
    BY <1>1, <2>1 DEF IInv, ShutdownOrder
<1>6. EndIsTrue'
  BY <1>1 DEF IInv, EndIsTrue, SuccessMeansDone, StoppedIsLast, AskedStopIsClean,
     NoRecogniserStarves, Over
<1> QED
  BY <1>3, <1>4, <1>5, <1>6 DEF IInv

\* The application returns an error because a task is in trouble, or was late.
LEMMA TroubledReturn ==
  ASSUME IInv, pc \in {"joining", "stuck"}, NEW r \in Errors, Return(r),
         status' \in [Tasks -> {"running", "absent"} \cup Ends],
         \A t \in Tasks :
           status'[t] = status[t] \/ (status[t] = "running" /\ status'[t] = "aborted"),
         Troubled' \/ (UNCHANGED status /\ r = "WorkerShutdownTimeout")
  PROVE  IInv'
<1>1. /\ pc' = "returned" /\ result' = r
      /\ UNCHANGED <<run, next, reason, shutdown, guards, stopped>>
      /\ UNCHANGED <<ready, unsent, heard, asked>>
  BY DEF Return, work
<1>2. \A t \in Tasks : Over(t) => status'[t] = status[t] /\ Over(t)'
  BY DEF Over
<1>3. TypeOK'
  BY <1>1 DEF IInv, TypeOK, Errors
<1>4. Present'
  <2> SUFFICES ASSUME NEW u \in Tasks
               PROVE  status'[u] = "absent" <=> u \in TasksOf(Candidate) /\ run' # "both"
    BY DEF Present
  <2>1. status'[u] = "absent" <=> status[u] = "absent"
    OBVIOUS
  <2> QED
    BY <1>1, <2>1 DEF IInv, Present
<1>5. QuestionsCounted' /\ Calm'
  <2>1. CASE Troubled'
    BY <1>1, <2>1 DEF IInv, QuestionsCounted, Holds, Calm, Undisturbed
  <2>2. CASE UNCHANGED status
    BY <1>1, <2>2
    DEF IInv, QuestionsCounted, Holds, Calm, Undisturbed, Troubled, Benchmark
  <2> QED
    BY <2>1, <2>2
<1>6. EndsInOrder'
  <2>1. \A s \in Speakers :
          /\ status'[Transcript(s)] \in {"ok", "absent"} => s \notin unsent'
          /\ status'[Transcript(s)] = "ok" => Over(Stt(s))'
    BY <1>1, <1>2, TaskNames DEF IInv, EndsInOrder
  <2>2. \A s \in Speakers : Over(Transcript(s)) => Over(Transcript(s))'
    BY <1>2, TaskNames
  <2>3. /\ status'[Llm] = "ok" => status[Llm] = "ok"
        /\ status'[Output] = "ok" => status[Output] = "ok"
        /\ Over(Llm) => Over(Llm)'
    BY <1>2, TaskNames
  <2> QED
    BY <1>1, <2>1, <2>2, <2>3 DEF IInv, EndsInOrder
<1>7. ShutdownOrder'
  BY <1>1 DEF IInv, ShutdownOrder
<1>8. EndIsTrue'
  <2>1. SuccessMeansDone' /\ AskedStopIsClean'
    BY <1>1 DEF SuccessMeansDone, AskedStopIsClean, InTime, Errors
  <2>2. StoppedIsLast'
    BY <1>1, <1>2, TaskNames DEF IInv, EndIsTrue, StoppedIsLast
  <2>3. NoRecogniserStarves'
    BY TaskNames DEF IInv, EndIsTrue, NoRecogniserStarves
  <2> QED
    BY <2>1, <2>2, <2>3 DEF EndIsTrue
<1> QED
  BY <1>3, <1>4, <1>5, <1>6, <1>7, <1>8 DEF IInv

LEMMA JoinStep ==
  ASSUME IInv, NEW t \in Tasks, Join(t)
  PROVE  IInv'
<1>1. pc = "joining" /\ next <= Len(Joins) /\ Joins[next] = t /\ Over(t)
  BY DEF Join, Turn
<1>2. CASE status[t] = "panicked" /\ t # Knowledge
  <2>1. Return("WorkerTask") /\ UNCHANGED status
    BY <1>2 DEF Join
  <2>2. Troubled'
    BY <1>2, <2>1 DEF Troubled
  <2>3. "WorkerTask" \in Errors /\ status' \in [Tasks -> {"running", "absent"} \cup Ends]
    BY <2>1 DEF Errors, IInv, TypeOK
  <2> QED
    BY <1>1, <2>1, <2>2, <2>3, TroubledReturn
<1>3. CASE ~(status[t] = "panicked" /\ t # Knowledge)
  <2>1. /\ next' = next + 1
        /\ UNCHANGED <<run, status, pc, reason, shutdown, guards, stopped, result, work>>
    BY <1>3 DEF Join
  <2>2. Joined(t)
    BY <1>1, <1>3 DEF Joined
  <2>3. /\ stopped' \in BOOLEAN
        /\ stopped' => Over(Llm) /\ \A s \in Speakers : Over(Transcript(s))
        /\ stopped => stopped'
    BY <2>1 DEF IInv, TypeOK, EndIsTrue, StoppedIsLast
  <2> QED
    BY <1>1, <2>1, <2>2, <2>3, AdvanceStep
<1> QED
  BY <1>2, <1>3

LEMMA JoinTimeoutStep ==
  ASSUME IInv, NEW t \in Tasks, JoinTimeout(t)
  PROVE  IInv'
<1>1. /\ pc = "joining" /\ status[t] = "running" /\ Return("WorkerShutdownTimeout")
      /\ status' = [status EXCEPT ![t] = "aborted"]
  BY DEF JoinTimeout, Turn, Over
<1>2. /\ status' \in [Tasks -> {"running", "absent"} \cup Ends]
      /\ status'[t] = "aborted"
      /\ \A u \in Tasks : u # t => status'[u] = status[u]
  BY <1>1 DEF IInv, TypeOK, Ends
<1>3. Troubled' /\ "WorkerShutdownTimeout" \in Errors
  BY <1>2 DEF Troubled, Errors
<1> QED
  BY <1>1, <1>2, <1>3, TroubledReturn

\* The task aborted is in a synchronous call.
LEMMA JoinSticksStep ==
  ASSUME IInv, NEW t \in Tasks, JoinSticks(t)
  PROVE  IInv'
<1>1. /\ pc = "joining" /\ pc' = "stuck"
      /\ UNCHANGED <<run, status, next, reason, shutdown, guards, stopped, result, work>>
  BY DEF JoinSticks, Turn
<1>2. UNCHANGED <<ready, unsent, heard, asked>>
  BY <1>1 DEF work
<1>3. TypeOK'
  BY <1>1, <1>2 DEF IInv, TypeOK
<1>4. Present' /\ QuestionsCounted' /\ Calm' /\ EndsInOrder'
  BY <1>1, <1>2 DEF IInv, Present, QuestionsCounted, Holds, Calm, Undisturbed, Troubled,
     Benchmark, EndsInOrder, Over
<1>5. ShutdownOrder'
  BY <1>1 DEF IInv, ShutdownOrder
<1>6. EndIsTrue'
  BY <1>1, JoinedBefore DEF IInv, EndIsTrue, SuccessMeansDone, StoppedIsLast, AskedStopIsClean,
     NoRecogniserStarves, Over
<1> QED
  BY <1>3, <1>4, <1>5, <1>6 DEF IInv

LEMMA CancelledStep ==
  ASSUME IInv, NEW t \in Tasks, Cancelled(t)
  PROVE  IInv'
<1>1. pc = "stuck" /\ End(t, "aborted")
  BY DEF Cancelled
<1> QED
  BY <1>1, TaskEnds

LEMMA StuckJoinStep ==
  ASSUME IInv, StuckJoin
  PROVE  IInv'
<1>1. pc = "stuck" /\ Return("WorkerShutdownTimeout") /\ UNCHANGED status
  BY DEF StuckJoin
<1>2. /\ status' \in [Tasks -> {"running", "absent"} \cup Ends]
      /\ "WorkerShutdownTimeout" \in Errors
  BY <1>1 DEF IInv, TypeOK, Errors
<1> QED
  BY <1>1, <1>2, TroubledReturn

LEMMA EmitStep ==
  ASSUME IInv, Emit
  PROVE  IInv'
<1>1. /\ pc = "joining" /\ next <= Len(Joins) /\ Joins[next] = EmitStopped
      /\ stopped' = TRUE /\ next' = next + 1
      /\ UNCHANGED <<run, status, pc, reason, shutdown, guards, result, work>>
  BY DEF Emit, Turn
<1>2. /\ next \in 1..11 /\ Len(Joins) = 10
      /\ \A i \in 1..(next - 1) : Joins[i] \in Tasks => Joined(Joins[i])
  BY <1>1, JoinedBefore, JoinsAre
<1>3. next = 9
  BY <1>1, <1>2, JoinsPlace
<1>4. /\ Joins[3] \in Tasks => Joined(Joins[3])
      /\ Joins[6] \in Tasks => Joined(Joins[6])
      /\ Joins[8] \in Tasks => Joined(Joins[8])
  BY <1>2, <1>3
<1>5. Over(Llm) /\ \A s \in Speakers : Over(Transcript(s))
  BY <1>4, JoinsAre, TaskNames DEF Joined
<1>6. stopped' \in BOOLEAN /\ stopped'
  BY <1>1, Zenon
<1>7. Joins[next] \notin Tasks
  BY <1>1, TaskNames
<1> QED
  BY <1>1, <1>5, <1>6, <1>7, AdvanceStep

LEMMA VerdictStep ==
  ASSUME IInv, Verdict
  PROVE  IInv'
<1>1. pc = "joining" /\ next > Len(Joins) /\ UNCHANGED status
  BY DEF Verdict
<1>2. /\ next = 11
      /\ \A i \in 1..10 : Joins[i] \in Tasks => Joined(Joins[i])
  BY <1>1, JoinedBefore, JoinsAre
<1>3. \A t \in Tasks : Joined(t)
  BY <1>2, JoinsAre, TaskNames
<1>4. PICK r \in {"WorkerError", "WorkerStopped", "ok"} :
        /\ Return(r)
        /\ r = "WorkerError" => \E t \in Tasks : status[t] \in Failures
        /\ r # "WorkerError" => \A t \in Tasks : t # Knowledge => status[t] \notin Failures
        /\ r = "WorkerStopped" => reason \in Tasks
        /\ r = "ok" => reason \notin Tasks
  BY FlattenedAre DEF Verdict
<1>5. /\ pc' = "returned" /\ result' = r
      /\ UNCHANGED <<run, next, reason, shutdown, guards, stopped>>
      /\ UNCHANGED <<ready, unsent, heard, asked>>
  BY <1>4 DEF Return, work
<1>6. TypeOK'
  BY <1>1, <1>5 DEF IInv, TypeOK, Errors
<1>7. Present' /\ QuestionsCounted' /\ Calm' /\ EndsInOrder' /\ ShutdownOrder'
  BY <1>1, <1>5 DEF IInv, Present, QuestionsCounted, Holds, Calm, Undisturbed, Troubled,
     Benchmark, EndsInOrder, ShutdownOrder, Over
<1>8. SuccessMeansDone'
  <2> SUFFICES ASSUME r = "ok"
               PROVE  /\ reason \in Expected
                      /\ \A t \in Tasks \ {Knowledge} : status[t] \in {"ok", "absent"}
                      /\ unsent = {} /\ asked = 0
    BY <1>1, <1>5 DEF SuccessMeansDone
  <2>1. reason \in Expected
    BY <1>1, <1>4 DEF IInv, TypeOK, ShutdownOrder
  <2>2. ASSUME NEW t \in Tasks, t # Knowledge
        PROVE  status[t] \in {"ok", "absent"}
    <3>1. status[t] \notin Failures /\ status[t] # "running" /\ status[t] # "panicked"
      BY <1>3, <1>4, <2>2 DEF Joined, Over
    <3>2. status[t] # "aborted"
      BY <1>1 DEF IInv, ShutdownOrder
    <3> QED
      BY <3>1, <3>2 DEF IInv, TypeOK, Ends
  <2>3. unsent = {}
    BY <2>2, TaskNames DEF IInv, TypeOK, EndsInOrder
  <2>4. status[Llm] # "absent"
    BY TaskNames DEF IInv, Present
  <2>5. asked = 0
    BY <2>2, <2>4, TaskNames DEF IInv, EndsInOrder
  <2> QED
    BY <2>1, <2>2, <2>3, <2>5
<1>9. AskedStopIsClean'
  <2> SUFFICES ASSUME reason = Asked, ~Troubled, status[Output] = "ok", ~Benchmark
               PROVE  r = "ok"
    BY <1>1, <1>5 DEF AskedStopIsClean, Troubled, Benchmark
  <2>1. \A t \in Tasks : status[t] \notin Failures
    BY DEF IInv, Calm, Undisturbed
  <2> QED
    BY <1>4, <2>1, ReasonNames
<1>10. StoppedIsLast' /\ NoRecogniserStarves'
  BY <1>1, <1>5 DEF IInv, EndIsTrue, StoppedIsLast, NoRecogniserStarves, Over
<1> QED
  BY <1>6, <1>7, <1>8, <1>9, <1>10 DEF IInv, EndIsTrue

-----------------------------------------------------------------------------
LEMMA StepIInv ==
  ASSUME IInv, [Next]_vars
  PROVE  IInv'
<1>1. CASE Requested \/ ForwardFails \/ SeeEnd \/ EofDrained
  BY <1>1, LeaveStep
<1>2. CASE RequestShutdown \/ DropGuards
  BY <1>2, StoppingStep
<1>3. ASSUME NEW t \in Tasks, Join(t)
      PROVE  IInv'
  BY <1>3, JoinStep
<1>4. ASSUME NEW t \in Tasks, JoinTimeout(t)
      PROVE  IInv'
  BY <1>4, JoinTimeoutStep
<1>5. CASE Emit \/ StuckJoin
  BY <1>5, EmitStep, StuckJoinStep
<1>6. CASE Verdict
  BY <1>6, VerdictStep
<1>7. CASE pc # "returned" /\ Pipeline
  <2>1. ASSUME NEW s \in Speakers, AudioEnds(s) \/ SttEnds(s) \/ TranscriptEnds(s)
        PROVE  IInv'
    BY <1>7, <2>1, AudioEndsStep, SttEndsStep, TranscriptEndsStep
  <2>2. CASE SttReady \/ Answer \/ \E s \in Speakers : Hear(s) \/ Submit(s)
    BY <1>7, <2>2, QuestionsStep
  <2>3. CASE KnowledgeEnds \/ LlmEnds \/ OutputEnds
    BY <1>7, <2>3, SharedEndStep
  <2>4. ASSUME NEW t \in Tasks, Panics(t)
        PROVE  IInv'
    BY <1>7, <2>4, PanicStep
  <2> QED
    BY <1>7, <2>1, <2>2, <2>3, <2>4 DEF Pipeline
<1>8. CASE Returned \/ UNCHANGED vars
  <2>1. UNCHANGED <<run, status, pc, next, reason, shutdown, guards, stopped, result>>
    BY <1>8 DEF Returned, vars, app
  <2>2. UNCHANGED <<ready, unsent, heard, asked>>
    BY <1>8 DEF Returned, vars, work
  <2> QED
    BY <2>1, <2>2 DEF IInv, TypeOK, Present, QuestionsCounted, Holds, ShutdownOrder, Joined,
       EndsInOrder, Calm, Undisturbed, Troubled, Benchmark, EndIsTrue, SuccessMeansDone,
       StoppedIsLast, AskedStopIsClean, InTime, NoRecogniserStarves, Over
<1>9. ASSUME NEW t \in Tasks, JoinSticks(t) \/ Cancelled(t)
      PROVE  IInv'
  BY <1>9, JoinSticksStep, CancelledStep
<1> QED
  BY <1>1, <1>2, <1>3, <1>4, <1>5, <1>6, <1>7, <1>8, <1>9 DEF Next

LEMMA Invariance == Spec => []IInv
<1> QED
  BY InitIInv, StepIInv, PTL DEF Spec

\* The type invariant: every task runs, is absent or has an end the application
\* tells apart, and the requests in the queue stay between none and the bound.
THEOREM SupervisorTypeCorrect == Spec => []TypeOK
<1>1. IInv => TypeOK
  BY DEF IInv
<1> QED
  BY <1>1, Invariance, PTL

\* What the application says at its end is so, in every order in which tasks
\* end, fail, panic and hang: Ok means that all is done, Stopped is the last
\* event, a stop that was asked for is clean, and no recogniser takes it for
\* the loss of its audio.
THEOREM EndTold == Spec => []EndIsTrue
<1>1. IInv => EndIsTrue
  BY DEF IInv
<1> QED
  BY <1>1, Invariance, PTL

-----------------------------------------------------------------------------
(* The inductive invariant of the session *)

\* A command is sent once to everyone.
OnceEach == \A i, j \in DOMAIN todo : todo[i][1] = todo[j][1] => i = j

SessionInv ==
  /\ SessionTypeOK
  /\ OnceEach
  /\ CommandsReachEveryone

-----------------------------------------------------------------------------
(* Lemmas about what everyone is told *)

Word == TranscriptCommands \cup OutputEvents
Somebody == ActiveSpeakers \cup {"overlay"}
Sends ==
  (ActiveSpeakers \X TranscriptCommands) \cup ({"overlay"} \X OutputEvents)

LEMMA SpeakersAre ==
  /\ "overlay" \notin ActiveSpeakers
  /\ \A s \in ActiveSpeakers : s \in {"interviewer", "candidate"}
BY DEF ActiveSpeakers, Pipelines, ToSet

LEMMA WordsAre ==
  /\ \A w \in Word : w = <<w[1], w[2]>>
  /\ \A x \in Sends : x = <<x[1], x[2]>> /\ x[1] \in Somebody /\ x[2] \in Word
  /\ \A e \in OutputEvents : e[1] \in {"Status", "ModeChanged"}
  /\ \A c \in TranscriptCommands : c[1] \in {"SetPaused", "SetMode"}
BY DEF Word, Sends, Somebody, TranscriptCommands, OutputEvents,
       Statuses, Modes

\* ToldLast, with what is still to be sent as a parameter.
Told(sends, value, to, subject, waiting, told) ==
  IF \E i \in DOMAIN sends : sends[i][1] = to /\ sends[i][2][1] = subject
  THEN \E i \in DOMAIN sends : sends[i] = <<to, <<subject, value>>>>
  ELSE \/ \E i \in DOMAIN waiting :
            /\ waiting[i] = <<subject, value>>
            /\ \A j \in (i + 1)..Len(waiting) : waiting[j][1] # subject
       \/ told = value /\ \A i \in DOMAIN waiting : waiting[i][1] # subject

Reached(sends, position, current, paused, queues, told, events, shown) ==
  position = "loop" =>
    /\ \A s \in ActiveSpeakers :
         /\ Told(sends, paused, s, "SetPaused", queues[s], told[s].paused)
         /\ Told(sends, current, s, "SetMode", queues[s], told[s].mode)
    /\ Told(sends, current, "overlay", "ModeChanged", events, shown.mode)

LEMMA ReachedIs ==
  /\ CommandsReachEveryone
       <=> Reached(todo, phase, mode, pauseAsked, transcriptQ, worker, outputQ, overlay)
  /\ CommandsReachEveryone'
       <=> Reached(todo', phase', mode', pauseAsked', transcriptQ', worker', outputQ', overlay')
BY DEF CommandsReachEveryone, ToldLast, Reached, Told

\* A word on another subject that comes in between changes nothing.
LEMMA OtherWord ==
  ASSUME NEW sends, NEW value, NEW to, NEW subject, NEW waiting \in Seq(Word), NEW told,
         NEW word \in Word, word[1] # subject, Told(sends, value, to, subject, waiting, told)
  PROVE  Told(sends, value, to, subject, Append(waiting, word), told)
<1> DEFINE longer == Append(waiting, word)
<1>1. /\ Len(longer) = Len(waiting) + 1 /\ Len(waiting) \in Nat
      /\ \A i \in 1..Len(waiting) : longer[i] = waiting[i]
      /\ longer[Len(waiting) + 1] = word
      /\ DOMAIN waiting = 1..Len(waiting)
      /\ DOMAIN longer = 1..(Len(waiting) + 1)
  BY AppendProperties, LenProperties
<1> HIDE DEF longer
<1>2. CASE \E i \in DOMAIN sends : sends[i][1] = to /\ sends[i][2][1] = subject
  BY <1>2 DEF Told, longer
<1>3. CASE /\ ~\E i \in DOMAIN sends : sends[i][1] = to /\ sends[i][2][1] = subject
           /\ told = value /\ \A i \in DOMAIN waiting : waiting[i][1] # subject
  <2>1. \A i \in DOMAIN longer : longer[i][1] # subject
    BY <1>1, <1>3
  <2> QED
    BY <1>3, <2>1 DEF Told, longer
<1>4. CASE /\ ~\E i \in DOMAIN sends : sends[i][1] = to /\ sends[i][2][1] = subject
           /\ \E i \in DOMAIN waiting : /\ waiting[i] = <<subject, value>>
                                        /\ \A j \in (i + 1)..Len(waiting) : waiting[j][1] # subject
  <2>1. PICK i \in 1..Len(waiting) : /\ waiting[i] = <<subject, value>>
                                     /\ \A j \in (i + 1)..Len(waiting) : waiting[j][1] # subject
    BY <1>1, <1>4
  <2>2. /\ i \in DOMAIN longer /\ longer[i] = <<subject, value>>
        /\ \A j \in (i + 1)..Len(longer) : longer[j][1] # subject
    BY <1>1, <2>1
  <2> QED
    BY <1>4, <2>2 DEF Told, longer
<1> QED
  BY <1>2, <1>3, <1>4 DEF Told

\* What is heard is no longer waiting.
LEMMA WordIsHeard ==
  ASSUME NEW sends, NEW value, NEW to, NEW subject, NEW waiting \in Seq(Word), waiting # <<>>,
         NEW told, Told(sends, value, to, subject, waiting, told),
         NEW now, now = IF Head(waiting)[1] = subject THEN Head(waiting)[2] ELSE told
  PROVE  Told(sends, value, to, subject, Tail(waiting), now)
<1>1. /\ Len(waiting) \in Nat \ {0} /\ DOMAIN waiting = 1..Len(waiting)
      /\ Head(waiting) = waiting[1]
      /\ Len(Tail(waiting)) = Len(waiting) - 1
      /\ DOMAIN Tail(waiting) = 1..(Len(waiting) - 1)
      /\ \A i \in 1..(Len(waiting) - 1) : Tail(waiting)[i] = waiting[i + 1]
  BY HeadTailProperties, LenProperties
<1>2. CASE \E i \in DOMAIN sends : sends[i][1] = to /\ sends[i][2][1] = subject
  BY <1>2 DEF Told
<1>3. CASE /\ ~\E i \in DOMAIN sends : sends[i][1] = to /\ sends[i][2][1] = subject
           /\ told = value /\ \A i \in DOMAIN waiting : waiting[i][1] # subject
  BY <1>1, <1>3 DEF Told
<1>4. CASE /\ ~\E i \in DOMAIN sends : sends[i][1] = to /\ sends[i][2][1] = subject
           /\ \E i \in DOMAIN waiting : /\ waiting[i] = <<subject, value>>
                                        /\ \A j \in (i + 1)..Len(waiting) : waiting[j][1] # subject
  <2>1. PICK i \in 1..Len(waiting) : /\ waiting[i] = <<subject, value>>
                                     /\ \A j \in (i + 1)..Len(waiting) : waiting[j][1] # subject
    BY <1>1, <1>4
  <2>2. \A j \in i..(Len(waiting) - 1) : Tail(waiting)[j][1] # subject
    BY <1>1, <2>1
  <2>3. CASE i = 1
    <3>1. now = value
      BY <1>1, <2>1, <2>3
    <3>2. \A j \in DOMAIN Tail(waiting) : Tail(waiting)[j][1] # subject
      BY <1>1, <2>2, <2>3
    <3> QED
      BY <1>4, <3>1, <3>2 DEF Told
  <2>4. CASE i # 1
    <3>1. /\ i - 1 \in DOMAIN Tail(waiting) /\ Tail(waiting)[i - 1] = <<subject, value>>
          /\ \A j \in ((i - 1) + 1)..Len(Tail(waiting)) : Tail(waiting)[j][1] # subject
      BY <1>1, <2>1, <2>2, <2>4
    <3> QED
      BY <1>4, <3>1 DEF Told
  <2> QED
    BY <2>3, <2>4
<1> QED
  BY <1>2, <1>3, <1>4 DEF Told

\* What is sent waits then.
LEMMA WordIsSent ==
  ASSUME NEW sends \in Seq(Sends), sends # <<>>,
         \A i, j \in DOMAIN sends : sends[i][1] = sends[j][1] => i = j,
         NEW value, NEW to, NEW subject, NEW waiting \in Seq(Word), NEW told,
         Told(sends, value, to, subject, waiting, told),
         NEW after, after = IF Head(sends)[1] = to THEN Append(waiting, Head(sends)[2]) ELSE waiting
  PROVE  Told(Tail(sends), value, to, subject, after, told)
<1> DEFINE rest == Tail(sends)
<1>1. /\ Len(sends) \in Nat \ {0} /\ DOMAIN sends = 1..Len(sends)
      /\ Head(sends) = sends[1] /\ Head(sends) \in Sends
      /\ Len(rest) = Len(sends) - 1
      /\ DOMAIN rest = 1..(Len(sends) - 1)
      /\ \A i \in 1..(Len(sends) - 1) : rest[i] = sends[i + 1]
  BY HeadTailProperties, LenProperties
<1> HIDE DEF rest
<1>2. CASE sends[1][1] = to
  <2>1. ASSUME NEW i \in DOMAIN rest
        PROVE  rest[i][1] # to
    <3>1. i + 1 \in DOMAIN sends /\ 1 \in DOMAIN sends /\ i + 1 # 1 /\ rest[i] = sends[i + 1]
      BY <1>1
    <3> QED
      BY <1>2, <3>1
  <2>2. PICK word \in Word : word = Head(sends)[2]
    BY <1>1, WordsAre
  <2>3. after = Append(waiting, word)
    BY <1>1, <1>2, <2>2
  <2>4. CASE word[1] # subject
    <3>1. \A i \in DOMAIN sends : ~(sends[i][1] = to /\ sends[i][2][1] = subject)
      BY <1>1, <1>2, <2>2, <2>4
    <3>2. Told(sends, value, to, subject, after, told)
      BY <2>3, <2>4, OtherWord
    <3> QED
      BY <2>1, <3>1, <3>2 DEF Told, rest
  <2>5. CASE word[1] = subject
    <3>1. \E i \in DOMAIN sends : sends[i][1] = to /\ sends[i][2][1] = subject
      BY <1>1, <1>2, <2>2, <2>5
    <3>2. PICK i \in DOMAIN sends : sends[i] = <<to, <<subject, value>>>>
      BY <3>1 DEF Told, rest
    <3>3. i = 1
      BY <1>1, <1>2, <3>2
    <3>4. word = <<subject, value>>
      BY <1>1, <2>2, <3>2, <3>3
    <3>5. /\ Len(waiting) \in Nat /\ Len(after) = Len(waiting) + 1
          /\ after[Len(waiting) + 1] = word /\ DOMAIN after = 1..(Len(waiting) + 1)
      BY <2>3, AppendProperties, LenProperties
    <3>6. /\ Len(waiting) + 1 \in DOMAIN after
          /\ \A j \in ((Len(waiting) + 1) + 1)..Len(after) : after[j][1] # subject
      BY <3>5
    <3> QED
      BY <2>1, <3>4, <3>5, <3>6 DEF Told, rest
  <2> QED
    BY <2>4, <2>5
<1>3. CASE sends[1][1] # to
  <2>1. after = waiting
    BY <1>1, <1>3
  <2>2. \A i \in DOMAIN rest : i + 1 \in DOMAIN sends /\ rest[i] = sends[i + 1]
    BY <1>1
  <2>3. ASSUME NEW i \in DOMAIN sends, sends[i][1] = to
        PROVE  i - 1 \in DOMAIN rest /\ rest[i - 1] = sends[i]
    <3>1. i # 1 /\ i \in 1..Len(sends)
      BY <1>1, <1>3, <2>3
    <3>2. i - 1 \in 1..(Len(sends) - 1) /\ (i - 1) + 1 = i
      BY <1>1, <3>1
    <3> QED
      BY <1>1, <3>2
  <2>4. CASE \E i \in DOMAIN sends : sends[i][1] = to /\ sends[i][2][1] = subject
    <3>1. PICK i \in DOMAIN sends : sends[i] = <<to, <<subject, value>>>>
      BY <2>4 DEF Told, rest
    <3>2. i - 1 \in DOMAIN rest /\ rest[i - 1] = <<to, <<subject, value>>>>
      BY <2>3, <3>1
    <3>3. rest[i - 1][1] = to /\ rest[i - 1][2][1] = subject
      BY <3>2
    <3>4. \E j \in DOMAIN rest : rest[j][1] = to /\ rest[j][2][1] = subject
      BY <3>2, <3>3
    <3>5. \E j \in DOMAIN rest : rest[j] = <<to, <<subject, value>>>>
      BY <3>2
    <3> QED
      BY <3>4, <3>5 DEF Told, rest
  <2>5. CASE ~\E i \in DOMAIN sends : sends[i][1] = to /\ sends[i][2][1] = subject
    <3>1. ~\E i \in DOMAIN rest : rest[i][1] = to /\ rest[i][2][1] = subject
      BY <2>2, <2>5
    <3> QED
      BY <2>1, <2>5, <3>1 DEF Told, rest
  <2> QED
    BY <2>4, <2>5
<1> QED
  BY <1>2, <1>3

\* When a command is taken, nothing of the last is left to be sent.
LEMMA CommandIsTaken ==
  ASSUME NEW command \in TranscriptCommands, NEW event \in OutputEvents,
         NEW sends, sends = Forwards(command, event)
  PROVE  /\ sends \in Seq(Sends)
         /\ \A i, j \in DOMAIN sends : sends[i][1] = sends[j][1] => i = j
         /\ \A s \in ActiveSpeakers : \E i \in DOMAIN sends : sends[i] = <<s, command>>
         /\ \E i \in DOMAIN sends : sends[i] = <<"overlay", event>>
         /\ \A i \in DOMAIN sends :
              sends[i][2] = IF sends[i][1] = "overlay" THEN event ELSE command
<1> DEFINE told == [i \in 1..Len(Pipelines) |-> <<Pipelines[i], command>>]
           shown == << <<"overlay", event>> >>
<1>1. /\ Len(Pipelines) = IF CandidateEnabled THEN 2 ELSE 1
      /\ Pipelines[1] = "interviewer" /\ (CandidateEnabled => Pipelines[2] = "candidate")
      /\ DOMAIN Pipelines = 1..Len(Pipelines)
  <2>1. CASE CandidateEnabled
    <3>1. Pipelines = <<"interviewer", "candidate">>
      BY <2>1 DEF Pipelines
    <3> QED
      BY <2>1, <3>1
  <2>2. CASE ~CandidateEnabled
    <3>1. Pipelines = <<"interviewer">>
      BY <2>2 DEF Pipelines
    <3> QED
      BY <2>2, <3>1
  <2> QED
    BY <2>1, <2>2
<1>2. ActiveSpeakers = {Pipelines[i] : i \in 1..Len(Pipelines)}
  BY <1>1 DEF ActiveSpeakers, ToSet
<1>3. /\ told \in [1..Len(Pipelines) -> Sends]
      /\ \A i \in 1..Len(Pipelines) : told[i] = <<Pipelines[i], command>>
  BY <1>2 DEF Sends
<1>4. /\ <<"overlay", event>> \in Sends /\ shown \in Seq(Sends)
      /\ Len(shown) = 1 /\ shown[1] = <<"overlay", event>>
  BY DEF Sends
<1>5. sends = told \o shown
  BY DEF Forwards
<1> HIDE DEF told, shown
<1>6. Len(Pipelines) \in Nat /\ told \in Seq(Sends)
  <2>1. Len(Pipelines) \in Nat
    BY <1>1
  <2> QED
    BY <1>3, <2>1, SeqDef
<1>7. Len(told) = Len(Pipelines)
  BY <1>3, <1>6, LenProperties
<1>8. /\ sends \in Seq(Sends) /\ DOMAIN sends = 1..(Len(Pipelines) + 1)
      /\ \A i \in 1..Len(Pipelines) : sends[i] = <<Pipelines[i], command>>
      /\ sends[Len(Pipelines) + 1] = <<"overlay", event>>
  <2>1. /\ sends \in Seq(Sends) /\ Len(sends) = Len(told) + 1
        /\ \A i \in 1..(Len(told) + 1) :
             sends[i] = IF i <= Len(told) THEN told[i] ELSE shown[i - Len(told)]
    <3>1. told \in Seq(Sends) /\ shown \in Seq(Sends)
      BY <1>4, <1>6
    <3>2. /\ told \o shown \in Seq(Sends) /\ Len(told \o shown) = Len(told) + Len(shown)
          /\ \A i \in 1..(Len(told) + Len(shown)) :
               (told \o shown)[i] = IF i <= Len(told) THEN told[i] ELSE shown[i - Len(told)]
      BY <3>1, ConcatProperties
    <3> QED
      BY <1>4, <1>5, <3>2
  <2>2. DOMAIN sends = 1..(Len(Pipelines) + 1)
    BY <1>7, <2>1, LenProperties
  <2>3. ASSUME NEW i \in 1..Len(Pipelines)
        PROVE  sends[i] = <<Pipelines[i], command>>
    BY <1>3, <1>6, <1>7, <2>1
  <2>4. sends[Len(Pipelines) + 1] = shown[1]
    BY <1>6, <1>7, <2>1
  <2> QED
    BY <1>4, <2>1, <2>2, <2>3, <2>4
<1>9. CASE CandidateEnabled
  <2>1. ActiveSpeakers = {"interviewer", "candidate"} /\ DOMAIN sends = {1, 2, 3}
    BY <1>1, <1>2, <1>8, <1>9
  <2>2. /\ sends[1] = <<"interviewer", command>> /\ sends[2] = <<"candidate", command>>
        /\ sends[3] = <<"overlay", event>>
    BY <1>1, <1>8, <1>9
  <2>3. /\ sends[1][1] = "interviewer" /\ sends[1][2] = command
        /\ sends[2][1] = "candidate" /\ sends[2][2] = command
        /\ sends[3][1] = "overlay" /\ sends[3][2] = event
    BY <2>2
  <2>4. \A i, j \in DOMAIN sends : sends[i][1] = sends[j][1] => i = j
    BY <2>1, <2>3
  <2>5. \A s \in ActiveSpeakers : \E i \in DOMAIN sends : sends[i] = <<s, command>>
    BY <2>1, <2>2
  <2>6. \A i \in DOMAIN sends :
          sends[i][2] = IF sends[i][1] = "overlay" THEN event ELSE command
    BY <2>1, <2>3
  <2> QED
    BY <1>8, <2>1, <2>2, <2>4, <2>5, <2>6
<1>10. CASE ~CandidateEnabled
  <2>1. ActiveSpeakers = {"interviewer"} /\ DOMAIN sends = {1, 2}
    BY <1>1, <1>2, <1>8, <1>10
  <2>2. sends[1] = <<"interviewer", command>> /\ sends[2] = <<"overlay", event>>
    BY <1>1, <1>8, <1>10
  <2>3. /\ sends[1][1] = "interviewer" /\ sends[1][2] = command
        /\ sends[2][1] = "overlay" /\ sends[2][2] = event
    BY <2>2
  <2>4. \A i, j \in DOMAIN sends : sends[i][1] = sends[j][1] => i = j
    BY <2>1, <2>3
  <2>5. \A s \in ActiveSpeakers : \E i \in DOMAIN sends : sends[i] = <<s, command>>
    BY <2>1, <2>2
  <2>6. \A i \in DOMAIN sends :
          sends[i][2] = IF sends[i][1] = "overlay" THEN event ELSE command
    BY <2>1, <2>3
  <2> QED
    BY <1>8, <2>1, <2>2, <2>4, <2>5, <2>6
<1> QED
  BY <1>9, <1>10

\* What is sent of the other subjects is as before, and of this one it is new.
LEMMA CommandTells ==
  ASSUME NEW sends, NEW value, NEW to, NEW subject, NEW waiting, NEW told,
         Told(<<>>, value, to, subject, waiting, told),
         NEW word, \A i \in DOMAIN sends : sends[i][1] = to => sends[i][2] = word,
         \E i \in DOMAIN sends : sends[i] = <<to, word>>
  PROVE  /\ word[1] # subject => Told(sends, value, to, subject, waiting, told)
         /\ \A new : word = <<subject, new>> => Told(sends, new, to, subject, waiting, told)
<1>1. ASSUME word[1] # subject
      PROVE  Told(sends, value, to, subject, waiting, told)
  <2>1. ~\E i \in DOMAIN sends : sends[i][1] = to /\ sends[i][2][1] = subject
    BY <1>1
  <2>2. ~\E i \in DOMAIN <<>> : <<>>[i][1] = to /\ <<>>[i][2][1] = subject
    OBVIOUS
  <2> QED
    BY <2>1, <2>2 DEF Told
<1>2. ASSUME NEW new, word = <<subject, new>>
      PROVE  Told(sends, new, to, subject, waiting, told)
  <2>1. PICK i \in DOMAIN sends : sends[i] = <<to, <<subject, new>>>>
    BY <1>2
  <2>2. sends[i][1] = to /\ sends[i][2][1] = subject
    BY <2>1
  <2> QED
    BY <2>1, <2>2 DEF Told
<1> QED
  BY <1>1, <1>2

-----------------------------------------------------------------------------
(* The steps of the session *)

\* A step that tells nobody anything.
LEMMA SessionRests ==
  ASSUME SessionInv, UNCHANGED <<todo, mode, pauseAsked, transcriptQ, worker, outputQ>>,
         overlay'.mode = overlay.mode, phase' = "loop" => phase = "loop"
  PROVE  OnceEach' /\ CommandsReachEveryone'
<1>1. OnceEach'
  BY DEF SessionInv, OnceEach
<1>2. Reached(todo, phase, mode, pauseAsked, transcriptQ, worker, outputQ, overlay)
  BY ReachedIs DEF SessionInv
<1>3. Reached(todo', phase', mode', pauseAsked', transcriptQ', worker', outputQ', overlay')
  BY <1>2 DEF Reached
<1> QED
  BY <1>1, <1>3, ReachedIs

LEMMA ControlStep ==
  ASSUME MaxPresses \in Nat, SessionInv,
         PressPause \/ PressMode \/ PressClose
  PROVE  SessionInv'
<1>1. PICK c \in AppCommands : Command(c)
  BY DEF PressPause, PressMode, PressClose, AppCommands
<1>2. /\ Press
      /\ overlay' = overlay \/ overlay' = [overlay EXCEPT !.stopping = TRUE]
  BY DEF PressPause, PressMode, PressClose
<1>3. /\ UNCHANGED <<phase, todo, mode, pauseAsked, transcriptQ, worker, link, statuses, statusQ,
                     outputQ>>
      /\ presses < MaxPresses /\ presses' = presses + 1
  BY <1>2 DEF Press, application, recognisers
<1>4. commandQ' \in Seq(AppCommands)
  BY <1>1, AppendProperties DEF Command, SessionInv, SessionTypeOK
<1>5. /\ overlay' \in [paused : BOOLEAN, mode : Modes, stopping : BOOLEAN,
                       exited : BOOLEAN]
      /\ overlay'.mode = overlay.mode
  BY <1>2 DEF SessionInv, SessionTypeOK
<1>6. presses' \in 0..MaxPresses
  BY <1>3 DEF SessionInv, SessionTypeOK
<1>7. SessionTypeOK'
  BY <1>3, <1>4, <1>5, <1>6 DEF SessionInv, SessionTypeOK
<1> QED
  BY <1>3, <1>5, <1>7, SessionRests DEF SessionInv

\* The types that the channels, which carry words, share.
LEMMA ChannelsAre ==
  ASSUME SessionTypeOK
  PROVE  /\ todo \in Seq(Sends) /\ outputQ \in Seq(Word)
         /\ \A s \in ActiveSpeakers : transcriptQ[s] \in Seq(Word)
         /\ OutputEvents \subseteq Word /\ TranscriptCommands \subseteq Word
BY DEF SessionTypeOK, Sends, Word

LEMMA ShowStep ==
  ASSUME SessionInv, Show
  PROVE  SessionInv'
<1> DEFINE Overlay == [paused : BOOLEAN, mode : Modes, stopping : BOOLEAN,
                       exited : BOOLEAN]
<1>1. /\ outputQ # <<>> /\ outputQ' = Tail(outputQ)
      /\ overlay' = Shown(overlay, Head(outputQ))
      /\ UNCHANGED <<presses, commandQ, phase, todo, mode, pauseAsked, transcriptQ, worker, link,
                     statuses, statusQ>>
  BY DEF Show, application, recognisers
<1>2. PICK event \in OutputEvents : event = Head(outputQ)
  BY <1>1, HeadTailProperties DEF SessionInv, SessionTypeOK
<1>3. outputQ' \in Seq(OutputEvents)
  BY <1>1, HeadTailProperties DEF SessionInv, SessionTypeOK
<1>4. overlay \in Overlay
  BY DEF SessionInv, SessionTypeOK
<1>5. /\ event[1] \in {"Status", "ModeChanged"}
      /\ event[1] = "ModeChanged" => event[2] \in Modes
      /\ event = <<event[1], event[2]>>
  BY DEF OutputEvents
<1>6. /\ overlay' \in Overlay
      /\ overlay'.mode = IF event[1] = "ModeChanged" THEN event[2] ELSE overlay.mode
  <2>1. overlay' = Shown(overlay, event)
    BY <1>1, <1>2
  <2>2. CASE event[1] = "ModeChanged"
    <3>1. overlay' = [overlay EXCEPT !.mode = event[2]]
      BY <1>5, <2>1, <2>2 DEF Shown
    <3> QED
      BY <1>4, <1>5, <2>2, <3>1
  <2>3. CASE event[1] = "Status"
    <3>1. \/ overlay' = [overlay EXCEPT !.paused = TRUE]
          \/ overlay' = [overlay EXCEPT !.paused = FALSE]
          \/ overlay' = [overlay EXCEPT !.exited = TRUE]
          \/ overlay' = overlay
      BY <1>5, <2>1, <2>3 DEF Shown
    <3> QED
      BY <1>4, <2>3, <3>1
  <2> QED
    BY <1>5, <2>2, <2>3
<1>7. SessionTypeOK'
  BY <1>1, <1>3, <1>6 DEF SessionInv, SessionTypeOK
<1>8. OnceEach'
  BY <1>1 DEF SessionInv, OnceEach
<1>9. CommandsReachEveryone'
  <2>1. Reached(todo, phase, mode, pauseAsked, transcriptQ, worker, outputQ, overlay)
    BY ReachedIs DEF SessionInv
  <2>2. ASSUME Told(todo, mode, "overlay", "ModeChanged", outputQ, overlay.mode)
        PROVE  Told(todo, mode, "overlay", "ModeChanged", outputQ', overlay'.mode)
    <3>1. outputQ \in Seq(Word)
      BY ChannelsAre DEF SessionInv
    <3>2. overlay'.mode = IF Head(outputQ)[1] = "ModeChanged" THEN Head(outputQ)[2]
                                                              ELSE overlay.mode
      BY <1>2, <1>6
    <3> QED
      BY <1>1, <2>2, <3>1, <3>2, WordIsHeard
  <2>3. Reached(todo', phase', mode', pauseAsked', transcriptQ', worker', outputQ', overlay')
    BY <1>1, <2>1, <2>2 DEF Reached
  <2> QED
    BY <2>3, ReachedIs
<1> QED
  BY <1>7, <1>8, <1>9 DEF SessionInv

LEMMA TakeCommandStep ==
  ASSUME SessionInv, TakeCommand
  PROVE  SessionInv'
<1>1. /\ phase = "loop" /\ todo = <<>> /\ commandQ # <<>> /\ commandQ' = Tail(commandQ)
      /\ UNCHANGED <<presses, transcriptQ, worker, link, statuses, statusQ, outputQ, overlay>>
  BY DEF TakeCommand, recognisers
<1>2. Head(commandQ) \in AppCommands /\ commandQ' \in Seq(AppCommands)
  BY <1>1, HeadTailProperties DEF SessionInv, SessionTypeOK
<1>3. Reached(<<>>, "loop", mode, pauseAsked, transcriptQ, worker, outputQ, overlay)
  BY <1>1, ReachedIs DEF SessionInv
<1>4. mode \in Modes /\ pauseAsked \in BOOLEAN
  BY DEF SessionInv, SessionTypeOK
<1>5. ASSUME NEW paused \in BOOLEAN, NEW event \in OutputEvents, event[1] # "ModeChanged",
             pauseAsked' = paused, todo' = Forwards(<<"SetPaused", paused>>, event),
             UNCHANGED <<phase, mode>>
      PROVE  SessionInv'
  <2>1. PICK command \in TranscriptCommands : command = <<"SetPaused", paused>>
    BY DEF TranscriptCommands
  <2>2. PICK sends : sends = Forwards(command, event) /\ todo' = sends
    BY <1>5, <2>1
  <2>3. /\ sends \in Seq(Sends)
        /\ \A i, j \in DOMAIN sends : sends[i][1] = sends[j][1] => i = j
        /\ \A s \in ActiveSpeakers : \E i \in DOMAIN sends : sends[i] = <<s, command>>
        /\ \E i \in DOMAIN sends : sends[i] = <<"overlay", event>>
        /\ \A i \in DOMAIN sends :
              sends[i][2] = IF sends[i][1] = "overlay" THEN event ELSE command
    BY <2>2, CommandIsTaken
  <2>4. ASSUME NEW s \in ActiveSpeakers
        PROVE  /\ Told(sends, paused, s, "SetPaused", transcriptQ[s], worker[s].paused)
               /\ Told(sends, mode, s, "SetMode", transcriptQ[s], worker[s].mode)
    <3>1. \A i \in DOMAIN sends : sends[i][1] = s => sends[i][2] = command
      BY <2>3, SpeakersAre
    <3>2. /\ Told(<<>>, pauseAsked, s, "SetPaused", transcriptQ[s], worker[s].paused)
          /\ Told(<<>>, mode, s, "SetMode", transcriptQ[s], worker[s].mode)
      BY <1>3 DEF Reached
    <3>3. command[1] = "SetPaused"
      BY <2>1
    <3>4. Told(sends, paused, s, "SetPaused", transcriptQ[s], worker[s].paused)
      BY <2>1, <2>3, <3>1, <3>2, CommandTells
    <3>5. Told(sends, mode, s, "SetMode", transcriptQ[s], worker[s].mode)
      BY <2>3, <3>1, <3>2, <3>3, CommandTells
    <3> QED
      BY <3>4, <3>5
  <2>5. Told(sends, mode, "overlay", "ModeChanged", outputQ, overlay.mode)
    <3>1. Told(<<>>, mode, "overlay", "ModeChanged", outputQ, overlay.mode)
      BY <1>3 DEF Reached
    <3> QED
      BY <1>5, <2>3, <3>1, CommandTells
  <2>6. Reached(todo', phase', mode', pauseAsked', transcriptQ', worker', outputQ', overlay')
    BY <1>1, <1>5, <2>2, <2>4, <2>5 DEF Reached
  <2>7. OnceEach'
    BY <2>2, <2>3 DEF OnceEach
  <2>8. SessionTypeOK'
    BY <1>1, <1>2, <1>5, <2>2, <2>3 DEF SessionInv, SessionTypeOK, Sends
  <2> QED
    BY <2>6, <2>7, <2>8, ReachedIs DEF SessionInv
<1>6. CASE Head(commandQ) \in {"PauseListening", "ResumeListening"}
  <2>1. \/ /\ pauseAsked' = TRUE
           /\ todo' = Forwards(<<"SetPaused", TRUE>>, <<"Status", "Paused">>)
           /\ UNCHANGED <<phase, mode>>
        \/ /\ pauseAsked' = FALSE
           /\ todo' = Forwards(<<"SetPaused", FALSE>>, <<"Status", "Listening">>)
           /\ UNCHANGED <<phase, mode>>
    BY <1>6 DEF TakeCommand
  <2>2. /\ <<"Status", "Paused">> \in OutputEvents
        /\ <<"Status", "Listening">> \in OutputEvents
    BY DEF OutputEvents, Statuses
  <2> QED
    BY <1>5, <2>1, <2>2
<1>7. CASE Head(commandQ) = "ToggleLiveCoding"
  <2>1. PICK new : new = Toggled(mode)
    OBVIOUS
  <2>2. /\ mode' = new /\ UNCHANGED <<phase, pauseAsked>>
        /\ todo' = Forwards(<<"SetMode", new>>, <<"ModeChanged", new>>)
    BY <1>7, <2>1 DEF TakeCommand
  <2>3. new \in Modes
    BY <2>1 DEF Toggled, Modes
  <2>4. PICK command \in TranscriptCommands : command = <<"SetMode", new>>
    BY <2>3 DEF TranscriptCommands
  <2>5. PICK event \in OutputEvents : event = <<"ModeChanged", new>>
    BY <2>3 DEF OutputEvents
  <2>6. PICK sends : sends = Forwards(command, event) /\ todo' = sends
    BY <2>2, <2>4, <2>5
  <2>7. /\ sends \in Seq(Sends)
        /\ \A i, j \in DOMAIN sends : sends[i][1] = sends[j][1] => i = j
        /\ \A s \in ActiveSpeakers : \E i \in DOMAIN sends : sends[i] = <<s, command>>
        /\ \E i \in DOMAIN sends : sends[i] = <<"overlay", event>>
        /\ \A i \in DOMAIN sends :
              sends[i][2] = IF sends[i][1] = "overlay" THEN event ELSE command
    BY <2>6, CommandIsTaken
  <2>8. ASSUME NEW s \in ActiveSpeakers
        PROVE  /\ Told(sends, pauseAsked, s, "SetPaused", transcriptQ[s], worker[s].paused)
               /\ Told(sends, new, s, "SetMode", transcriptQ[s], worker[s].mode)
    <3>1. \A i \in DOMAIN sends : sends[i][1] = s => sends[i][2] = command
      BY <2>7, SpeakersAre
    <3>2. /\ Told(<<>>, pauseAsked, s, "SetPaused", transcriptQ[s], worker[s].paused)
          /\ Told(<<>>, mode, s, "SetMode", transcriptQ[s], worker[s].mode)
      BY <1>3 DEF Reached
    <3>3. command[1] = "SetMode"
      BY <2>4
    <3>4. Told(sends, pauseAsked, s, "SetPaused", transcriptQ[s], worker[s].paused)
      BY <2>7, <3>1, <3>2, <3>3, CommandTells
    <3>5. Told(sends, new, s, "SetMode", transcriptQ[s], worker[s].mode)
      BY <2>4, <2>7, <3>1, <3>2, CommandTells
    <3> QED
      BY <3>4, <3>5
  <2>9. Told(sends, new, "overlay", "ModeChanged", outputQ, overlay.mode)
    <3>1. Told(<<>>, mode, "overlay", "ModeChanged", outputQ, overlay.mode)
      BY <1>3 DEF Reached
    <3> QED
      BY <2>5, <2>7, <3>1, CommandTells
  <2>10. Reached(todo', phase', mode', pauseAsked', transcriptQ', worker', outputQ', overlay')
    BY <1>1, <2>2, <2>6, <2>8, <2>9 DEF Reached
  <2>11. OnceEach'
    BY <2>6, <2>7 DEF OnceEach
  <2>12. SessionTypeOK'
    BY <1>1, <1>2, <2>2, <2>3, <2>6, <2>7 DEF SessionInv, SessionTypeOK, Sends
  <2> QED
    BY <2>10, <2>11, <2>12, ReachedIs DEF SessionInv
<1>8. CASE Head(commandQ) = "Shutdown"
  <2>1. phase' = "stopping" /\ UNCHANGED <<todo, mode, pauseAsked>>
    BY <1>8 DEF TakeCommand
  <2>2. SessionTypeOK'
    BY <1>1, <1>2, <2>1 DEF SessionInv, SessionTypeOK
  <2> QED
    BY <1>1, <2>1, <2>2, SessionRests DEF SessionInv
<1> QED
  BY <1>2, <1>6, <1>7, <1>8 DEF AppCommands

LEMMA ForwardStep ==
  ASSUME SessionInv, Forward
  PROVE  SessionInv'
<1>1. /\ phase = "loop" /\ todo # <<>> /\ todo' = Tail(todo)
      /\ UNCHANGED <<presses, commandQ, phase, mode, pauseAsked, worker, link, statuses, statusQ,
                     overlay>>
  BY DEF Forward, recognisers
<1>2. todo \in Seq(Sends) /\ todo' \in Seq(Sends) /\ Head(todo) \in Sends
  BY <1>1, ChannelsAre, HeadTailProperties DEF SessionInv
<1>3. PICK to, what : to = Head(todo)[1] /\ what = Head(todo)[2]
  OBVIOUS
<1>4. /\ \/ to \in ActiveSpeakers /\ what \in TranscriptCommands
         \/ to = "overlay" /\ what \in OutputEvents
      /\ to # "overlay" <=> to \in ActiveSpeakers
  BY <1>2, <1>3, SpeakersAre DEF Sends
<1>5. IF to = "overlay"
      THEN outputQ' = Append(outputQ, what) /\ UNCHANGED transcriptQ
      ELSE transcriptQ' = [transcriptQ EXCEPT ![to] = Append(@, what)] /\ UNCHANGED outputQ
  BY <1>3 DEF Forward
<1>6. outputQ' \in Seq(OutputEvents)
  <2>1. outputQ \in Seq(OutputEvents)
    BY DEF SessionInv, SessionTypeOK
  <2>2. CASE to = "overlay"
    <3>1. what \in OutputEvents
      BY <1>4, <2>2
    <3> QED
      BY <1>5, <2>1, <2>2, <3>1, AppendProperties
  <2>3. CASE to # "overlay"
    BY <1>5, <2>1, <2>3
  <2> QED
    BY <2>2, <2>3
<1>7. transcriptQ' \in [ActiveSpeakers -> Seq(TranscriptCommands)]
  <2>1. transcriptQ \in [ActiveSpeakers -> Seq(TranscriptCommands)]
    BY DEF SessionInv, SessionTypeOK
  <2>2. CASE to = "overlay"
    BY <1>5, <2>1, <2>2
  <2>3. CASE to # "overlay"
    <3>1. to \in ActiveSpeakers /\ what \in TranscriptCommands
      BY <1>4, <2>3
    <3>2. Append(transcriptQ[to], what) \in Seq(TranscriptCommands)
      BY <2>1, <3>1, AppendProperties
    <3> QED
      BY <1>5, <2>1, <2>3, <3>2
  <2> QED
    BY <2>2, <2>3
<1>8. /\ outputQ' = IF Head(todo)[1] = "overlay" THEN Append(outputQ, Head(todo)[2]) ELSE outputQ
      /\ \A s \in ActiveSpeakers :
           transcriptQ'[s] = IF Head(todo)[1] = s THEN Append(transcriptQ[s], Head(todo)[2])
                                                  ELSE transcriptQ[s]
  <2>1. transcriptQ \in [ActiveSpeakers -> Seq(TranscriptCommands)]
    BY DEF SessionInv, SessionTypeOK
  <2>2. CASE to = "overlay"
    BY <1>3, <1>5, <2>2, SpeakersAre
  <2>3. CASE to # "overlay"
    BY <1>3, <1>4, <1>5, <2>1, <2>3
  <2> QED
    BY <2>2, <2>3
<1>9. \A i, j \in DOMAIN todo : todo[i][1] = todo[j][1] => i = j
  BY DEF SessionInv, OnceEach
<1>10. OnceEach'
  <2>1. /\ Len(todo) \in Nat /\ DOMAIN todo = 1..Len(todo)
        /\ \A i \in DOMAIN Tail(todo) : i \in Nat /\ i + 1 \in DOMAIN todo
                                        /\ Tail(todo)[i] = todo[i + 1]
    BY <1>1, <1>2, HeadTailProperties, LenProperties
  <2>2. ASSUME NEW i \in DOMAIN Tail(todo), NEW j \in DOMAIN Tail(todo),
               Tail(todo)[i][1] = Tail(todo)[j][1]
        PROVE  i = j
    <3>1. i + 1 = j + 1
      BY <1>9, <2>1, <2>2
    <3> QED
      BY <2>1, <3>1
  <2> QED
    BY <1>1, <2>2 DEF OnceEach
<1>11. SessionTypeOK'
  BY <1>1, <1>2, <1>6, <1>7 DEF SessionInv, SessionTypeOK, Sends
<1>12. CommandsReachEveryone'
  <2>1. Reached(todo, phase, mode, pauseAsked, transcriptQ, worker, outputQ, overlay)
    BY ReachedIs DEF SessionInv
  <2>2. outputQ \in Seq(Word) /\ \A s \in ActiveSpeakers : transcriptQ[s] \in Seq(Word)
    BY ChannelsAre DEF SessionInv
  <2>3. ASSUME NEW s \in ActiveSpeakers
        PROVE  /\ Told(todo', pauseAsked, s, "SetPaused", transcriptQ'[s], worker[s].paused)
               /\ Told(todo', mode, s, "SetMode", transcriptQ'[s], worker[s].mode)
    <3>1. /\ Told(todo, pauseAsked, s, "SetPaused", transcriptQ[s], worker[s].paused)
          /\ Told(todo, mode, s, "SetMode", transcriptQ[s], worker[s].mode)
      BY <1>1, <2>1 DEF Reached
    <3>2. Told(todo', pauseAsked, s, "SetPaused", transcriptQ'[s], worker[s].paused)
      BY <1>1, <1>2, <1>8, <1>9, <2>2, <3>1, WordIsSent
    <3>3. Told(todo', mode, s, "SetMode", transcriptQ'[s], worker[s].mode)
      BY <1>1, <1>2, <1>8, <1>9, <2>2, <3>1, WordIsSent
    <3> QED
      BY <3>2, <3>3
  <2>4. Told(todo', mode, "overlay", "ModeChanged", outputQ', overlay.mode)
    <3>1. Told(todo, mode, "overlay", "ModeChanged", outputQ, overlay.mode)
      BY <1>1, <2>1 DEF Reached
    <3> QED
      BY <1>1, <1>2, <1>8, <1>9, <2>2, <3>1, WordIsSent
  <2>5. Reached(todo', phase', mode', pauseAsked', transcriptQ', worker', outputQ', overlay')
    BY <1>1, <2>3, <2>4 DEF Reached
  <2> QED
    BY <2>5, ReachedIs
<1> QED
  BY <1>10, <1>11, <1>12 DEF SessionInv

\* The loop is left: nothing is promised any more.
LEMMA StopStep ==
  ASSUME SessionInv, LoopEnds \/ PipelineStops \/ PipelineFails
  PROVE  SessionInv'
<1>1. CASE LoopEnds
  <2>1. /\ phase' = "stopping" /\ todo' = <<>>
        /\ UNCHANGED <<presses, commandQ, mode, pauseAsked, transcriptQ, worker, link, statuses,
                       statusQ, outputQ, overlay>>
    BY <1>1 DEF LoopEnds, recognisers
  <2>2. SessionTypeOK'
    BY <2>1 DEF SessionInv, SessionTypeOK
  <2> QED
    BY <2>1, <2>2 DEF SessionInv, OnceEach, CommandsReachEveryone
<1>2. CASE PipelineStops \/ PipelineFails
  <2>1. /\ phase' = "over"
        /\ UNCHANGED <<presses, commandQ, todo, mode, pauseAsked, transcriptQ, worker, link,
                       statuses, statusQ, overlay>>
        /\ \/ outputQ' = Append(outputQ, <<"Status", "Stopped">>)
           \/ \E n \in 0..Len(outputQ) :
                outputQ' = Append(SubSeq(outputQ, 1, n), <<"Status", "Stopped">>)
    BY <1>2 DEF PipelineStops, PipelineFails, recognisers
  <2>2. outputQ' \in Seq(OutputEvents)
    <3>1. PICK last \in OutputEvents : last = <<"Status", "Stopped">>
      BY DEF OutputEvents
    <3>2. outputQ \in Seq(OutputEvents)
      BY DEF SessionInv, SessionTypeOK
    <3>3. \A n \in 0..Len(outputQ) : SubSeq(outputQ, 1, n) \in Seq(OutputEvents)
      BY <3>2, SubSeqProperties, LenProperties
    <3>4. \A q \in Seq(OutputEvents) : Append(q, last) \in Seq(OutputEvents)
      BY AppendProperties
    <3> QED
      BY <2>1, <3>1, <3>2, <3>3, <3>4
  <2>3. SessionTypeOK'
    BY <2>1, <2>2 DEF SessionInv, SessionTypeOK
  <2> QED
    BY <2>1, <2>3 DEF SessionInv, OnceEach, CommandsReachEveryone
<1> QED
  BY <1>1, <1>2

LEMMA ObeyStep ==
  ASSUME SessionInv, NEW s \in ActiveSpeakers, Obey(s)
  PROVE  SessionInv'
<1> DEFINE Worker == [paused : BOOLEAN, mode : Modes]
<1>1. /\ transcriptQ[s] # <<>>
      /\ worker' = [worker EXCEPT ![s] = Obeyed(worker[s], Head(transcriptQ[s]))]
      /\ transcriptQ' = [transcriptQ EXCEPT ![s] = Tail(transcriptQ[s])]
      /\ UNCHANGED <<presses, commandQ, phase, todo, mode, pauseAsked, link, statuses, statusQ,
                     outputQ, overlay>>
  BY DEF Obey, application, recognisers
<1>2. /\ transcriptQ \in [ActiveSpeakers -> Seq(TranscriptCommands)]
      /\ worker \in [ActiveSpeakers -> Worker]
  BY DEF SessionInv, SessionTypeOK
<1>3. PICK command \in TranscriptCommands : command = Head(transcriptQ[s])
  BY <1>1, <1>2, HeadTailProperties
<1>4. Tail(transcriptQ[s]) \in Seq(TranscriptCommands)
  BY <1>1, <1>2, HeadTailProperties
<1>5. /\ command[1] = "SetPaused" => command[2] \in BOOLEAN
      /\ command[1] = "SetMode" => command[2] \in Modes
      /\ command[1] \in {"SetPaused", "SetMode"}
  BY WordsAre DEF TranscriptCommands
<1>6. PICK now : now = Obeyed(worker[s], command)
  OBVIOUS
<1>7. /\ now \in Worker
      /\ now.paused = IF command[1] = "SetPaused" THEN command[2] ELSE worker[s].paused
      /\ now.mode = IF command[1] = "SetMode" THEN command[2] ELSE worker[s].mode
  <2>1. PICK was \in Worker : was = worker[s]
    BY <1>2
  <2>2. CASE command[1] = "SetPaused"
    <3>1. now = [was EXCEPT !.paused = command[2]]
      BY <1>6, <2>1, <2>2 DEF Obeyed
    <3> QED
      BY <1>5, <2>1, <2>2, <3>1
  <2>3. CASE command[1] = "SetMode"
    <3>1. now = [was EXCEPT !.mode = command[2]]
      BY <1>6, <2>1, <2>3 DEF Obeyed
    <3> QED
      BY <1>5, <2>1, <2>3, <3>1
  <2> QED
    BY <1>5, <2>2, <2>3
<1>8. worker' = [worker EXCEPT ![s] = now]
  BY <1>1, <1>3, <1>6
<1>9. worker' \in [ActiveSpeakers -> Worker]
  BY <1>2, <1>7, <1>8
<1>10. transcriptQ' \in [ActiveSpeakers -> Seq(TranscriptCommands)]
  BY <1>1, <1>2, <1>4
<1>11. SessionTypeOK'
  BY <1>1, <1>9, <1>10 DEF SessionInv, SessionTypeOK
<1>12. OnceEach'
  BY <1>1 DEF SessionInv, OnceEach
<1>13. CommandsReachEveryone'
  <2>1. Reached(todo, phase, mode, pauseAsked, transcriptQ, worker, outputQ, overlay)
    BY ReachedIs DEF SessionInv
  <2>2. transcriptQ[s] \in Seq(Word)
    BY ChannelsAre DEF SessionInv
  <2>3. ASSUME NEW u \in ActiveSpeakers, phase = "loop"
        PROVE  /\ Told(todo, pauseAsked, u, "SetPaused", transcriptQ'[u], worker'[u].paused)
               /\ Told(todo, mode, u, "SetMode", transcriptQ'[u], worker'[u].mode)
    <3>1. /\ Told(todo, pauseAsked, u, "SetPaused", transcriptQ[u], worker[u].paused)
          /\ Told(todo, mode, u, "SetMode", transcriptQ[u], worker[u].mode)
      BY <2>1, <2>3 DEF Reached
    <3>2. CASE u # s
      <4>1. worker'[u] = worker[u] /\ transcriptQ'[u] = transcriptQ[u]
        BY <1>1, <1>2, <1>8, <3>2
      <4> QED
        BY <3>1, <4>1
    <3>3. CASE u = s
      <4>1. worker'[u] = now /\ transcriptQ'[u] = Tail(transcriptQ[s])
        BY <1>1, <1>2, <1>8, <3>3
      <4>2. now.paused = IF Head(transcriptQ[s])[1] = "SetPaused" THEN Head(transcriptQ[s])[2]
                                                                  ELSE worker[s].paused
        BY <1>3, <1>7
      <4>3. now.mode = IF Head(transcriptQ[s])[1] = "SetMode" THEN Head(transcriptQ[s])[2]
                                                              ELSE worker[s].mode
        BY <1>3, <1>7
      <4>4. Told(todo, pauseAsked, s, "SetPaused", Tail(transcriptQ[s]), now.paused)
        BY <1>1, <2>2, <3>1, <3>3, <4>2, WordIsHeard
      <4>5. Told(todo, mode, s, "SetMode", Tail(transcriptQ[s]), now.mode)
        BY <1>1, <2>2, <3>1, <3>3, <4>3, WordIsHeard
      <4> QED
        BY <3>3, <4>1, <4>4, <4>5
    <3> QED
      BY <3>2, <3>3
  <2>4. Reached(todo', phase', mode', pauseAsked', transcriptQ', worker', outputQ', overlay')
    BY <1>1, <2>1, <2>3 DEF Reached
  <2> QED
    BY <2>4, ReachedIs
<1> QED
  BY <1>11, <1>12, <1>13 DEF SessionInv

LEMMA ForwardStatusStep ==
  ASSUME SessionInv, NEW s \in ActiveSpeakers, ForwardStatus(s)
  PROVE  SessionInv'
<1>1. /\ statusQ[s] # <<>> /\ statusQ' = [statusQ EXCEPT ![s] = Tail(statusQ[s])]
      /\ outputQ' = Append(outputQ, <<"Status", Head(statusQ[s])>>)
      /\ UNCHANGED <<presses, commandQ, phase, todo, mode, pauseAsked, transcriptQ, worker, link,
                     statuses, overlay>>
  BY DEF ForwardStatus, application, recognisers
<1>2. statusQ \in [ActiveSpeakers -> Seq(Statuses)]
  BY DEF SessionInv, SessionTypeOK
<1>3. Head(statusQ[s]) \in Statuses /\ Tail(statusQ[s]) \in Seq(Statuses)
  BY <1>1, <1>2, HeadTailProperties
<1>4. PICK event \in OutputEvents : event = <<"Status", Head(statusQ[s])>>
  BY <1>3 DEF OutputEvents
<1>5. outputQ' = Append(outputQ, event) /\ event[1] # "ModeChanged"
  BY <1>1, <1>4
<1>6. outputQ' \in Seq(OutputEvents)
  BY <1>5, AppendProperties DEF SessionInv, SessionTypeOK
<1>7. statusQ' \in [ActiveSpeakers -> Seq(Statuses)]
  BY <1>1, <1>2, <1>3
<1>8. SessionTypeOK'
  BY <1>1, <1>6, <1>7 DEF SessionInv, SessionTypeOK
<1>9. OnceEach'
  BY <1>1 DEF SessionInv, OnceEach
<1>10. CommandsReachEveryone'
  <2>1. Reached(todo, phase, mode, pauseAsked, transcriptQ, worker, outputQ, overlay)
    BY ReachedIs DEF SessionInv
  <2>2. outputQ \in Seq(Word) /\ event \in Word
    BY ChannelsAre DEF SessionInv
  <2>3. Told(todo, mode, "overlay", "ModeChanged", outputQ, overlay.mode) =>
          Told(todo, mode, "overlay", "ModeChanged", outputQ', overlay.mode)
    BY <1>5, <2>2, OtherWord
  <2>4. Reached(todo', phase', mode', pauseAsked', transcriptQ', worker', outputQ', overlay')
    BY <1>1, <2>1, <2>3 DEF Reached
  <2> QED
    BY <2>4, ReachedIs
<1> QED
  BY <1>8, <1>9, <1>10 DEF SessionInv

LEMMA ReportStep ==
  ASSUME MaxStatuses \in Nat, SessionInv, NEW s \in ActiveSpeakers,
         Connecting(s) \/ Connected(s) \/ Disconnected(s)
  PROVE  SessionInv'
<1>1. PICK state \in {"connecting", "connected", "waiting"}, report \in Statuses :
        Reports(s, state, report)
  BY DEF Connecting, Connected, Disconnected, Statuses
<1>2. /\ statuses < MaxStatuses /\ statuses' = statuses + 1
      /\ link' = [link EXCEPT ![s] = state]
      /\ statusQ' = [statusQ EXCEPT ![s] = Append(statusQ[s], report)]
      /\ UNCHANGED <<presses, commandQ, phase, todo, mode, pauseAsked, transcriptQ, worker,
                     outputQ, overlay>>
  BY <1>1 DEF Reports, application
<1>3. Append(statusQ[s], report) \in Seq(Statuses)
  BY AppendProperties DEF SessionInv, SessionTypeOK
<1>4. /\ statusQ' \in [ActiveSpeakers -> Seq(Statuses)]
      /\ link' \in [ActiveSpeakers -> {"connecting", "connected", "waiting"}]
  BY <1>2, <1>3 DEF SessionInv, SessionTypeOK
<1>5. statuses' \in 0..MaxStatuses
  BY <1>2 DEF SessionInv, SessionTypeOK
<1>6. SessionTypeOK'
  BY <1>2, <1>4, <1>5 DEF SessionInv, SessionTypeOK
<1> QED
  BY <1>2, <1>6, SessionRests DEF SessionInv

LEMMA InitSessionInv ==
  ASSUME MaxPresses \in Nat, MaxStatuses \in Nat, SessionInit
  PROVE  SessionInv
<1>1. /\ presses = 0 /\ commandQ = <<>> /\ phase = "loop" /\ todo = <<>> /\ mode = "Voice"
      /\ pauseAsked = FALSE /\ statuses = 0
      /\ transcriptQ = [s \in ActiveSpeakers |-> <<>>]
      /\ worker = [s \in ActiveSpeakers |-> [paused |-> FALSE, mode |-> "Voice"]]
      /\ link = [s \in ActiveSpeakers |-> "waiting"]
      /\ statusQ = [s \in ActiveSpeakers |-> <<>>]
      /\ outputQ = << <<"ModeChanged", "Voice">> >>
      /\ overlay = [paused |-> FALSE, mode |-> "Voice", stopping |-> FALSE, exited |-> FALSE]
  BY DEF SessionInit
<1>2. "Voice" \in Modes /\ <<"ModeChanged", "Voice">> \in OutputEvents
  BY DEF Modes, OutputEvents
<1>3. outputQ \in Seq(OutputEvents)
  BY <1>1, <1>2
<1>4. SessionTypeOK
  <2>1. /\ <<>> \in Seq(AppCommands) /\ <<>> \in Seq(TranscriptCommands) /\ <<>> \in Seq(Statuses)
        /\ <<>> \in Seq((ActiveSpeakers \X TranscriptCommands) \cup ({"overlay"} \X OutputEvents))
    BY EmptySeq
  <2>2. /\ transcriptQ \in [ActiveSpeakers -> Seq(TranscriptCommands)]
        /\ statusQ \in [ActiveSpeakers -> Seq(Statuses)]
    BY <1>1, <2>1
  <2>4. /\ worker \in [ActiveSpeakers -> [paused : BOOLEAN, mode : Modes]]
        /\ link \in [ActiveSpeakers -> {"connecting", "connected", "waiting"}]
    BY <1>1, <1>2
  <2>3. overlay \in [paused : BOOLEAN, mode : Modes, stopping : BOOLEAN, exited : BOOLEAN]
    BY <1>1, <1>2
  <2> QED
    <3>1. /\ presses \in 0..MaxPresses /\ statuses \in 0..MaxStatuses
          /\ phase \in {"loop", "stopping", "over"} /\ mode \in Modes
      BY <1>1, <1>2
    <3>2. pauseAsked \in BOOLEAN
      BY Zenon, <1>1
    <3> QED
      BY <1>1, <1>3, <2>1, <2>2, <2>3, <2>4, <3>1, <3>2 DEF SessionTypeOK
<1>5. OnceEach
  BY <1>1 DEF OnceEach
<1>6. \A s \in ActiveSpeakers :
        /\ Told(todo, pauseAsked, s, "SetPaused", transcriptQ[s], worker[s].paused)
        /\ Told(todo, mode, s, "SetMode", transcriptQ[s], worker[s].mode)
  <2>1. DOMAIN todo = {}
    BY <1>1
  <2>2. \A s \in ActiveSpeakers :
          /\ transcriptQ[s] = <<>> /\ worker[s].paused = pauseAsked
          /\ worker[s].mode = mode
    BY <1>1
  <2>3. DOMAIN <<>> = {}
    OBVIOUS
  <2> QED
    BY <2>1, <2>2, <2>3 DEF Told
<1>7. Told(todo, mode, "overlay", "ModeChanged", outputQ, overlay.mode)
  <2>1. /\ DOMAIN todo = {} /\ DOMAIN outputQ = {1} /\ Len(outputQ) = 1
        /\ outputQ[1] = <<"ModeChanged", mode>>
    BY <1>1
  <2>2. \A j \in (1 + 1)..Len(outputQ) : outputQ[j][1] # "ModeChanged"
    BY <2>1
  <2> QED
    BY <2>1, <2>2 DEF Told
<1>8. Reached(todo, phase, mode, pauseAsked, transcriptQ, worker, outputQ, overlay)
  BY <1>6, <1>7 DEF Reached
<1> QED
  BY <1>4, <1>5, <1>8, ReachedIs DEF SessionInv

LEMMA StepSessionInv ==
  ASSUME MaxPresses \in Nat, MaxStatuses \in Nat, SessionInv, [SessionNext]_sessionVars
  PROVE  SessionInv'
<1>1. ASSUME UNCHANGED sessionVars
      PROVE  SessionInv'
  <2>1. UNCHANGED <<presses, commandQ, phase, todo, mode, pauseAsked, transcriptQ, worker, link,
                    statuses, statusQ, outputQ, overlay>>
    BY <1>1 DEF sessionVars, application, recognisers
  <2>2. SessionTypeOK'
    BY <2>1 DEF SessionInv, SessionTypeOK
  <2> QED
    BY <2>1, <2>2, SessionRests DEF SessionInv
<1>2. CASE PressPause \/ PressMode \/ PressClose
  BY <1>2, ControlStep
<1>3. CASE Show \/ TakeCommand \/ Forward
  BY <1>3, ShowStep, TakeCommandStep, ForwardStep
<1>4. CASE LoopEnds \/ PipelineStops \/ PipelineFails
  BY <1>4, StopStep
<1>5. ASSUME NEW s \in ActiveSpeakers, Obey(s) \/ ForwardStatus(s)
      PROVE  SessionInv'
  BY <1>5, ObeyStep, ForwardStatusStep
<1>6. ASSUME NEW s \in ActiveSpeakers,
             Connecting(s) \/ Connected(s) \/ Disconnected(s)
      PROVE  SessionInv'
  BY <1>6, ReportStep
<1>7. CASE Ended
  BY <1>1, <1>7 DEF Ended
<1> QED
  BY <1>1, <1>2, <1>3, <1>4, <1>5, <1>6, <1>7 DEF SessionNext

LEMMA SessionInvariance == SessionSpec => []SessionInv
<1>1. SessionInit => SessionInv
  BY MaxAssumption, InitSessionInv
<1>2. SessionInv /\ [SessionNext]_sessionVars => SessionInv'
  BY MaxAssumption, StepSessionInv
<1> QED
  BY <1>1, <1>2, PTL DEF SessionSpec

\* The type invariant of the session: what is on each channel is what its receiver
\* handles, however many controls are pressed and statuses arrive.
THEOREM SessionTypeCorrect == SessionSpec => []SessionTypeOK
<1>1. SessionInv => SessionTypeOK
  BY DEF SessionInv
<1> QED
  BY <1>1, SessionInvariance, PTL

\* While the application runs, the commands still to be sent and those on their way
\* bring both workers and the overlay to what the last of them wants (app/mod.rs,
\* forward_transcript_command), whatever is pressed and reported meanwhile.
THEOREM EveryoneIsReached == SessionSpec => []CommandsReachEveryone
<1>1. SessionInv => CommandsReachEveryone
  BY DEF SessionInv
<1> QED
  BY <1>1, SessionInvariance, PTL
=============================================================================
