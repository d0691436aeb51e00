------------------------ MODULE ConversationsProofs ------------------------
(***************************************************************************)
(* What one user and the bot are in the middle of, for any number of       *)
(* concurrent updates, messages, drafts and revisions: the user is in one  *)
(* flow at most, and a draft or a question takes effect once.              *)
(***************************************************************************)
EXTENDS Conversations, FiniteSetTheorems, SequenceTheorems, TLAPS

Parameters ==
  /\ MaxMessages \in Nat /\ MaxRepeats \in Nat /\ MaxRevision \in Nat

\* What a handler may have read.
Saws == {Null} \union Draft \union Question \union Voice

TaskState ==
  [pc : Steps, start : {"free", "text", "fresh", "queued", "clearing"},
   message : 0..received, context : 0..received, saw : Saws, left : Nat, goal : Goals]

\* A handler in the middle of a flow holds a row of that flow.
Fitting(k, drafts, questions, voices) ==
  /\ k.context \in {0, k.message}
  /\ k.pc \in {"editing", "applying", "applied"} => k.saw \in drafts
  /\ k.pc = "answering" => k.saw \in questions
  /\ k.pc \in {"showing", "binding"} => k.saw \in voices

Types ==
  /\ TypeOK
  /\ task \in [Tasks -> TaskState] /\ \A t \in Tasks : Fitting(task[t], Draft, Question, Voice)
  /\ IsFiniteSet(previews)

-----------------------------------------------------------------------------
(* Types                                                                    *)

LEMMA InitTypes ==
  ASSUME Parameters, Init
  PROVE  Types
<1>1. Free \in TaskState /\ Fitting(Free, Draft, Question, Voice)
  BY DEF Free, TaskState, Fitting, Steps, Goals, Saws, Init
<1>2. /\ revision = 0 /\ draft = Null /\ question = Null /\ voice = Null
      /\ previews = {} /\ task = [t \in Tasks |-> Free] /\ received = 0
      /\ used = <<>> /\ mixed = FALSE /\ repeated = 0
  BY DEF Init
<1>3. \A t \in Tasks : task[t] = Free
  BY <1>2
<1>4. IsFiniteSet(previews)
  BY <1>2, FS_EmptySet
<1>5. \A t \in Tasks : /\ task[t].pc \in Steps /\ task[t].message \in 0..received
                       /\ task[t].context \in {0, task[t].message}
                       /\ task[t].left \in Nat /\ task[t].goal \in Goals
  BY <1>2, <1>3 DEF Free, Steps, Goals
<1>6. used \in Seq(Nat) /\ 0 \in 0..MaxRevision /\ 0 \in 0..MaxMessages /\ 0 \in 0..MaxRepeats
  BY <1>2 DEF Parameters
<1>8. TypeOK
  BY <1>2, <1>5, <1>6 DEF TypeOK
<1>7. QED
  BY <1>1, <1>2, <1>3, <1>4, <1>8 DEF Types

\* Messages and flows are only added: what was a message or a number remains one.
Grows ==
  /\ used' \in Seq(Nat) /\ Len(used) <= Len(used')
  /\ received' \in 0..MaxMessages /\ received <= received'

LEMMA RowsGrow ==
  ASSUME Parameters, Types, Grows
  PROVE  /\ Numbers \subseteq Numbers' /\ 0..received \subseteq 0..received'
         /\ Draft \subseteq Draft' /\ Question \subseteq Question' /\ Voice \subseteq Voice'
         /\ TaskState \subseteq TaskState'
         /\ \A k : Fitting(k, Draft, Question, Voice) => Fitting(k, Draft', Question', Voice')
<1>1. /\ used \in Seq(Nat) /\ Len(used) \in Nat /\ Len(used') \in Nat
      /\ received \in Nat /\ received' \in Nat
  BY DEF Types, TypeOK, Grows, Parameters
<1>2. Numbers \subseteq Numbers' /\ 0..received \subseteq 0..received'
  BY <1>1 DEF Grows, Numbers
<1>3. Draft \subseteq Draft'
  BY <1>2 DEF Draft
<1>4. Question \subseteq Question'
  BY <1>2 DEF Question
<1>5. Voice \subseteq Voice'
  BY <1>2 DEF Voice
<1>6. Saws \subseteq Saws'
  BY <1>3, <1>4, <1>5 DEF Saws
<1>7. TaskState \subseteq TaskState'
  BY <1>2, <1>6 DEF TaskState
<1>8. \A k : Fitting(k, Draft, Question, Voice) => Fitting(k, Draft', Question', Voice')
  BY <1>3, <1>4, <1>5 DEF Fitting
<1>9. QED
  BY <1>2, <1>3, <1>4, <1>5, <1>7, <1>8

\* What is left to show of a step: what each variable becomes.
LEMMA TypesOfStep ==
  ASSUME Parameters, Types, Grows,
         revision' \in 0..MaxRevision, repeated' \in 0..MaxRepeats, mixed' \in BOOLEAN,
         draft' = Null \/ draft' \in Draft',
         question' = Null \/ question' \in Question',
         voice' = Null \/ voice' \in Voice',
         IsFiniteSet(previews'),
         \A p \in previews' \ previews : p.draft \in Numbers' /\ p.message \in Nat,
         \/ task' = task
         \/ \E t \in Tasks, k \in TaskState' : Fitting(k, Draft', Question', Voice') /\ task' = [task EXCEPT ![t] = k]
  PROVE  Types'
<1>1. task' \in [Tasks -> TaskState'] /\ \A t \in Tasks : Fitting(task'[t], Draft', Question', Voice')
  <2>1. /\ task \in [Tasks -> TaskState'] /\ \A t \in Tasks : Fitting(task[t], Draft', Question', Voice')
    BY RowsGrow DEF Types
  <2>2. CASE task' = task
    BY <2>1, <2>2
  <2>3. CASE task' # task
    <3>1. PICK t \in Tasks, k \in TaskState' : Fitting(k, Draft', Question', Voice') /\ task' = [task EXCEPT ![t] = k]
      BY <2>3
    <3>2. task' \in [Tasks -> TaskState']
      BY <2>1, <3>1
    <3>3. \A u \in Tasks : task'[u] = IF u = t THEN k ELSE task[u]
      BY <2>1, <3>1
    <3>4. QED
      BY <2>1, <3>1, <3>2, <3>3
  <2>4. QED
    BY <2>2, <2>3
<1>2. \A t \in Tasks : /\ task'[t].pc \in Steps /\ task'[t].message \in 0..received'
                       /\ task'[t].context \in {0, task'[t].message}
                       /\ task'[t].left \in Nat /\ task'[t].goal \in Goals
  BY <1>1 DEF TaskState, Fitting
<1>3. \A p \in previews' : p.draft \in Numbers' /\ p.message \in Nat
  BY RowsGrow DEF Types, TypeOK
<1>4. TypeOK'
  BY <1>2, <1>3 DEF TypeOK, Grows
<1>5. QED
  BY <1>1, <1>4 DEF Types

\* used, once a flow has taken effect or another has begun.
LEMMA UsedShape ==
  ASSUME Types, NEW n \in Numbers
  PROVE  /\ Use(n) \in Seq(Nat) /\ Len(Use(n)) = Len(used) /\ Use(n)[n] = used[n] + 1
         /\ \A m \in Numbers : m # n => Use(n)[m] = used[m]
<1>1. used \in Seq(Nat) /\ n \in 1..Len(used) /\ used[n] \in Nat /\ used[n] + 1 \in Nat
  BY DEF Types, TypeOK, Numbers
<1>2. Use(n) = [used EXCEPT ![n] = used[n] + 1]
  BY DEF Use
<1>3. QED
  BY <1>1, <1>2, ExceptSeq DEF Numbers

LEMMA Lengthened ==
  ASSUME NEW s \in Seq(Nat)
  PROVE  /\ Append(s, 0) \in Seq(Nat) /\ Len(Append(s, 0)) = Len(s) + 1
         /\ Append(s, 0)[Len(s) + 1] = 0
         /\ \A m \in 1..Len(s) : Append(s, 0)[m] = s[m]
  BY AppendProperties

\* The numbers of the rows that are open, and of the rows handlers read.
LEMMA RowNumbers ==
  ASSUME Types
  PROVE  /\ draft # Null => draft \in Draft /\ draft.number \in Numbers
         /\ question # Null => question \in Question /\ question.number \in Numbers
         /\ voice # Null => voice \in Voice /\ voice.number \in Numbers
         /\ \A t \in Tasks : task[t].pc = "applying" => task[t].saw.number \in Numbers
         /\ used \in Seq(Nat) /\ Numbers = 1..Len(used) /\ Len(used) \in Nat
         /\ \A n \in Numbers : used[n] \in Nat
<1>1. /\ draft # Null => draft \in Draft
      /\ question # Null => question \in Question
      /\ voice # Null => voice \in Voice
      /\ \A t \in Tasks : task[t].pc = "applying" => task[t].saw \in Draft
  BY DEF Types, TypeOK, Fitting
<1>2. used \in Seq(Nat) /\ Numbers = 1..Len(used) /\ Len(used) \in Nat /\ \A n \in Numbers : used[n] \in Nat
  BY DEF Types, TypeOK, Numbers
<1>3. QED
  BY <1>1, <1>2 DEF Draft, Question, Voice

\* How a step changes the counts of the flows.
UsedStep ==
  \/ used' = used \/ used' = Append(used, 0)
  \/ \E n \in Numbers : used' = Use(n) \/ used' = Append(Use(n), 0)

LEMMA UsedSteps ==
  ASSUME Types, [Next]_vars
  PROVE  UsedStep
<1>1. CASE CreateActionDraft \/ ReminderChanges \/ Expire \/ Discard \/ UNCHANGED vars
  BY <1>1 DEF CreateActionDraft, ReminderChanges, Expire, Discard, vars, UsedStep
<1>2. ASSUME NEW p \in previews, Confirm(p) \/ Correct(p) PROVE UsedStep
  BY <1>2, RowNumbers DEF Confirm, Correct, Shows, UsedStep
<1>3. ASSUME NEW t \in Tasks, TaskStep(t) PROVE UsedStep
  <2>1. CASE Apply(t)
    BY <2>1, RowNumbers DEF Apply, UsedStep
  <2>2. CASE Consume(t) \/ ConsumeToVoice(t)
    BY <2>2, RowNumbers DEF Consume, ConsumeToVoice, IsSeen, UsedStep
  <2>3. CASE Parse(t) \/ Hear(t)
    BY <2>3 DEF Parse, Hear, CreateVoiceDraft, Ask, UsedStep
  <2>4. CASE ~(Apply(t) \/ Consume(t) \/ ConsumeToVoice(t) \/ Parse(t) \/ Hear(t))
    BY <1>3, <2>4 DEF TaskStep, Receive, Crash, ReadDraft, UpdateDraft, DeleteDraft, ReadQuestion,
                      Clear, Create, Acquire, ShowPreview, Bind, UsedStep
  <2>5. QED
    BY <2>1, <2>2, <2>3, <2>4
<1>4. QED
  BY <1>1, <1>2, <1>3 DEF Next

LEMMA StepGrows ==
  ASSUME Parameters, Types, [Next]_vars
  PROVE  Grows
<1>1. used' \in Seq(Nat) /\ Len(used) <= Len(used')
  <2>1. used \in Seq(Nat) /\ Len(used) \in Nat
    BY RowNumbers
  <2>2. CASE used' = used \/ used' = Append(used, 0)
    BY <2>1, <2>2, Lengthened
  <2>3. ASSUME NEW n \in Numbers, used' = Use(n) \/ used' = Append(Use(n), 0)
        PROVE  used' \in Seq(Nat) /\ Len(used) <= Len(used')
    BY <2>1, <2>3, UsedShape, Lengthened
  <2>4. QED
    BY <2>2, <2>3, UsedSteps DEF UsedStep
<1>2. received' = received \/ (received < MaxMessages /\ received' = received + 1)
  BY DEF Next, TaskStep, CreateActionDraft, ReminderChanges, Expire, Discard, vars, Confirm, Correct,
         Receive, Crash, ReadDraft, UpdateDraft, Apply, DeleteDraft, ReadQuestion, Consume,
         ConsumeToVoice, Parse, Clear, Create, Acquire, Hear, ShowPreview, Bind
<1>3. received \in 0..MaxMessages
  BY DEF Types, TypeOK
<1>4. QED
  BY <1>1, <1>2, <1>3 DEF Grows, Parameters

LEMMA NewNumber ==
  ASSUME Types,
         used' = Append(used, 0) \/ \E n \in Numbers : used' = Append(Use(n), 0)
  PROVE  Next1 \in Numbers' /\ Next1 \notin Numbers
<1>1. used \in Seq(Nat) /\ Len(used) \in Nat
  BY RowNumbers
<1>2. Len(used') = Len(used) + 1
  BY <1>1, UsedShape, Lengthened
<1>3. QED
  BY <1>1, <1>2 DEF Next1, Numbers

LEMMA AskTypes ==
  ASSUME Parameters, Types, Grows,
         NEW origin \in {"text", "voice"}, NEW raw \in 0..received,
         NEW context \in 0..received, NEW source \in 0..received,
         Ask(origin, raw, context, source)
  PROVE  draft' = Null /\ question' \in Question' /\ voice' = Null /\ question'.number = Next1
<1>1. Next1 \in Numbers' /\ Numbers \subseteq Numbers' /\ 0..received \subseteq 0..received'
  BY NewNumber, RowsGrow DEF Ask
<1>2. question # Null => question.id \in Numbers
  BY RowNumbers DEF Question
<1> DEFINE id == IF question = Null THEN Next1 ELSE question.id
<1>3. id \in Numbers'
  BY <1>1, <1>2
<1>4. /\ question' = [number |-> Next1, origin |-> origin, raw |-> raw, context |-> context,
                      id |-> id, source |-> source, expired |-> FALSE]
      /\ draft' = Null /\ voice' = Null
  BY DEF Ask
<1> HIDE DEF id
<1>5. question' \in Question'
  BY <1>1, <1>3, <1>4 DEF Question
<1>6. QED
  BY <1>4, <1>5

LEMMA NewVoiceTypes ==
  ASSUME Types, Grows, Next1 \in Numbers', NEW source \in 0..received'
  PROVE  NewVoice(source) \in Voice' /\ NewVoice(source).number = Next1
BY DEF NewVoice, Voice

\* A row keeps its number while its other fields change.
LEMMA ChangedRows ==
  ASSUME Types
  PROVE  /\ draft # Null =>
              /\ [draft EXCEPT !.expired = TRUE] \in Draft /\ [draft EXCEPT !.step = "last"] \in Draft
              /\ [draft EXCEPT !.expired = TRUE].number = draft.number
              /\ [draft EXCEPT !.expired = TRUE].revision = draft.revision
              /\ [draft EXCEPT !.step = "last"].number = draft.number
              /\ [draft EXCEPT !.step = "last"].revision = draft.revision
         /\ question # Null =>
              /\ [question EXCEPT !.expired = TRUE] \in Question
              /\ [question EXCEPT !.expired = TRUE].number = question.number
         /\ voice # Null =>
              /\ [voice EXCEPT !.expired = TRUE] \in Voice
              /\ [voice EXCEPT !.expired = TRUE].number = voice.number
              /\ \A n \in Nat : /\ [voice EXCEPT !.preview = n] \in Voice
                                /\ [voice EXCEPT !.preview = n].number = voice.number
<1>1. draft # Null => draft \in Draft
  BY RowNumbers
<1>2. question # Null => question \in Question
  BY RowNumbers
<1>3. voice # Null => voice \in Voice
  BY RowNumbers
<1>4. ASSUME draft # Null
      PROVE  /\ [draft EXCEPT !.expired = TRUE] \in Draft /\ [draft EXCEPT !.step = "last"] \in Draft
             /\ [draft EXCEPT !.expired = TRUE].number = draft.number
             /\ [draft EXCEPT !.expired = TRUE].revision = draft.revision
             /\ [draft EXCEPT !.step = "last"].number = draft.number
             /\ [draft EXCEPT !.step = "last"].revision = draft.revision
  BY <1>1, <1>4 DEF Draft
<1>5. ASSUME question # Null
      PROVE  /\ [question EXCEPT !.expired = TRUE] \in Question
             /\ [question EXCEPT !.expired = TRUE].number = question.number
  BY <1>2, <1>5 DEF Question
<1>6. ASSUME voice # Null
      PROVE  /\ [voice EXCEPT !.expired = TRUE] \in Voice
             /\ [voice EXCEPT !.expired = TRUE].number = voice.number
             /\ \A n \in Nat : /\ [voice EXCEPT !.preview = n] \in Voice
                               /\ [voice EXCEPT !.preview = n].number = voice.number
  BY <1>3, <1>6 DEF Voice
<1>7. QED
  BY <1>4, <1>5, <1>6

-----------------------------------------------------------------------------
(* What a step does to the flows                                            *)

DraftKept ==
  \/ draft' = Null
  \/ /\ draft # Null /\ draft' \in Draft
     /\ draft'.number = draft.number /\ draft'.revision = draft.revision
QuestionKept ==
  question' = Null \/ (question # Null /\ question' \in Question /\ question'.number = question.number)
VoiceKept ==
  voice' = Null \/ (voice # Null /\ voice' \in Voice /\ voice'.number = voice.number)

\* No flow begins or takes effect.
Kept ==
  /\ DraftKept /\ QuestionKept /\ VoiceKept
  /\ used' = used /\ revision' \in {revision, revision + 1}

Asked ==
  /\ \E origin \in {"text", "voice"}, raw \in 0..received, context \in 0..received,
        source \in 0..received : Ask(origin, raw, context, source)
  /\ revision' = revision

Voiced ==
  /\ \E source \in 0..received : voice' = NewVoice(source)
  /\ draft' = Null /\ question' = Null /\ revision' = revision
  /\ \/ used' = Append(used, 0)
     \/ question # Null /\ used' = Append(Use(question.number), 0)

Consumed ==
  /\ question # Null /\ used' = Use(question.number) /\ question' = Null
  /\ draft' = draft /\ voice' = voice /\ revision' = revision

Confirmed ==
  /\ voice # Null /\ used' = Use(voice.number) /\ voice' = Null
  /\ draft' = draft /\ question' = question /\ revision' = revision

Corrected ==
  /\ voice # Null /\ used' = Append(Use(voice.number), 0) /\ voice' = Null /\ draft' = Null
  /\ question' = [number |-> Next1, origin |-> "voice", raw |-> voice.source,
                  id |-> IF question = Null THEN Next1 ELSE question.id,
                  context |-> 0, source |-> voice.source, expired |-> FALSE]
  /\ revision' = revision

Applied(t) ==
  /\ task[t].pc = "applying" /\ task[t].saw.revision = revision
  /\ used' = Use(task[t].saw.number) /\ revision' = revision + 1
  /\ draft' = draft /\ question' = question /\ voice' = voice
  /\ task'[t].pc = "applied" /\ \A u \in Tasks : u # t => task'[u] = task[u]

LEMMA KeptFlows ==
  ASSUME Types, UNCHANGED <<flows, used>>, revision' \in {revision, revision + 1}
  PROVE  Kept
BY RowNumbers DEF Kept, DraftKept, QuestionKept, VoiceKept, flows

LEMMA KeptSteps ==
  ASSUME Types, NEW t \in Tasks,
         Receive(t) \/ Crash(t) \/ ReadDraft(t) \/ UpdateDraft(t) \/ DeleteDraft(t)
           \/ ReadQuestion(t) \/ Clear(t) \/ Create(t) \/ Acquire(t) \/ ShowPreview(t) \/ Bind(t)
  PROVE  Kept
<1>1. used' = used /\ revision' = revision
  BY DEF Receive, Crash, ReadDraft, UpdateDraft, DeleteDraft, ReadQuestion, Clear, Create, Acquire,
         ShowPreview, Bind
<1>2. \/ draft' \in {Null, draft}
      \/ draft # Null /\ draft' = [draft EXCEPT !.step = "last"]
  BY DEF flows, Receive, Crash, ReadDraft, UpdateDraft, DeleteDraft, ReadQuestion, Clear, Create,
         Acquire, ShowPreview, Bind
<1>3. question' \in {Null, question}
  BY DEF flows, Receive, Crash, ReadDraft, UpdateDraft, DeleteDraft, ReadQuestion, Clear, Create,
         Acquire, ShowPreview, Bind
<1>4. \/ voice' \in {Null, voice}
      \/ voice # Null /\ \E n \in Nat : voice' = [voice EXCEPT !.preview = n]
  <2>1. CASE Bind(t)
    <3>1. task[t].left \in Nat
      BY DEF Types, TypeOK
    <3>2. QED
      BY <2>1, <3>1 DEF Bind, Live
  <2>2. CASE ~Bind(t)
    BY <2>2 DEF flows, Receive, Crash, ReadDraft, UpdateDraft, DeleteDraft, ReadQuestion, Clear,
                Create, Acquire, ShowPreview
  <2>3. QED
    BY <2>1, <2>2
<1>5. DraftKept
  BY <1>2, ChangedRows, RowNumbers DEF DraftKept
<1>6. QuestionKept
  BY <1>3, RowNumbers DEF QuestionKept
<1>7. VoiceKept
  BY <1>4, ChangedRows, RowNumbers DEF VoiceKept
<1>8. QED
  BY <1>1, <1>5, <1>6, <1>7 DEF Kept

LEMMA StepEffects ==
  ASSUME Parameters, Types, [Next]_vars
  PROVE  \/ Kept \/ CreateActionDraft \/ Asked \/ Voiced \/ Consumed \/ Confirmed \/ Corrected
         \/ \E t \in Tasks : Applied(t)
<1>1. CASE UNCHANGED vars \/ ReminderChanges
  BY <1>1, KeptFlows DEF vars, flows, ReminderChanges
<1>2. CASE Expire
  BY <1>2, ChangedRows, RowNumbers DEF Expire, Kept, DraftKept, QuestionKept, VoiceKept
<1>3. CASE Discard
  BY <1>3, RowNumbers DEF Discard, Kept, DraftKept, QuestionKept, VoiceKept
<1>4. ASSUME NEW p \in previews, Confirm(p)
      PROVE  Kept \/ Confirmed
  <2>1. CASE voice.expired
    BY <1>4, <2>1, RowNumbers DEF Confirm, Kept, DraftKept, QuestionKept, VoiceKept
  <2>2. CASE ~voice.expired
    BY <1>4, <2>2 DEF Confirm, Shows, Confirmed
  <2>3. QED
    BY <2>1, <2>2
<1>5. ASSUME NEW p \in previews, Correct(p)
      PROVE  Kept \/ Corrected
  <2>1. CASE voice.expired
    BY <1>5, <2>1, RowNumbers DEF Correct, Kept, DraftKept, QuestionKept, VoiceKept
  <2>2. CASE ~voice.expired
    BY <1>5, <2>2 DEF Correct, Shows, Corrected
  <2>3. QED
    BY <2>1, <2>2
<1>6. ASSUME NEW t \in Tasks, Apply(t)
      PROVE  Kept \/ Applied(t)
  <2>1. CASE UNCHANGED <<revision, used>>
    BY <1>6, <2>1, KeptFlows DEF Apply
  <2>2. CASE ~UNCHANGED <<revision, used>>
    <3>1. task' = [task EXCEPT ![t].pc = "applied"]
      BY <1>6, <2>2 DEF Apply, Go
    <3>2. task \in [Tasks -> TaskState] /\ task[t] \in TaskState
      BY DEF Types
    <3>3. task'[t].pc = "applied" /\ \A u \in Tasks : u # t => task'[u] = task[u]
      BY <3>1, <3>2 DEF TaskState
    <3>4. QED
      BY <1>6, <2>2, <3>3 DEF Apply, Fits, Applied, flows
  <2>3. QED
    BY <2>1, <2>2
<1>7. ASSUME NEW t \in Tasks, Consume(t)
      PROVE  Kept \/ Consumed
  BY <1>7, RowNumbers DEF Consume, IsSeen, Consumed, Kept, DraftKept, QuestionKept, VoiceKept
<1>8. ASSUME NEW t \in Tasks, ConsumeToVoice(t)
      PROVE  Kept \/ Voiced
  <2>1. CASE UNCHANGED <<flows, used>>
    BY <1>8, <2>1, KeptFlows DEF ConsumeToVoice
  <2>2. CASE ~UNCHANGED <<flows, used>>
    BY <1>8, <2>2, RowNumbers DEF ConsumeToVoice, IsSeen, Voiced, Question
  <2>3. QED
    BY <2>1, <2>2
<1>9. ASSUME NEW t \in Tasks, Parse(t)
      PROVE  Kept \/ Asked
  <2>1. task[t].message \in 0..received /\ task[t].context \in 0..received /\ 0 \in 0..received
    BY DEF Types, TypeOK, Parameters
  <2>2. CASE UNCHANGED <<flows, used>>
    BY <1>9, <2>2, KeptFlows DEF Parse
  <2>3. CASE ~UNCHANGED <<flows, used>>
    BY <1>9, <2>1, <2>3 DEF Parse, Asked, This
  <2>4. QED
    BY <2>2, <2>3
<1>10. ASSUME NEW t \in Tasks, Hear(t)
       PROVE  Kept \/ Asked \/ Voiced
  <2>1. task[t].message \in 0..received /\ 0 \in 0..received
    BY DEF Types, TypeOK, Parameters
  <2>2. CASE UNCHANGED <<flows, used>>
    BY <1>10, <2>2, KeptFlows DEF Hear
  <2>3. CASE Ask("voice", task[t].message, 0, task[t].message)
    BY <1>10, <2>1, <2>3 DEF Hear, Asked
  <2>4. CASE CreateVoiceDraft(t)
    BY <1>10, <2>1, <2>4, RowNumbers
       DEF Hear, CreateVoiceDraft, Voiced, Kept, DraftKept, QuestionKept, VoiceKept
  <2>5. QED
    BY <1>10, <2>2, <2>3, <2>4 DEF Hear
<1>11. QED
  BY <1>1, <1>2, <1>3, <1>4, <1>5, <1>6, <1>7, <1>8, <1>9, <1>10, KeptSteps DEF Next, TaskStep

\* The rows are of their types after every step.
LEMMA RowTypes ==
  ASSUME Parameters, Types, [Next]_vars
  PROVE  /\ draft' = Null \/ draft' \in Draft'
         /\ question' = Null \/ question' \in Question'
         /\ voice' = Null \/ voice' \in Voice'
         /\ revision \in 0..MaxRevision
<1>1. Grows
  BY StepGrows
<1>2. Draft \subseteq Draft' /\ Question \subseteq Question' /\ Voice \subseteq Voice'
  BY <1>1, RowsGrow
<1>3. /\ draft = Null \/ draft \in Draft
      /\ question = Null \/ question \in Question
      /\ voice = Null \/ voice \in Voice
      /\ revision \in 0..MaxRevision
  BY DEF Types, TypeOK
<1>4. CASE Kept \/ Consumed \/ Confirmed \/ \E t \in Tasks : Applied(t)
  BY <1>2, <1>3, <1>4 DEF Kept, DraftKept, QuestionKept, VoiceKept, Consumed, Confirmed, Applied
<1>5. CASE CreateActionDraft
  <2>1. Next1 \in Numbers'
    BY <1>5, NewNumber DEF CreateActionDraft
  <2>2. draft' \in Draft'
    BY <1>3, <1>5, <2>1 DEF CreateActionDraft, Draft, Kinds
  <2>3. QED
    BY <1>3, <1>5, <2>2 DEF CreateActionDraft
<1>6. CASE Asked
  BY <1>1, <1>3, <1>6, AskTypes DEF Asked
<1>7. CASE Voiced
  <2>1. Next1 \in Numbers'
    BY <1>7, NewNumber, RowNumbers DEF Voiced
  <2>2. voice' \in Voice'
    BY <1>1, <1>7, <2>1, NewVoiceTypes, RowsGrow DEF Voiced
  <2>3. QED
    BY <1>3, <1>7, <2>2 DEF Voiced
<1>8. CASE Corrected
  <2>1. Next1 \in Numbers' /\ Numbers \subseteq Numbers' /\ 0..received \subseteq 0..received'
    BY <1>1, <1>8, NewNumber, RowNumbers, RowsGrow DEF Corrected
  <2>2. voice.source \in 0..received /\ 0 \in 0..received
    BY <1>3, <1>8 DEF Corrected, Voice, Types, TypeOK, Parameters
  <2> DEFINE id == IF question = Null THEN Next1 ELSE question.id
  <2>3. id \in Numbers'
    BY <1>3, <2>1 DEF Question
  <2>4. question' = [number |-> Next1, origin |-> "voice", raw |-> voice.source, id |-> id,
                     context |-> 0, source |-> voice.source, expired |-> FALSE]
    BY <1>8 DEF Corrected
  <2> HIDE DEF id
  <2>5. question' \in Question'
    BY <2>1, <2>2, <2>3, <2>4 DEF Question
  <2>6. QED
    BY <1>3, <1>8, <2>5 DEF Corrected
<1>9. QED
  BY <1>4, <1>5, <1>6, <1>7, <1>8, StepEffects

\* What a handler becomes: free again, further on, or with what it read.
TaskMoves ==
  \/ task' = task
  \/ \E t \in Tasks, k \in TaskState' :
       Fitting(k, Draft', Question', Voice') /\ task' = [task EXCEPT ![t] = k]

LEMMA FreeMove ==
  ASSUME Parameters, Types, Grows, NEW t \in Tasks, Done(t)
  PROVE  TaskMoves
<1>1. Free \in TaskState' /\ Fitting(Free, Draft', Question', Voice')
  BY DEF Grows, Parameters, Free, TaskState, Fitting, Steps, Goals, Saws
<1>2. QED
  BY <1>1 DEF Done, Become, TaskMoves

LEMMA BeginMove ==
  ASSUME Parameters, Types, Grows, NEW t \in Tasks,
         NEW start \in {"free", "text", "fresh", "queued", "clearing"},
         NEW message \in 0..received', NEW context \in {0, message},
         Become(t, Begin(start, message, context))
  PROVE  TaskMoves
<1> DEFINE left == IF start = "clearing" THEN 3 ELSE 0
           goal == IF start = "clearing" THEN "nothing" ELSE Null
           k == [Free EXCEPT !.pc = start, !.start = start, !.message = message,
                             !.context = context, !.left = left, !.goal = goal]
<1>1. left \in Nat /\ goal \in Goals /\ start \in Steps /\ context \in 0..received'
  BY DEF Goals, Steps, Grows, Parameters
<1>2. task' = [task EXCEPT ![t] = k]
  BY DEF Become, Begin
<1> HIDE DEF left, goal
<1>3. Free \in TaskState'
  BY DEF Grows, Parameters, Free, TaskState, Steps, Goals, Saws
<1>4. /\ k \in TaskState'
      /\ k.pc = start /\ k.context = context /\ k.message = message
  BY <1>1, <1>3 DEF TaskState
<1>6. Fitting(k, Draft', Question', Voice')
  BY <1>4 DEF Fitting
<1> HIDE DEF k
<1>5. QED
  BY <1>2, <1>4, <1>6 DEF TaskMoves

\* A handler goes on with the row it holds, or with one it has just read.
LEMMA FurtherMove ==
  ASSUME Parameters, Types, Grows, NEW t \in Tasks, NEW k \in TaskState',
         k.context = task[t].context, k.message = task[t].message,
         k.pc \in {"editing", "applying", "applied"} => k.saw \in Draft',
         k.pc = "answering" => k.saw \in Question',
         k.pc \in {"showing", "binding"} => k.saw \in Voice',
         task' = [task EXCEPT ![t] = k]
  PROVE  TaskMoves
<1>1. Fitting(task[t], Draft, Question, Voice)
  BY DEF Types
<1>2. Fitting(k, Draft', Question', Voice')
  BY <1>1 DEF Fitting
<1>3. QED
  BY <1>2 DEF TaskMoves

\* A handler in the middle of a flow, at the beginning of a step.
LEMMA TaskNow ==
  ASSUME Parameters, Types, Grows, NEW t \in Tasks
  PROVE  /\ task \in [Tasks -> TaskState] /\ task[t] \in TaskState /\ task[t] \in TaskState'
         /\ task[t].context \in {0, task[t].message}
         /\ task[t].message \in 0..received /\ task[t].message \in 0..received'
         /\ task[t].pc \in {"editing", "applying", "applied"} => task[t].saw \in Draft'
         /\ task[t].pc \in {"showing", "binding"} => task[t].saw \in Voice'
         /\ draft # Null => draft \in Draft' /\ draft \in Saws'
         /\ question # Null => question \in Question' /\ question \in Saws'
<1>1. task \in [Tasks -> TaskState] /\ task[t] \in TaskState /\ Fitting(task[t], Draft, Question, Voice)
  BY DEF Types
<1>2. /\ task[t] \in TaskState' /\ Draft \subseteq Draft' /\ Question \subseteq Question'
      /\ Voice \subseteq Voice' /\ 0..received \subseteq 0..received'
  BY <1>1, RowsGrow
<1>3. task[t].message \in 0..received /\ task[t].context \in {0, task[t].message}
  BY <1>1 DEF TaskState, Fitting
<1>4. QED
  BY <1>1, <1>2, <1>3, RowNumbers DEF Fitting, Saws

LEMMA GoMove ==
  ASSUME Parameters, Types, Grows, NEW t \in Tasks,
         NEW pc \in {"asked", "fresh", "hearing", "applied"},
         pc = "applied" => task[t].pc = "applying",
         Go(t, pc)
  PROVE  TaskMoves
<1> DEFINE k == [task[t] EXCEPT !.pc = pc]
<1>1. task[t] \in TaskState' /\ task \in [Tasks -> TaskState]
  BY TaskNow
<1>2. /\ k \in TaskState' /\ k.context = task[t].context /\ k.message = task[t].message
      /\ k.pc = pc /\ k.saw = task[t].saw
  BY <1>1 DEF TaskState, Steps
<1>3. task' = [task EXCEPT ![t] = k]
  BY <1>1 DEF Go
<1>4. pc = "applied" => k.saw \in Draft'
  BY <1>2, TaskNow
<1> HIDE DEF k
<1>5. QED
  BY <1>2, <1>3, <1>4, FurtherMove

\* The voice draft a preview is about to be sent for.
LEMMA ShownVoice ==
  ASSUME Parameters, Types, Grows, NEW t \in Tasks, ~Done(t),
         ConsumeToVoice(t) \/ CreateVoiceDraft(t)
  PROVE  voice' \in Voice'
<1>1. 0..received \subseteq 0..received' /\ Voice \subseteq Voice'
  BY RowsGrow
<1>2. CASE ConsumeToVoice(t)
  <2>1. /\ question # Null /\ voice' = NewVoice(question.source)
        /\ used' = Append(Use(question.number), 0)
    BY <1>2 DEF ConsumeToVoice, IsSeen
  <2>2. Next1 \in Numbers' /\ question.source \in 0..received'
    BY <1>1, <2>1, NewNumber, RowNumbers DEF Question
  <2>3. QED
    BY <2>1, <2>2, NewVoiceTypes
<1>3. CASE CreateVoiceDraft(t)
  <2>1. CASE voice' = voice /\ voice # Null
    BY <1>1, <2>1, RowNumbers
  <2>2. CASE voice' = NewVoice(task[t].message) /\ used' = Append(used, 0)
    BY <2>2, NewNumber, NewVoiceTypes, TaskNow
  <2>3. QED
    BY <1>3, <2>1, <2>2 DEF CreateVoiceDraft
<1>4. QED
  BY <1>2, <1>3

LEMMA TaskSteps ==
  ASSUME Parameters, Types, Grows, NEW t \in Tasks, TaskStep(t)
  PROVE  TaskMoves
<1>1. CASE Receive(t)
  <2>1. received + 1 \in 0..received' /\ received' = received + 1
    BY <1>1 DEF Receive, Grows, Types, TypeOK, Parameters
  <2>2. QED
    BY <1>1, <2>1, BeginMove DEF Receive
<1>2. CASE Crash(t)
  <2>1. CASE Done(t)
    BY <2>1, FreeMove
  <2>2. CASE Become(t, Begin(task[t].start, task[t].message, task[t].context))
    <3>1. /\ task[t].start \in {"free", "text", "fresh", "queued", "clearing"}
          /\ task[t].message \in 0..received' /\ task[t].context \in {0, task[t].message}
      BY TaskNow DEF TaskState
    <3>2. QED
      BY <2>2, <3>1, BeginMove
  <2>3. QED
    BY <1>2, <2>1, <2>2 DEF Crash
<1>3. CASE ReadDraft(t)
  <2>1. CASE ~Live(draft)
    BY <1>3, <2>1, GoMove DEF ReadDraft
  <2>2. CASE Live(draft)
    <3> DEFINE pc == IF draft.step = "text" THEN "editing" ELSE "applying"
               k == [task[t] EXCEPT !.saw = draft, !.pc = pc]
    <3>1. pc \in Steps /\ pc \in {"editing", "applying"}
      BY DEF Steps
    <3>2. task' = [task EXCEPT ![t] = k]
      BY <1>3, <2>2 DEF ReadDraft, Become
    <3>3. task[t] \in TaskState' /\ draft \in Draft' /\ draft \in Saws'
      BY <2>2, TaskNow DEF Live
    <3> HIDE DEF pc
    <3>4. /\ k \in TaskState' /\ k.context = task[t].context /\ k.message = task[t].message
          /\ k.pc = pc /\ k.saw = draft
      BY <3>1, <3>3 DEF TaskState
    <3> HIDE DEF k
    <3>5. QED
      BY <3>1, <3>2, <3>3, <3>4, FurtherMove
  <2>3. QED
    BY <2>1, <2>2
<1>4. CASE ReadQuestion(t)
  <2>1. CASE ~Live(question)
    BY <1>4, <2>1, GoMove DEF ReadQuestion
  <2>2. CASE Live(question)
    <3> DEFINE k == [task[t] EXCEPT !.pc = "answering", !.saw = question]
    <3>2. task' = [task EXCEPT ![t] = k]
      BY <1>4, <2>2 DEF ReadQuestion, Become
    <3>3. task[t] \in TaskState' /\ question \in Question' /\ question \in Saws'
      BY <2>2, TaskNow DEF Live
    <3>4. /\ k \in TaskState' /\ k.context = task[t].context /\ k.message = task[t].message
          /\ k.pc = "answering" /\ k.saw = question
      BY <3>3 DEF TaskState, Steps
    <3> HIDE DEF k
    <3>5. QED
      BY <3>2, <3>3, <3>4, FurtherMove
  <2>3. QED
    BY <2>1, <2>2
<1>5. CASE Apply(t)
  BY <1>5, FreeMove, GoMove DEF Apply
<1>6. CASE ConsumeToVoice(t) \/ Hear(t)
  <2>1. CASE Done(t)
    BY <2>1, FreeMove
  <2>2. CASE ~Done(t)
    <3> DEFINE k == [task[t] EXCEPT !.pc = "showing", !.saw = voice']
    <3>1. task' = [task EXCEPT ![t] = k]
      BY <1>6, <2>2 DEF ConsumeToVoice, Hear, CreateVoiceDraft, Become
    <3>2. voice' \in Voice' /\ voice' \in Saws'
      BY <1>6, <2>2, ShownVoice DEF Hear, Saws
    <3>3. task[t] \in TaskState'
      BY TaskNow
    <3>4. /\ k \in TaskState' /\ k.context = task[t].context /\ k.message = task[t].message
          /\ k.pc = "showing" /\ k.saw = voice'
      BY <3>2, <3>3 DEF TaskState, Steps
    <3> HIDE DEF k
    <3>5. QED
      BY <3>1, <3>2, <3>4, FurtherMove
  <2>3. QED
    BY <2>1, <2>2
<1>7. CASE Parse(t)
  <2>1. CASE Done(t)
    BY <2>1, FreeMove
  <2>2. CASE ~Done(t)
    <3> DEFINE k == [task[t] EXCEPT !.pc = "clearing", !.left = 3, !.goal = "create"]
    <3>1. task' = [task EXCEPT ![t] = k]
      BY <1>7, <2>2 DEF Parse, Become
    <3>2. task[t] \in TaskState'
      BY TaskNow
    <3>3. /\ k \in TaskState' /\ k.context = task[t].context /\ k.message = task[t].message
          /\ k.pc = "clearing"
      BY <3>2 DEF TaskState, Steps, Goals
    <3> HIDE DEF k
    <3>4. QED
      BY <3>1, <3>3, FurtherMove
  <2>3. QED
    BY <2>1, <2>2
<1>8. CASE Clear(t)
  <2>1. task[t] \in TaskState' /\ task[t].left \in Nat
    BY TaskNow DEF TaskState
  <2>2. CASE Done(t)
    BY <2>2, FreeMove
  <2>3. CASE task[t].left > 1
    <3> DEFINE k == [task[t] EXCEPT !.left = @ - 1]
    <3>1. task' = [task EXCEPT ![t] = k]
      BY <1>8, <2>3 DEF Clear, Become
    <3>2. task[t].left - 1 \in Nat
      BY <2>1, <2>3
    <3>3. /\ k \in TaskState' /\ k.context = task[t].context /\ k.message = task[t].message
          /\ k.pc = "clearing"
      BY <1>8, <2>1, <3>2 DEF TaskState, Clear
    <3> HIDE DEF k
    <3>4. QED
      BY <3>1, <3>3, FurtherMove
  <2>4. CASE ~Done(t) /\ ~(task[t].left > 1)
    <3> DEFINE k == [task[t] EXCEPT !.left = 0, !.pc = "making"]
    <3>1. task' = [task EXCEPT ![t] = k]
      BY <1>8, <2>4 DEF Clear, Become
    <3>2. /\ k \in TaskState' /\ k.context = task[t].context /\ k.message = task[t].message
          /\ k.pc = "making"
      BY <2>1 DEF TaskState, Steps
    <3> HIDE DEF k
    <3>3. QED
      BY <3>1, <3>2, FurtherMove
  <2>5. QED
    BY <2>2, <2>3, <2>4
<1>9. CASE ShowPreview(t)
  <2>1. CASE Done(t)
    BY <2>1, FreeMove
  <2>2. CASE ~Done(t)
    <3> DEFINE k == [task[t] EXCEPT !.pc = "binding", !.left = Cardinality(previews) + 1]
    <3>1. task' = [task EXCEPT ![t] = k]
      BY <1>9, <2>2 DEF ShowPreview, Become
    <3>2. Cardinality(previews) + 1 \in Nat
      BY FS_CardinalityType DEF Types
    <3>3. task[t] \in TaskState' /\ task[t].saw \in Voice'
      BY <1>9, TaskNow DEF ShowPreview
    <3>4. /\ k \in TaskState' /\ k.context = task[t].context /\ k.message = task[t].message
          /\ k.pc = "binding" /\ k.saw = task[t].saw
      BY <3>2, <3>3 DEF TaskState, Steps
    <3> HIDE DEF k
    <3>5. QED
      BY <3>1, <3>3, <3>4, FurtherMove
  <2>3. QED
    BY <2>1, <2>2
<1>10. CASE Acquire(t)
  BY <1>10, FreeMove, GoMove DEF Acquire
<1>11. CASE UpdateDraft(t) \/ DeleteDraft(t) \/ Consume(t) \/ Create(t) \/ Bind(t)
  BY <1>11, FreeMove DEF UpdateDraft, DeleteDraft, Consume, Create, Bind
<1>12. QED
  BY <1>1, <1>2, <1>3, <1>4, <1>5, <1>6, <1>7, <1>8, <1>9, <1>10, <1>11 DEF TaskStep

LEMMA StepTypes ==
  ASSUME Parameters, Types, [Next]_vars
  PROVE  Types'
<1>1. Grows
  BY StepGrows
<1>2. /\ draft' = Null \/ draft' \in Draft'
      /\ question' = Null \/ question' \in Question'
      /\ voice' = Null \/ voice' \in Voice'
  BY RowTypes
<1>3. revision' \in 0..MaxRevision
  <2>1. revision' = revision \/ (revision < MaxRevision /\ revision' = revision + 1)
    BY DEF Next, TaskStep, CreateActionDraft, ReminderChanges, Expire, Discard, vars, Confirm, Correct,
           Receive, Crash, ReadDraft, UpdateDraft, Apply, DeleteDraft, ReadQuestion, Consume,
           ConsumeToVoice, Parse, Clear, Create, Acquire, Hear, ShowPreview, Bind
  <2>2. revision \in 0..MaxRevision
    BY DEF Types, TypeOK
  <2>3. QED
    BY <2>1, <2>2 DEF Parameters
<1>4. repeated' \in 0..MaxRepeats
  <2>1. repeated' = repeated \/ (repeated < MaxRepeats /\ repeated' = repeated + 1)
    BY DEF Next, TaskStep, CreateActionDraft, ReminderChanges, Expire, Discard, vars, Confirm, Correct,
           Receive, Crash, ReadDraft, UpdateDraft, Apply, DeleteDraft, ReadQuestion, Consume,
           ConsumeToVoice, Parse, Clear, Create, Acquire, Hear, ShowPreview, Bind
  <2>2. repeated \in 0..MaxRepeats
    BY DEF Types, TypeOK
  <2>3. QED
    BY <2>1, <2>2 DEF Parameters
<1>5. mixed' \in BOOLEAN
  <2>1. mixed \in BOOLEAN
    BY DEF Types, TypeOK
  <2>2. mixed' = mixed \/ \E text, context : mixed' = Mixed(text, context)
    BY DEF Next, TaskStep, CreateActionDraft, ReminderChanges, Expire, Discard, vars, Confirm, Correct,
           Receive, Crash, ReadDraft, UpdateDraft, Apply, DeleteDraft, ReadQuestion, Consume,
           ConsumeToVoice, Parse, Clear, Create, Acquire, Hear, ShowPreview, Bind
  <2>3. QED
    BY <2>1, <2>2 DEF Mixed
<1>6. /\ IsFiniteSet(previews')
      /\ \A p \in previews' \ previews : p.draft \in Numbers' /\ p.message \in Nat
  <2>1. IsFiniteSet(previews)
    BY DEF Types
  <2>2. \/ previews' = previews
        \/ \E t \in Tasks :
             /\ task[t].pc = "showing"
             /\ previews' = previews \union {[message |-> Cardinality(previews) + 1,
                                               draft |-> task[t].saw.number]}
    BY DEF Next, TaskStep, CreateActionDraft, ReminderChanges, Expire, Discard, vars, Confirm, Correct,
           Receive, Crash, ReadDraft, UpdateDraft, Apply, DeleteDraft, ReadQuestion, Consume,
           ConsumeToVoice, Parse, Clear, Create, Acquire, Hear, ShowPreview, Bind
  <2>3. CASE previews' = previews
    BY <2>1, <2>3
  <2>4. ASSUME NEW t \in Tasks, task[t].pc = "showing",
               previews' = previews \union {[message |-> Cardinality(previews) + 1,
                                             draft |-> task[t].saw.number]}
        PROVE  /\ IsFiniteSet(previews')
               /\ \A p \in previews' \ previews : p.draft \in Numbers' /\ p.message \in Nat
    <3>1. task[t].saw.number \in Numbers'
      BY <1>1, <2>4, TaskNow DEF Voice
    <3>2. Cardinality(previews) + 1 \in Nat
      BY <2>1, FS_CardinalityType
    <3>3. IsFiniteSet(previews')
      BY <2>1, <2>4, FS_AddElement
    <3>4. QED
      BY <2>4, <3>1, <3>2, <3>3
  <2>5. QED
    BY <2>2, <2>3, <2>4
<1>7. TaskMoves
  <2>1. ASSUME NEW t \in Tasks, TaskStep(t) PROVE TaskMoves
    BY <1>1, <1>2, <2>1, TaskSteps
  <2>2. CASE ~\E t \in Tasks : TaskStep(t)
    BY <2>2 DEF Next, vars, CreateActionDraft, ReminderChanges, Expire, Discard, Confirm, Correct, TaskMoves
  <2>3. QED
    BY <2>1, <2>2
<1>8. QED
  BY <1>1, <1>2, <1>3, <1>4, <1>5, <1>6, <1>7, TypesOfStep DEF TaskMoves

\* The types of Conversations hold for any number of updates, messages, drafts
\* and revisions, and whatever a handler read is a row of the flow it is in.
THEOREM TypeCorrect ==
  ASSUME Parameters
  PROVE  Spec => []TypeOK
<1>1. Init => Types
  BY InitTypes
<1>2. Types /\ [Next]_vars => Types'
  BY StepTypes
<1>3. Types => TypeOK
  BY DEF Types
<1>4. QED
  BY <1>1, <1>2, <1>3, PTL DEF Spec

-----------------------------------------------------------------------------
(* One flow, used once                                                      *)

\* The drafts an answer may yet be applied with: the open one, and the one a
\* handler read.
Held(d) ==
  \/ draft # Null /\ d = draft
  \/ \E t \in Tasks : task[t].pc = "applying" /\ d = task[t].saw

\* A draft that took effect is of an earlier revision of the reminder.
DraftsSpent ==
  \A d : Held(d) => d.revision <= revision /\ (used[d.number] # 0 => d.revision < revision)

\* The question and the voice draft that are open have taken no effect, and
\* neither is a draft under another name.
OpenUnused ==
  /\ question # Null => used[question.number] = 0 /\ \A d : Held(d) => d.number # question.number
  /\ voice # Null => used[voice.number] = 0 /\ \A d : Held(d) => d.number # voice.number

FlowInv == Types /\ OneFlow /\ UsedOnce /\ DraftsSpent /\ OpenUnused

\* A handler that is about to apply a draft was about to before, or has just
\* read the draft that is open.
LEMMA HeldBefore ==
  ASSUME Parameters, Types, [Next]_vars, NEW t \in Tasks, task'[t].pc = "applying"
  PROVE  \/ task[t].pc = "applying" /\ task'[t].saw = task[t].saw
         \/ draft # Null /\ task'[t].saw = draft
<1>1. task \in [Tasks -> TaskState]
  BY DEF Types
<1>2. ASSUME NEW u \in Tasks, TaskStep(u)
      PROVE  \/ task[t].pc = "applying" /\ task'[t].saw = task[t].saw
             \/ draft # Null /\ task'[t].saw = draft
  <2>1. CASE ReadDraft(u)
    BY <1>1, <2>1 DEF ReadDraft, Live, Become, Go, TaskState
  <2>2. CASE Receive(u) \/ Crash(u)
    <3>1. PICK k : task' = [task EXCEPT ![u] = k] /\ (k.pc # "applying" \/ k = task[u])
      <4>1. Free.pc = "free"
        BY DEF Free
      <4>2. \A start, m, c : Begin(start, m, c).pc = start
        BY DEF Begin, Free
      <4>3. task[u].start # "applying"
        BY <1>1 DEF TaskState
      <4>4. QED
        BY <2>2, <4>1, <4>2, <4>3 DEF Receive, Crash, Become, Done
    <3>2. QED
      BY <1>1, <3>1
  <2>3. CASE ~(ReadDraft(u) \/ Receive(u) \/ Crash(u))
    <3>1. task[u] \in TaskState
      BY <1>1
    <3>2. u # t => task'[t] = task[t]
      BY <1>1, <1>2, <2>3
         DEF TaskStep, UpdateDraft, Apply, DeleteDraft, ReadQuestion, Consume, ConsumeToVoice, Parse,
             Clear, Create, Acquire, Hear, CreateVoiceDraft, ShowPreview, Bind, Become, Go, Done
    <3>3. u = t => task'[u].pc # "applying"
      <4>1. CASE UpdateDraft(u) \/ DeleteDraft(u) \/ Consume(u) \/ Create(u) \/ Bind(u)
        BY <1>1, <4>1 DEF UpdateDraft, DeleteDraft, Consume, Create, Bind, Become, Done, Free
      <4>2. \A pc : Go(u, pc) => task'[u].pc = pc
        BY <1>1, <3>1 DEF Go, TaskState
      <4>3. Done(u) => task'[u].pc = "free"
        BY <1>1 DEF Done, Become, Free
      <4>4. CASE Apply(u) \/ Acquire(u)
        BY <4>2, <4>3, <4>4 DEF Apply, Acquire
      <4>5. CASE ReadQuestion(u)
        <5>1. CASE Live(question)
          <6>1. task' = [task EXCEPT ![u] = [task[u] EXCEPT !.pc = "answering", !.saw = question]]
            BY <4>5, <5>1 DEF ReadQuestion, Become
          <6>2. QED
            BY <1>1, <3>1, <6>1 DEF TaskState
        <5>2. CASE ~Live(question)
          BY <4>2, <4>5, <5>2 DEF ReadQuestion
        <5>3. QED
          BY <5>1, <5>2
      <4>6. CASE (ConsumeToVoice(u) \/ Hear(u)) /\ ~Done(u)
        <5>1. task' = [task EXCEPT ![u] = [task[u] EXCEPT !.pc = "showing", !.saw = voice']]
          BY <4>6 DEF ConsumeToVoice, Hear, CreateVoiceDraft, Become
        <5>2. QED
          BY <1>1, <3>1, <5>1 DEF TaskState
      <4>7. CASE Parse(u) /\ ~Done(u)
        <5>1. task' = [task EXCEPT ![u] = [task[u] EXCEPT !.pc = "clearing", !.left = 3, !.goal = "create"]]
          BY <4>7 DEF Parse, Become
        <5>2. QED
          BY <1>1, <3>1, <5>1 DEF TaskState
      <4>8. CASE ShowPreview(u) /\ ~Done(u)
        <5>1. task' = [task EXCEPT ![u] = [task[u] EXCEPT !.pc = "binding",
                                                          !.left = Cardinality(previews) + 1]]
          BY <4>8 DEF ShowPreview, Become
        <5>2. QED
          BY <1>1, <3>1, <5>1 DEF TaskState
      <4>9. CASE Clear(u) /\ ~Done(u)
        <5>1. task[u].pc = "clearing"
          BY <4>9 DEF Clear
        <5>2. \/ task' = [task EXCEPT ![u] = [task[u] EXCEPT !.left = @ - 1]]
              \/ task' = [task EXCEPT ![u] = [task[u] EXCEPT !.left = 0, !.pc = "making"]]
          BY <4>9 DEF Clear, Become
        <5>3. QED
          BY <1>1, <3>1, <5>1, <5>2 DEF TaskState
      <4>10. QED
        BY <1>2, <2>3, <4>1, <4>3, <4>4, <4>5, <4>6, <4>7, <4>8, <4>9 DEF TaskStep
    <3>4. QED
      BY <3>2, <3>3
  <2>4. QED
    BY <2>1, <2>2, <2>3
<1>3. CASE ~\E u \in Tasks : TaskStep(u)
  <2>1. task' = task
    BY <1>3 DEF Next, vars, CreateActionDraft, ReminderChanges, Expire, Discard, Confirm, Correct
  <2>2. QED
    BY <2>1
<1>4. QED
  BY <1>2, <1>3

\* Unless a draft begins, what is held after a step was held before, with the
\* same number and revision.
LEMMA HeldShrinks ==
  ASSUME Parameters, Types, [Next]_vars, DraftKept \/ draft' = draft, NEW d, Held(d)'
  PROVE  \E e : Held(e) /\ e.number = d.number /\ e.revision = d.revision
<1>1. CASE draft' # Null /\ d = draft'
  <2>1. draft # Null /\ draft'.number = draft.number /\ draft'.revision = draft.revision
    BY <1>1 DEF DraftKept
  <2>2. QED
    BY <1>1, <2>1 DEF Held
<1>2. ASSUME NEW t \in Tasks, task'[t].pc = "applying", d = task'[t].saw
      PROVE  Held(d)
  BY <1>2, HeldBefore DEF Held
<1>3. QED
  BY <1>1, <1>2 DEF Held

LEMMA HeldTypes ==
  ASSUME Parameters, Types, NEW d, Held(d)
  PROVE  d.number \in Numbers /\ d.revision \in Nat
<1>1. d \in Draft
  BY RowNumbers DEF Held, Types, Fitting
<1>2. QED
  BY <1>1 DEF Draft, Parameters

LEMMA FlowKept ==
  ASSUME Parameters, FlowInv, [Next]_vars, Types', Kept
  PROVE  FlowInv'
<1>1. Types
  BY DEF FlowInv
<1>2. \A d : Held(d)' => \E e : Held(e) /\ e.number = d.number /\ e.revision = d.revision
  BY <1>1, HeldShrinks DEF Kept
<1>3. used' = used /\ Numbers' = Numbers /\ revision' \in {revision, revision + 1} /\ revision \in Nat
  BY <1>1 DEF Kept, Numbers, Types, TypeOK, Parameters
<1>4. OneFlow' /\ UsedOnce'
  BY <1>3 DEF FlowInv, OneFlow, UsedOnce, Kept, DraftKept, QuestionKept, VoiceKept
<1>5. DraftsSpent'
  <2>1. SUFFICES ASSUME NEW d, Held(d)'
                 PROVE  d.revision <= revision' /\ (used'[d.number] # 0 => d.revision < revision')
    BY DEF DraftsSpent
  <2>2. PICK e : Held(e) /\ e.number = d.number /\ e.revision = d.revision
    BY <1>2, <2>1
  <2>3. e.revision <= revision /\ (used[e.number] # 0 => e.revision < revision)
    BY <2>2 DEF FlowInv, DraftsSpent
  <2>4. e.revision \in Nat
    BY <1>1, <2>2, HeldTypes
  <2>5. QED
    BY <1>3, <2>2, <2>3, <2>4
<1>6. OpenUnused'
  BY <1>2, <1>3 DEF FlowInv, OpenUnused, Kept, QuestionKept, VoiceKept
<1>7. QED
  BY <1>4, <1>5, <1>6 DEF FlowInv

\* A new flow has a number nobody holds.
LEMMA FlowBegun ==
  ASSUME Parameters, FlowInv, [Next]_vars, Types', CreateActionDraft \/ Asked
  PROVE  FlowInv'
<1>1. Types
  BY DEF FlowInv
<1>2. /\ used' = Append(used, 0) /\ revision' = revision /\ used \in Seq(Nat) /\ Len(used) \in Nat
      /\ Numbers = 1..Len(used) /\ Numbers' = 1..(Len(used) + 1) /\ Next1 = Len(used) + 1
      /\ used'[Next1] = 0 /\ \A n \in Numbers : used'[n] = used[n]
  <2>1. used' = Append(used, 0) /\ revision' = revision
    BY DEF CreateActionDraft, Asked, Ask
  <2>2. used \in Seq(Nat) /\ Len(used) \in Nat /\ Numbers = 1..Len(used)
    BY <1>1, RowNumbers
  <2>3. QED
    BY <2>1, <2>2, Lengthened DEF Numbers, Next1
<1>3. UsedOnce'
  BY <1>2 DEF FlowInv, UsedOnce
<1>4. \A d : Held(d) => d.number \in Numbers /\ d.revision \in Nat /\ d.number # Next1
  BY <1>1, <1>2, HeldTypes
<1>5. CASE CreateActionDraft
  <2>1. draft'.number = Next1 /\ draft'.revision = revision /\ question' = Null /\ voice' = Null
        /\ task' = task /\ revision \in Nat
    BY <1>1, <1>5 DEF CreateActionDraft, Types, TypeOK, Parameters
  <2>2. \A d : Held(d)' => Held(d) \/ d = draft'
    BY <2>1 DEF Held
  <2>3. DraftsSpent'
    BY <1>2, <1>4, <2>1, <2>2 DEF FlowInv, DraftsSpent
  <2>4. OneFlow' /\ OpenUnused'
    BY <2>1 DEF OneFlow, OpenUnused
  <2>5. QED
    BY <1>3, <2>3, <2>4 DEF FlowInv
<1>6. CASE Asked
  <2>1. draft' = Null /\ voice' = Null /\ question'.number = Next1
    BY <1>6 DEF Asked, Ask
  <2>2. \A d : Held(d)' => \E e : Held(e) /\ e.number = d.number /\ e.revision = d.revision
    BY <1>1, <2>1, HeldShrinks DEF DraftKept
  <2>3. DraftsSpent'
    BY <1>2, <1>4, <2>2 DEF FlowInv, DraftsSpent
  <2>4. OpenUnused'
    BY <1>2, <1>4, <2>1, <2>2 DEF OpenUnused
  <2>5. OneFlow'
    BY <2>1 DEF OneFlow
  <2>6. QED
    BY <1>3, <2>3, <2>4, <2>5 DEF FlowInv
<1>7. QED
  BY <1>5, <1>6

\* The counts after flow n took effect, with or without another begun.
LEMMA UsedAfter ==
  ASSUME Types, NEW n \in Numbers, used[n] = 0, used' = Use(n) \/ used' = Append(Use(n), 0)
  PROVE  /\ used'[n] = 1 /\ \A m \in Numbers : m # n => used'[m] = used[m]
         /\ Numbers \subseteq Numbers' /\ Next1 \notin Numbers
         /\ used' = Use(n) => Numbers' = Numbers
         /\ used' # Use(n) => Numbers' = Numbers \union {Next1} /\ used'[Next1] = 0
<1>1. used \in Seq(Nat) /\ Len(used) \in Nat /\ Numbers = 1..Len(used) /\ Next1 = Len(used) + 1
  BY RowNumbers DEF Next1
<1>2. /\ Use(n) \in Seq(Nat) /\ Len(Use(n)) = Len(used) /\ Use(n)[n] = 1
      /\ \A m \in Numbers : m # n => Use(n)[m] = used[m]
  BY UsedShape
<1>3. CASE used' = Use(n)
  BY <1>1, <1>2, <1>3 DEF Numbers
<1>4. CASE used' = Append(Use(n), 0)
  <2> DEFINE u == Use(n)
  <2>1. /\ u \in Seq(Nat) /\ Len(u) = Len(used) /\ u[n] = 1
        /\ \A m \in Numbers : m # n => u[m] = used[m]
    BY <1>2
  <2>2. used' = Append(u, 0)
    BY <1>4
  <2> HIDE DEF u
  <2>3. /\ Len(used') = Len(used) + 1 /\ used'[Len(used) + 1] = 0
        /\ \A m \in 1..Len(used) : used'[m] = u[m]
    BY <2>1, <2>2, Lengthened
  <2>4. Numbers' = 1..(Len(used) + 1)
    BY <2>3 DEF Numbers
  <2>5. Len(used') # Len(u)
    BY <1>1, <2>1, <2>3
  <2>6. used' # Use(n)
    BY <2>5 DEF u
  <2>7. /\ used'[n] = 1 /\ \A m \in Numbers : m # n => used'[m] = used[m]
    BY <1>1, <2>1, <2>3
  <2>8. Numbers' = Numbers \union {Next1} /\ used'[Next1] = 0 /\ Next1 \notin Numbers
    BY <1>1, <2>3, <2>4
  <2>9. QED
    BY <2>6, <2>7, <2>8
<1>5. QED
  BY <1>3, <1>4

\* A question or a voice draft takes effect and is gone: its number is nobody
\* else's, and a flow that begins has a new one.
LEMMA FlowUsed ==
  ASSUME Parameters, FlowInv, [Next]_vars, Types', NEW n \in Numbers,
         \/ question # Null /\ n = question.number
         \/ voice # Null /\ n = voice.number,
         used' = Use(n) \/ used' = Append(Use(n), 0),
         revision' = revision, draft' = draft \/ draft' = Null,
         question' = Null \/ voice' = Null,
         draft' = Null \/ (question' = Null /\ voice' = Null),
         question' # Null => used' # Use(n) /\ question'.number = Next1,
         voice' # Null => used' # Use(n) /\ voice'.number = Next1
  PROVE  FlowInv'
<1>1. Types
  BY DEF FlowInv
<1>2. used[n] = 0 /\ \A d : Held(d) => d.number # n
  BY DEF FlowInv, OpenUnused
<1>3. /\ used'[n] = 1 /\ \A m \in Numbers : m # n => used'[m] = used[m]
      /\ Numbers \subseteq Numbers' /\ Next1 \notin Numbers
      /\ used' = Use(n) => Numbers' = Numbers
      /\ used' # Use(n) => Numbers' = Numbers \union {Next1} /\ used'[Next1] = 0
  BY <1>1, <1>2, UsedAfter
<1>4. UsedOnce'
  BY <1>3 DEF FlowInv, UsedOnce
<1>5. \A d : Held(d)' => \E e : Held(e) /\ e.number = d.number /\ e.revision = d.revision
  BY <1>1, HeldShrinks DEF DraftKept
<1>6. \A d : Held(d) => d.number \in Numbers /\ d.revision \in Nat
  BY <1>1, HeldTypes
<1>7. DraftsSpent'
  BY <1>2, <1>3, <1>5, <1>6 DEF FlowInv, DraftsSpent
<1>8. OpenUnused'
  BY <1>3, <1>5, <1>6 DEF OpenUnused
<1>9. OneFlow'
  BY DEF OneFlow
<1>10. QED
  BY <1>4, <1>7, <1>8, <1>9 DEF FlowInv

\* A draft is applied: the revision it was made for is over.
LEMMA FlowApplied ==
  ASSUME Parameters, FlowInv, [Next]_vars, Types', NEW t \in Tasks, Applied(t)
  PROVE  FlowInv'
<1> DEFINE d == task[t].saw
           n == d.number
<1>1. Types
  BY DEF FlowInv
<1>2. Held(d) /\ d.revision = revision /\ revision \in Nat /\ revision' = revision + 1
  BY <1>1 DEF Applied, Held, Types, TypeOK, Parameters
<1>3. n \in Numbers /\ used[n] = 0
  <2>1. n \in Numbers /\ d.revision \in Nat
    BY <1>1, <1>2, HeldTypes
  <2>2. ~(d.revision < revision)
    BY <1>2, <2>1
  <2>3. QED
    BY <1>2, <2>1, <2>2 DEF FlowInv, DraftsSpent
<1>4. used' = Use(n) /\ draft' = draft /\ question' = question /\ voice' = voice
  BY DEF Applied
<1> HIDE DEF d, n
<1>5. /\ used'[n] = 1 /\ \A m \in Numbers : m # n => used'[m] = used[m]
      /\ Numbers' = Numbers
  BY <1>1, <1>3, <1>4, UsedAfter
<1>6. UsedOnce' /\ OneFlow'
  BY <1>4, <1>5 DEF FlowInv, UsedOnce, OneFlow
<1>7. \A e : Held(e)' => \E f : Held(f) /\ f.number = e.number /\ f.revision = e.revision
  BY <1>1, <1>4, HeldShrinks
<1>8. \A e : Held(e) => e.number \in Numbers /\ e.revision \in Nat
  BY <1>1, HeldTypes
<1>9. \A e : Held(e) => e.revision < revision'
  BY <1>2, <1>8 DEF FlowInv, DraftsSpent
<1>10. DraftsSpent'
  <2>1. SUFFICES ASSUME NEW e, Held(e)' PROVE e.revision < revision' /\ e.revision <= revision'
    BY DEF DraftsSpent
  <2>2. PICK f : Held(f) /\ f.number = e.number /\ f.revision = e.revision
    BY <1>7, <2>1
  <2>3. e.revision \in Nat /\ e.revision < revision'
    BY <1>8, <1>9, <2>2
  <2>4. QED
    BY <1>2, <2>3
<1>11. OpenUnused'
  <2>1. /\ question # Null => question.number \in Numbers /\ n # question.number
        /\ voice # Null => voice.number \in Numbers /\ n # voice.number
    BY <1>1, <1>2, RowNumbers DEF FlowInv, OpenUnused, n
  <2>2. QED
    BY <1>4, <1>5, <1>7, <2>1 DEF FlowInv, OpenUnused
<1>12. QED
  BY <1>6, <1>10, <1>11 DEF FlowInv

LEMMA FlowVoiced ==
  ASSUME Parameters, FlowInv, [Next]_vars, Types', Voiced
  PROVE  FlowInv'
<1>1. Types
  BY DEF FlowInv
<1>2. voice'.number = Next1 /\ draft' = Null /\ question' = Null /\ revision' = revision
  BY DEF Voiced, NewVoice
<1>3. CASE used' = Append(used, 0)
  <2>1. /\ used \in Seq(Nat) /\ Len(used) \in Nat
        /\ Numbers = 1..Len(used) /\ Numbers' = 1..(Len(used) + 1) /\ Next1 = Len(used) + 1
        /\ used'[Next1] = 0 /\ \A n \in Numbers : used'[n] = used[n]
    <3>1. used \in Seq(Nat) /\ Len(used) \in Nat /\ Numbers = 1..Len(used)
      BY <1>1, RowNumbers
    <3>2. QED
      BY <1>3, <3>1, Lengthened DEF Numbers, Next1
  <2>2. UsedOnce'
    BY <2>1 DEF FlowInv, UsedOnce
  <2>3. \A d : Held(d) => d.number \in Numbers /\ d.revision \in Nat /\ d.number # Next1
    BY <1>1, <2>1, HeldTypes
  <2>4. \A d : Held(d)' => \E e : Held(e) /\ e.number = d.number /\ e.revision = d.revision
    BY <1>1, <1>2, HeldShrinks DEF DraftKept
  <2>5. DraftsSpent'
    BY <1>2, <2>1, <2>3, <2>4 DEF FlowInv, DraftsSpent
  <2>6. OpenUnused' /\ OneFlow'
    BY <1>2, <2>1, <2>3, <2>4 DEF OpenUnused, OneFlow
  <2>7. QED
    BY <2>2, <2>5, <2>6 DEF FlowInv
<1>4. CASE used' # Append(used, 0)
  <2>1. question # Null /\ used' = Append(Use(question.number), 0) /\ question.number \in Numbers
    BY <1>1, <1>4, RowNumbers DEF Voiced
  <2>2. used[question.number] = 0
    BY <2>1 DEF FlowInv, OpenUnused
  <2>3. used' # Use(question.number)
    <3>1. Len(used') = Len(Use(question.number)) + 1 /\ Len(Use(question.number)) \in Nat
      BY <1>1, <2>1, UsedShape, Lengthened
    <3>2. QED
      BY <3>1
  <2>4. QED
    BY <1>2, <2>1, <2>3, FlowUsed
<1>5. QED
  BY <1>3, <1>4

LEMMA FlowStep ==
  ASSUME Parameters, FlowInv, [Next]_vars
  PROVE  FlowInv'
<1>1. Types /\ Types'
  BY StepTypes DEF FlowInv
<1>2. CASE Consumed
  <2>1. question.number \in Numbers
    BY <1>1, <1>2, RowNumbers DEF Consumed
  <2>2. voice' = Null /\ (draft' = Null \/ question = Null)
    BY <1>2 DEF Consumed, FlowInv, OneFlow
  <2>3. QED
    BY <1>1, <1>2, <2>1, <2>2, FlowUsed DEF Consumed
<1>3. CASE Confirmed
  <2>1. voice.number \in Numbers
    BY <1>1, <1>3, RowNumbers DEF Confirmed
  <2>2. question' = Null /\ draft' = Null
    BY <1>3 DEF Confirmed, FlowInv, OneFlow
  <2>3. QED
    BY <1>1, <1>3, <2>1, <2>2, FlowUsed DEF Confirmed
<1>4. CASE Corrected
  <2>1. voice # Null /\ voice.number \in Numbers /\ used' = Append(Use(voice.number), 0)
    BY <1>1, <1>4, RowNumbers DEF Corrected
  <2>2. used' # Use(voice.number)
    <3>1. Len(used') = Len(Use(voice.number)) + 1 /\ Len(Use(voice.number)) \in Nat
      BY <1>1, <2>1, UsedShape, Lengthened
    <3>2. QED
      BY <3>1
  <2>3. question'.number = Next1 /\ voice' = Null /\ draft' = Null /\ revision' = revision
    BY <1>4 DEF Corrected
  <2>4. QED
    BY <1>1, <2>1, <2>2, <2>3, FlowUsed
<1>5. QED
  BY <1>1, <1>2, <1>3, <1>4, StepEffects, FlowKept, FlowBegun, FlowVoiced, FlowApplied

LEMMA InitFlow ==
  ASSUME Parameters, Init
  PROVE  FlowInv
<1>1. /\ draft = Null /\ question = Null /\ voice = Null /\ used = <<>>
      /\ \A t \in Tasks : task[t].pc = "free"
  BY DEF Init, Free
<1>2. Numbers = {}
  BY <1>1 DEF Numbers
<1>3. QED
  BY <1>1, <1>2, InitTypes DEF FlowInv, OneFlow, UsedOnce, DraftsSpent, OpenUnused, Held

LEMMA FlowInvariant ==
  ASSUME Parameters
  PROVE  Spec => []FlowInv
<1>1. Init => FlowInv
  BY InitFlow
<1>2. FlowInv /\ [Next]_vars => FlowInv'
  BY FlowStep
<1>3. QED
  BY <1>1, <1>2, PTL DEF Spec

\* The user is in at most one flow, whatever handlers, buttons and voice
\* messages meet: the row of a flow is never there beside that of another.
THEOREM OneFlowAtMost ==
  ASSUME Parameters
  PROVE  Spec => []OneFlow
<1>1. FlowInv => OneFlow
  BY DEF FlowInv
<1>2. QED
  BY <1>1, FlowInvariant, PTL

\* A draft or a question takes effect once, for any number of concurrent
\* updates, repeated deliveries and crashes between the change of the reminder
\* and the deletion of the draft: an action draft that took effect is of an
\* earlier action_revision, and the row of any other flow goes with its effect.
THEOREM FlowsAreUsedOnce ==
  ASSUME Parameters
  PROVE  Spec => []UsedOnce
<1>1. FlowInv => UsedOnce
  BY DEF FlowInv
<1>2. QED
  BY <1>1, FlowInvariant, PTL
=============================================================================
