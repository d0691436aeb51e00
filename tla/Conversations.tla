--------------------------- MODULE Conversations ---------------------------
(***************************************************************************)
(* What one user and the bot are in the middle of: the draft of an action  *)
(* on a reminder (reminder_service.py), the question about a vague request *)
(* (clarification_service.py), the draft made of a voice message           *)
(* (voice_service.py), and the handlers of reminders.py between them.      *)
(*                                                                         *)
(* Updates are handled concurrently: a handler is a task, a step of it is  *)
(* one database transaction or one call over the network.  A message is    *)
(* its number; what a parser makes of it is any outcome it has.  The model *)
(* has no clock: an expiry may pass between any two steps.                 *)
(***************************************************************************)
EXTENDS Naturals, Sequences, FiniteSets

CONSTANTS
  Tasks,        \* updates handled at the same time
  Slots,        \* voice_stt_concurrency
  MaxMessages,  \* bound on the messages of the user
  MaxDrafts,    \* bound on the flows open before a draft button is pressed
  MaxRepeats,   \* bound on the updates that come twice
  MaxRevision,  \* bound on the revisions of the reminder
  Null          \* no row; a model value

This == 0       \* raw_text "напомни об этом", the same for every such question

VARIABLES
  revision,  \* action_revision of the user's reminder
  draft,     \* the row of action_drafts
  question,  \* the row of reminder_clarifications
  voice,     \* the row of voice_reminder_drafts
  previews,  \* [message, draft]: the voice previews in the chat
  task,      \* what each handler is doing
  received,  \* messages so far
  repeated,  \* updates that came a second time
  used,      \* how often each draft or question took effect (history)
  mixed      \* a reminder got the text of one message and the source of another (history)
vars == <<revision, draft, question, voice, previews, task, received, repeated, used, mixed>>
flows == <<draft, question, voice>>

\* A draft, a question and a voice draft are numbered in one sequence; a
\* question that replaces another keeps the id of its row.
Numbers == 1..Len(used)
Kinds == {"edit", "snooze"}   \* "deadline_edit" goes the way of "snooze"
Draft == [number : Numbers, kind : Kinds, revision : 0..MaxRevision,
          step : {"text", "last"}, expired : BOOLEAN]
Question == [number : Numbers, id : Numbers, origin : {"text", "voice"},
             raw : 0..received, context : 0..received, source : 0..received, expired : BOOLEAN]
Voice == [number : Numbers, source : 0..received, preview : Nat, expired : BOOLEAN]

Free == [pc |-> "free", start |-> "free", message |-> 0, context |-> 0, saw |-> Null, left |-> 0, goal |-> Null]
Steps == {"free", "text", "editing", "applying", "applied", "asked", "answering", "fresh",
          "clearing", "making", "queued", "hearing", "showing", "binding"}
Goals == {Null, "create", "nothing"}

TypeOK ==
  /\ revision \in 0..MaxRevision /\ received \in 0..MaxMessages
  /\ draft = Null \/ draft \in Draft
  /\ question = Null \/ question \in Question
  /\ voice = Null \/ voice \in Voice
  /\ \A p \in previews : p.draft \in Numbers /\ p.message \in Nat
  /\ \A t \in Tasks : /\ task[t].pc \in Steps /\ task[t].message \in 0..received
                      /\ task[t].context \in {0, task[t].message}
                      /\ task[t].left \in Nat /\ task[t].goal \in Goals
  /\ used \in Seq(Nat)
  /\ mixed \in BOOLEAN /\ repeated \in 0..MaxRepeats

Init ==
  /\ revision = 0 /\ draft = Null /\ question = Null /\ voice = Null
  /\ previews = {} /\ task = [t \in Tasks |-> Free] /\ received = 0
  /\ used = <<>> /\ mixed = FALSE /\ repeated = 0

Become(t, new) == task' = [task EXCEPT ![t] = new]
Go(t, pc) == task' = [task EXCEPT ![t].pc = pc]
Done(t) == Become(t, Free)
Use(n) == [used EXCEPT ![n] = @ + 1]
Begin(start, message, context) ==
  [Free EXCEPT !.pc = start, !.start = start, !.message = message, !.context = context,
               !.left = IF start = "clearing" THEN 3 ELSE 0,
               !.goal = IF start = "clearing" THEN "nothing" ELSE Null]
Next1 == Len(used) + 1      \* the number of the next draft or question
Mixed(text, context) == mixed \/ (context # 0 /\ text # context)

-----------------------------------------------------------------------------
(* What the user sends *)

\* A text (text_reminder_handler), /remind or /deadline, /cancel, or a voice
\* message.  "context" is the message itself when it is a forward, a reply, a
\* photo, a document or has a link.
Receive(t) ==
  /\ task[t].pc = "free" /\ received < MaxMessages
  /\ received' = received + 1
  /\ \E first \in {"text", "fresh", "queued", "clearing"}, context \in {0, received + 1} :
       /\ context # 0 => first \in {"text", "fresh"}
       /\ Become(t, Begin(first, received + 1, context))
  /\ UNCHANGED <<revision, flows, previews, repeated, used, mixed>>

\* create_action_draft: Edit or a snooze of one's own on a card of any age.
\* It locks the owner and deletes every other flow.
CreateActionDraft ==
  /\ Len(used) < MaxDrafts
  /\ \E kind \in Kinds :
       draft' = [number |-> Next1, kind |-> kind, revision |-> revision, expired |-> FALSE,
                 step |-> IF kind = "edit" THEN "text" ELSE "last"]
  /\ used' = Append(used, 0)
  /\ question' = Null /\ voice' = Null
  /\ UNCHANGED <<revision, previews, task, received, repeated, mixed>>

\* Any other operation on the reminder.
ReminderChanges ==
  /\ revision < MaxRevision /\ revision' = revision + 1
  /\ UNCHANGED <<flows, previews, task, received, repeated, used, mixed>>

\* The lifetime of a draft or a question ends.
Expire ==
  /\ \/ draft # Null /\ draft' = [draft EXCEPT !.expired = TRUE] /\ UNCHANGED <<question, voice>>
     \/ question # Null /\ question' = [question EXCEPT !.expired = TRUE] /\ UNCHANGED <<draft, voice>>
     \/ voice # Null /\ voice' = [voice EXCEPT !.expired = TRUE] /\ UNCHANGED <<draft, question>>
  /\ UNCHANGED <<revision, previews, task, received, repeated, used, mixed>>

\* The process dies; an update Telegram did not see confirmed comes again.
Crash(t) ==
  /\ task[t].pc # "free"
  /\ \/ Done(t) /\ UNCHANGED repeated
     \/ /\ repeated < MaxRepeats /\ repeated' = repeated + 1
        /\ Become(t, Begin(task[t].start, task[t].message, task[t].context))
  /\ UNCHANGED <<revision, flows, previews, received, used, mixed>>

-----------------------------------------------------------------------------
(* A text while an action draft is open: _handle_action_draft *)

Live(row) == row # Null /\ ~row.expired

\* get_active_action_draft, which deletes a draft that expired.
ReadDraft(t) ==
  /\ task[t].pc = "text"
  /\ IF Live(draft)
     THEN /\ Become(t, [task[t] EXCEPT !.saw = draft,
                          !.pc = IF draft.step = "text" THEN "editing" ELSE "applying"])
          /\ UNCHANGED draft
     ELSE Go(t, "asked") /\ draft' = Null
  /\ UNCHANGED <<revision, question, voice, previews, received, repeated, used, mixed>>

\* update_action_draft with the new text, unless the text is refused.
UpdateDraft(t) ==
  /\ task[t].pc = "editing" /\ Done(t)
  /\ \/ UNCHANGED draft
     \/ /\ draft # Null /\ draft.number = task[t].saw.number
        /\ draft' = IF draft.expired THEN Null ELSE [draft EXCEPT !.step = "last"]
  /\ UNCHANGED <<revision, question, voice, previews, received, repeated, used, mixed>>

\* Mutant: the draft is applied to whatever the reminder has become.
FitsAny(d) == d.revision <= revision
Fits(d) == d.revision = revision

\* apply_edit_draft, apply_custom_snooze_draft or edit_deadline_plan, up to the
\* end of its first transaction; an answer that does not parse or is in the past
\* leaves everything as it is.
Apply(t) ==
  /\ task[t].pc = "applying"
  /\ \/ Done(t) /\ UNCHANGED <<revision, used>>
     \/ /\ Fits(task[t].saw) /\ revision < MaxRevision
        /\ revision' = revision + 1 /\ used' = Use(task[t].saw.number)
        /\ Go(t, "applied")
     \/ /\ ~Fits(task[t].saw)
        /\ Go(t, "applied") /\ UNCHANGED <<revision, used>>
  /\ UNCHANGED <<flows, previews, received, repeated, mixed>>

\* delete_action_draft, in a transaction of its own.
DeleteDraft(t) ==
  /\ task[t].pc = "applied" /\ Done(t)
  /\ draft' = IF draft # Null /\ draft.number = task[t].saw.number THEN Null ELSE draft
  /\ UNCHANGED <<revision, question, voice, previews, received, repeated, used, mixed>>

-----------------------------------------------------------------------------
(* The answer to a question: _handle_clarification *)

\* get_active_clarification.
ReadQuestion(t) ==
  /\ task[t].pc = "asked"
  /\ IF Live(question)
     THEN /\ Become(t, [task[t] EXCEPT !.pc = "answering", !.saw = question])
          /\ UNCHANGED question
     ELSE Go(t, "fresh") /\ question' = Null
  /\ UNCHANGED <<revision, draft, voice, previews, received, repeated, used, mixed>>

IsSeen(q) == /\ question # Null /\ question.id = q.id
             /\ question.raw = q.raw /\ question.origin = q.origin

\* What the reminder made of a question is about: the message it was asked of.
TextOf(q) == IF q.context # 0 THEN q.context ELSE q.raw

\* consume_clarification_and_create_reminder.  The text was put together from
\* the question the handler read, the context comes with the row.
Consume(t) ==
  LET q == task[t].saw IN
  /\ task[t].pc = "answering" /\ q.origin = "text"
  /\ Done(t)
  /\ \/ UNCHANGED <<question, used, mixed>>            \* not an answer
     \/ /\ IsSeen(q)
        /\ used' = Use(question.number) /\ question' = Null
        /\ mixed' = Mixed(TextOf(q), question.context)
  /\ UNCHANGED <<revision, draft, voice, previews, received, repeated>>

NewVoice(source) == [number |-> Next1, source |-> source, preview |-> 0, expired |-> FALSE]

\* consume_voice_clarification_to_draft.
ConsumeToVoice(t) ==
  LET q == task[t].saw IN
  /\ task[t].pc = "answering" /\ q.origin = "voice"
  /\ \/ Done(t) /\ UNCHANGED <<flows, used>>
     \/ /\ IsSeen(q)
        /\ draft' = Null /\ question' = Null /\ voice' = NewVoice(question.source)
        /\ used' = Append(Use(question.number), 0)
        /\ Become(t, [task[t] EXCEPT !.pc = "showing", !.saw = voice'])
  /\ UNCHANGED <<revision, previews, received, repeated, mixed>>

-----------------------------------------------------------------------------
(* A new request: _create_and_answer *)

\* Mutant: a question does not end the other flows.
AskBeside(origin, raw, context, source) ==
  /\ question' = [number |-> Next1, origin |-> origin, raw |-> raw, context |-> context,
                  id |-> IF question = Null THEN Next1 ELSE question.id,
                  source |-> source, expired |-> FALSE]
  /\ used' = Append(used, 0) /\ UNCHANGED <<draft, voice>>

\* create_clarification: it locks the owner, deletes the other flows and
\* rewrites the row of a question that is open.
Ask(origin, raw, context, source) ==
  /\ question' = [number |-> Next1, origin |-> origin, raw |-> raw, context |-> context,
                  id |-> IF question = Null THEN Next1 ELSE question.id,
                  source |-> source, expired |-> FALSE]
  /\ used' = Append(used, 0) /\ draft' = Null /\ voice' = Null

\* The parse of a new request: nothing, a question, or a plan or reminder,
\* before which the open flows are deleted one by one.
Parse(t) ==
  LET m == task[t].message
      c == task[t].context IN
  /\ task[t].pc = "fresh"
  /\ \/ c = 0 /\ Done(t) /\ UNCHANGED <<flows, used>>
     \/ Done(t) /\ Ask("text", m, c, 0)               \* ClarificationRequest
     \/ c # 0 /\ Done(t) /\ Ask("text", This, c, 0)   \* build_context_clarification
     \/ /\ Become(t, [task[t] EXCEPT !.pc = "clearing", !.left = 3, !.goal = "create"])
        /\ UNCHANGED <<flows, used>>
  /\ UNCHANGED <<revision, previews, received, repeated, mixed>>

\* cancel_active_action_drafts, cancel_clarification and
\* cancel_voice_reminder_draft: a transaction each.
Clear(t) ==
  LET n == 4 - task[t].left IN
  /\ task[t].pc = "clearing"
  /\ draft' = IF n = 1 THEN Null ELSE draft
  /\ question' = IF n = 2 THEN Null ELSE question
  /\ voice' = IF n = 3 THEN Null ELSE voice
  /\ IF task[t].left > 1 THEN Become(t, [task[t] EXCEPT !.left = @ - 1])
     ELSE IF task[t].goal = "nothing" THEN Done(t)
     ELSE Become(t, [task[t] EXCEPT !.left = 0, !.pc = "making"])
  /\ UNCHANGED <<revision, previews, received, repeated, used, mixed>>

\* create_reminder or create_deadline_draft, or their ValueError: no flow and
\* no reminder of before is touched, and text and source are of one message.
Create(t) ==
  /\ task[t].pc = "making" /\ Done(t)
  /\ UNCHANGED <<revision, flows, previews, received, repeated, used, mixed>>

-----------------------------------------------------------------------------
(* A voice message: process_voice_message and the buttons of its preview *)

Hearing == Cardinality({t \in Tasks : task[t].pc = "hearing"})

\* The semaphore of the recogniser, or "busy" after the wait for it.
Acquire(t) ==
  /\ task[t].pc = "queued"
  /\ \/ Hearing < Slots /\ Go(t, "hearing")
     \/ Done(t)
  /\ UNCHANGED <<revision, flows, previews, received, repeated, used, mixed>>

\* create_voice_draft: it locks the owner and deletes the other flows; a draft
\* of the same message stays.  The clock was read before the transcription, so
\* a draft that expired since then stays as well.
CreateVoiceDraft(t) ==
  LET again == voice # Null /\ voice.source = task[t].message IN
  /\ draft' = Null /\ question' = Null
  /\ \/ again /\ UNCHANGED <<voice, used>>
     \/ /\ again => voice.expired
        /\ voice' = NewVoice(task[t].message) /\ used' = Append(used, 0)
  /\ Become(t, [task[t] EXCEPT !.pc = "showing", !.saw = voice'])

\* The download, the transcription and what the parser makes of the transcript.
Hear(t) ==
  /\ task[t].pc = "hearing"
  /\ \/ Done(t) /\ UNCHANGED <<flows, used>>
     \/ Done(t) /\ Ask("voice", task[t].message, 0, task[t].message)
     \/ CreateVoiceDraft(t)
  /\ UNCHANGED <<revision, previews, received, repeated, mixed>>

\* _send_voice_preview: the message, or an error of the call.
ShowPreview(t) ==
  /\ task[t].pc = "showing"
  /\ \/ Done(t) /\ UNCHANGED previews
     \/ /\ previews' = previews \union {[message |-> Cardinality(previews) + 1,
                                         draft |-> task[t].saw.number]}
        /\ Become(t, [task[t] EXCEPT !.pc = "binding", !.left = Cardinality(previews) + 1])
  /\ UNCHANGED <<revision, flows, received, repeated, used, mixed>>

\* bind_voice_preview_message.
Bind(t) ==
  /\ task[t].pc = "binding" /\ Done(t)
  /\ voice' = IF Live(voice) /\ voice.number = task[t].saw.number
              THEN [voice EXCEPT !.preview = task[t].left] ELSE voice
  /\ UNCHANGED <<revision, draft, question, previews, received, repeated, used, mixed>>

\* The row a button of preview p finds.
Shows(p) == voice # Null /\ voice.number = p.draft

\* confirm_voice_draft creates the reminder and deletes the draft, unless the
\* schedule it holds is over by now.
Confirm(p) ==
  /\ Shows(p) /\ voice.preview \in {0, p.message}
  /\ IF voice.expired THEN voice' = Null /\ UNCHANGED <<used, mixed>>
     ELSE /\ voice' = Null /\ used' = Use(voice.number)
          /\ mixed' = Mixed(voice.source, 0)
  /\ UNCHANGED <<revision, draft, question, previews, task, received, repeated>>

\* start_voice_draft_correction: the draft becomes a question.
Correct(p) ==
  /\ Shows(p)
  /\ IF voice.expired THEN voice' = Null /\ UNCHANGED <<draft, question, used>>
     ELSE /\ voice.preview = p.message
          /\ voice' = Null /\ draft' = Null
          /\ used' = Append(Use(voice.number), 0)
          /\ question' = [number |-> Next1, origin |-> "voice", raw |-> voice.source,
                          id |-> IF question = Null THEN Next1 ELSE question.id,
                          context |-> 0, source |-> voice.source, expired |-> FALSE]
  /\ UNCHANGED <<revision, previews, task, received, repeated, mixed>>

\* discard_voice_draft and cleanup_expired_voice_drafts.
Discard ==
  /\ voice # Null
  /\ voice.expired \/ \E p \in previews : Shows(p) /\ voice.preview \in {0, p.message}
  /\ voice' = Null
  /\ UNCHANGED <<revision, draft, question, previews, task, received, repeated, used, mixed>>

-----------------------------------------------------------------------------
TaskStep(t) ==
  \/ Receive(t) \/ Crash(t)
  \/ ReadDraft(t) \/ UpdateDraft(t) \/ Apply(t) \/ DeleteDraft(t)
  \/ ReadQuestion(t) \/ Consume(t) \/ ConsumeToVoice(t)
  \/ Parse(t) \/ Clear(t) \/ Create(t)
  \/ Acquire(t) \/ Hear(t) \/ ShowPreview(t) \/ Bind(t)

Next ==
  \/ CreateActionDraft \/ ReminderChanges \/ Expire
  \/ \E t \in Tasks : TaskStep(t)
  \/ \E p \in previews : Confirm(p) \/ Correct(p)
  \/ Discard

Spec == Init /\ [][Next]_vars

-----------------------------------------------------------------------------
(* Properties *)

\* The user is in at most one flow: every service that opens one deletes the
\* others in the same transaction, under the lock of the owner.
OneFlow ==
  /\ draft = Null \/ question = Null
  /\ draft = Null \/ voice = Null
  /\ question = Null \/ voice = Null

\* A draft or a question takes effect once, whatever crashes between the change
\* of the reminder and the deletion of the draft, however many messages and
\* buttons meet it at the same time, and if an update comes twice.
UsedOnce == \A n \in Numbers : used[n] <= 1

\* clarification_service.py:193: "Consume one exact clarification and create its
\* reminder": the source attached to a reminder is the one it was made of.
ContextMatches == ~mixed
=============================================================================
