------------------------------ MODULE PostChat -------------------------------
(***************************************************************************)
(* One Posts conversation under concurrent requests: turns with new text,   *)
(* turns about a message stored earlier, the generation command, and plain  *)
(* messages.  A request is one READ COMMITTED transaction.  FOR UPDATE locks *)
(* the conversation (append_message), a post (create_generation) or the     *)
(* context row (save); an insert that refers to the conversation takes a    *)
(* KEY SHARE of it, which only FOR UPDATE excludes.  The model calls of a    *)
(* turn run inside its transaction.                                         *)
(***************************************************************************)
EXTENDS ChatRouting

CONSTANTS
    Requests,         \* requests in flight at once; a post is named after its creator
    Texts,            \* what clients write
    Classifications,  \* for each text, the [intent, updates] the classifier may return
    Histories,        \* conversations to begin with: [messages, context]
    HistoryLimit,     \* the page of messages a request reads, oldest first
    MaxMessages       \* bound: a message is written while fewer are committed

ASSUME ChatConstants ==
    /\ Texts \subseteq Text
    /\ Classifications \in [Texts -> SUBSET [intent: Intents, updates: Update]]
    /\ HistoryLimit \in Nat \ {0} /\ MaxMessages \in Nat
    /\ None \notin Requests /\ None \notin Texts /\ None \notin Actions
    \* Promotion marks a goal that nobody stated: a stated one is a Word
    /\ \A t \in Texts : \A c \in Classifications[t] : c.updates["goal"] # Promotion

VARIABLES
    messages,    \* committed messages, by sequence number
    context,     \* the committed post_conversation_contexts row, or None
    posts,       \* committed posts of the conversation, oldest first
    req,         \* where every request is
    told,        \* history: what turns that follow one another have stated
    overlapped   \* history: whether two requests were ever in flight at once

vars == <<messages, context, posts, req, told, overlapped>>

\* A key names the message that asked, or how long the history was.
Key == {"turn", "command"} \X Nat
Generation == [key: Key, brief: Update]
GenerationId == Requests \X Nat            \* a post and an attempt
Ref == [generation: GenerationId, revises: {None} \cup GenerationId]
Post == [id: Requests, generations: Seq(Generation)]
Message == [role: {"user", "assistant"}, text: {None} \cup Texts, answers: Nat, alone: BOOLEAN]

\* What the client wrote in the first n messages of a list.
WrittenBy(list, n) == {list[i].text : i \in {j \in 1 .. n : list[j].role = "user"}}

\* English is taken from the classifier, Albanian only from what was typed.
LanguageTyped(language, texts) ==
    language \in {None, "english"} \/ (language = "shqip" /\ DetectsAlbanian(texts))

\* A conversation to begin with: its turns are whole, nothing was generated, an
\* inferred goal is marked, and names and the language were said.
ASSUME HistoriesAssumption ==
    /\ None \notin Generation \cup GenerationId \cup Context(Ref)
    /\ \A h \in Histories :
         /\ h.messages \in Seq(Message) /\ h.context \in {None} \cup Context(Ref)
         /\ \A i \in DOMAIN h.messages :
              /\ h.messages[i].role = "user" => h.messages[i].text \in Texts
              /\ h.messages[i].answers < i
         /\ \A i \in DOMAIN h.messages :
              h.messages[i].role = "user" /\ ~ h.messages[i].alone =>
                 i + 1 \in DOMAIN h.messages /\ h.messages[i + 1].answers = i
         /\ h.context # None =>
              /\ h.context.generated_posts = <<>>
              /\ LanguageTyped(h.context.facts["language"], WrittenBy(h.messages, Len(h.messages)))
              /\ h.context.facts["goal"] = Promotion => "goal" \in h.context.inferred
              /\ \A f \in QuotedFields : h.context.facts[f] # None =>
                   \E i \in DOMAIN h.messages :
                      h.messages[i].role = "user" /\ h.context.facts[f] \in h.messages[i].text.words

Locks == {<<"conversation">>, <<"key share">>, <<"context">>} \cup ({"post"} \X Requests)

PCs == {"idle", "append", "understand", "find", "create", "request", "answer", "save",
        "insert", "commit"}

\* seen: messages in the page read; message: the one being answered, 0 in a
\* command; stated: told, once the turn is committed; said, made, generation and
\* saved are the writes to be committed.
Request ==
    [pc: PCs, seen: Nat, message: Nat, text: {None} \cup Texts,
     context: {None} \cup Context(Ref), stated: Update, action: {None} \cup Actions,
     post: {None} \cup Requests, made: BOOLEAN, generation: {None} \cup Generation,
     said: Seq(Message), saved: BOOLEAN, locks: SUBSET Locks]

Idle ==
    [pc |-> "idle", seen |-> 0, message |-> 0, text |-> None, context |-> None,
     stated |-> NoUpdate, action |-> None, post |-> None, made |-> FALSE,
     generation |-> None, said |-> <<>>, saved |-> FALSE, locks |-> {}]

Init ==
    /\ \E h \in Histories :
         /\ messages = h.messages /\ context = h.context
         /\ told = IF h.context = None THEN NoUpdate ELSE h.context.facts
    /\ posts = <<>>
    /\ req = [r \in Requests |-> Idle]
    /\ overlapped = FALSE

----------------------------------------------------------------------------
At(r, pc) == req[r].pc = pc
InFlight == {r \in Requests : ~ At(r, "idle")}
IsTurn(r) == req[r].message > 0
Step(r, next) == req' = [req EXCEPT ![r] = next]
Local == UNCHANGED <<messages, context, posts, told, overlapped>>

Excludes(lock) ==
    CASE lock = <<"conversation">> -> {<<"conversation">>, <<"key share">>}
      [] lock = <<"key share">> -> {<<"conversation">>}
      [] OTHER -> {lock}

BlockedBy(r, lock) == {q \in Requests \ {r} : req[q].locks \cap Excludes(lock) # {}}
Free(r, lock) == BlockedBy(r, lock) = {}

\* The locks request r is about to take.
Wants(r) ==
    CASE req[r].pc \in {"append", "answer"} -> {<<"conversation">>}
      [] At(r, "create") -> {<<"key share">>}
      [] At(r, "request") -> {<<"post", req[r].post>>}
      [] At(r, "save") /\ context # None -> {<<"context">>}
      [] At(r, "insert") -> {<<"context">>, <<"key share">>}
      [] OTHER -> {}

WaitsFor(r, q) == \E lock \in Wants(r) : q \in BlockedBy(r, lock)
Locked(r) == req[r].locks \cup Wants(r)

Page == IF Len(messages) < HistoryLimit THEN Len(messages) ELSE HistoryLimit
UserTexts(n) == WrittenBy(messages, n)

\* Mutant: the generation was committed in a transaction of its own.
RollbackWithoutWork(r) ==
    /\ Step(r, Idle)
    /\ posts' = IF req[r].made /\ req[r].generation # None
                THEN Append(posts, [id |-> r, generations |-> <<req[r].generation>>]) ELSE posts
    /\ UNCHANGED <<messages, context, told, overlapped>>

Rollback(r) == Step(r, Idle) /\ Local

----------------------------------------------------------------------------
Begin(r, next) ==
    /\ At(r, "idle")
    /\ overlapped' = (overlapped \/ InFlight # {})
    /\ Step(r, next)
    /\ UNCHANGED <<messages, context, posts, told>>

\* POST /turns with content: the page of history is read before the lock.
StartTurn(r, text) ==
    /\ Len(messages) < MaxMessages
    /\ Begin(r, [Idle EXCEPT !.pc = "append", !.seen = Page, !.text = text])

\* POST /turns with message_id: 404 unless it is the last message of the page.
StartStoredTurn(r) ==
    /\ Len(messages) \in 1 .. MaxMessages /\ messages[Page].role = "user"
    /\ Begin(r, [Idle EXCEPT !.pc = "understand", !.seen = Page, !.message = Page,
                             !.text = messages[Page].text])

\* POST /generations: history and context are read, nothing is locked.
StartCommand(r) ==
    LET known == IF context = None THEN NewContext ELSE context
    IN  Begin(r, [Idle EXCEPT !.pc = "find", !.seen = Page, !.context = known,
                              !.action = IF HasGeneration(known) THEN "revise" ELSE "generate"])

\* POST /messages: one statement's worth of lock.
StoreMessage(text) ==
    /\ Len(messages) < MaxMessages
    /\ \A q \in Requests : req[q].locks \cap Excludes(<<"conversation">>) = {}
    /\ messages' = Append(messages, [role |-> "user", text |-> text, answers |-> 0, alone |-> TRUE])
    /\ overlapped' = (overlapped \/ InFlight # {})
    /\ UNCHANGED <<context, posts, req, told>>

\* append_message
AppendUser(r) ==
    /\ At(r, "append") /\ Free(r, <<"conversation">>)
    /\ Step(r, [req[r] EXCEPT !.pc = "understand", !.locks = Locked(r),
                  !.message = Len(messages) + 1,
                  !.said = <<[role |-> "user", text |-> req[r].text, answers |-> 0,
                              alone |-> FALSE]>>])
    /\ Local

\* What has been stated once a turn's own facts are added.  A language that was
\* claimed or detected counts as what became of it.
Stated(update, recovered, detected, language) ==
    [f \in Fields |->
        IF f = "language" THEN IF update[f] # None \/ detected THEN language ELSE told[f]
        ELSE IF update[f] # None THEN update[f]
        ELSE IF recovered[f] # None THEN recovered[f] ELSE told[f]]

\* The context is read, the classifier answers, and the turn's one action is
\* decided.
Understand(r, classified) ==
    LET texts == UserTexts(req[r].seen) \cup {req[r].text}
        update == Ground(classified.updates, texts)
        known == IF context = None THEN NewContext ELSE context
        understood == Understood(known, req[r].text, texts, update)
        routed == Route(classified.intent, req[r].text, understood)
        infers == InfersGoal(routed, understood)
        action == IF infers THEN "generate" ELSE routed
    IN  /\ At(r, "understand")
        /\ Step(r, [req[r] EXCEPT
              !.context = IF infers THEN WithInferredGoal(understood) ELSE understood,
              !.stated = Stated(update, Recovered(Merge(known, update), req[r].text),
                                DetectsAlbanian(texts), understood.facts["language"]),
              !.action = action,
              !.pc = IF action \in {"generate", "revise"} THEN "find" ELSE "answer"])
        /\ Local

\* _start_workflow.  find_post_by_conversation,
FindPost(r) ==
    /\ At(r, "find")
    /\ Step(r, IF posts = <<>> THEN [req[r] EXCEPT !.pc = "create"]
               ELSE [req[r] EXCEPT !.pc = "request", !.post = posts[Len(posts)].id])
    /\ Local

\* create_post, whose foreign key shares the conversation's key,
CreatePost(r) ==
    /\ At(r, "create") /\ Free(r, <<"key share">>)
    /\ Step(r, [req[r] EXCEPT !.pc = "request", !.locks = Locked(r), !.post = r, !.made = TRUE])
    /\ Local

\* The committed generations of a post, by attempt.
Attempts(post) ==
    LET at == {k \in DOMAIN posts : posts[k].id = post}
    IN  IF at = {} THEN <<>> ELSE posts[CHOOSE k \in at : TRUE].generations

IdempotencyKey(r) ==
    IF IsTurn(r) THEN <<"turn", req[r].message>> ELSE <<"command", req[r].seen>>

Revises(r) ==
    LET known == req[r].context.generated_posts
    IN  IF req[r].action = "revise" /\ known # <<>> THEN known[Len(known)].generation ELSE None

\* Mutant: the lookup of the key is left out.
RequestAgain(r) ==
    /\ At(r, "request") /\ Free(r, <<"post", req[r].post>>)
    /\ LET made == [key |-> IdempotencyKey(r), brief |-> ProjectContext(req[r].context)]
           ref == [generation |-> <<req[r].post, Len(Attempts(req[r].post)) + 1>>,
                   revises |-> Revises(r)]
       IN  Step(r, [req[r] EXCEPT !.locks = Locked(r), !.generation = made,
                      !.context = WithGeneratedPost(@, ref),
                      !.pc = IF IsTurn(r) THEN "answer" ELSE "save"])
    /\ Local

\* and request_generation with the section that seeds the workflow.  A turn
\* records the generation it is given; a command only one that is new.
RequestGeneration(r) ==
    LET attempts == Attempts(req[r].post)
        existing == {i \in DOMAIN attempts : attempts[i].key = IdempotencyKey(r)}
        made == [key |-> IdempotencyKey(r), brief |-> ProjectContext(req[r].context)]
        attempt == IF existing = {} THEN Len(attempts) + 1 ELSE CHOOSE i \in existing : TRUE
        ref == [generation |-> <<req[r].post, attempt>>, revises |-> Revises(r)]
    IN  /\ At(r, "request") /\ Free(r, <<"post", req[r].post>>)
        /\ Step(r, [req[r] EXCEPT
              !.locks = Locked(r),
              !.generation = IF existing = {} THEN made ELSE None,
              !.context = IF IsTurn(r) \/ existing = {} THEN WithGeneratedPost(@, ref) ELSE @,
              !.pc = IF IsTurn(r) THEN "answer" ELSE IF existing = {} THEN "save" ELSE "commit"])
        /\ Local

\* The reply is composed and appended.
AppendAssistant(r) ==
    /\ At(r, "answer") /\ Free(r, <<"conversation">>)
    /\ Step(r, [req[r] EXCEPT !.pc = "save", !.locks = Locked(r),
                  !.said = Append(@, [role |-> "assistant", text |-> None,
                                      answers |-> req[r].message, alone |-> FALSE])])
    /\ Local

\* save: the whole context is written over the locked row,
SaveContext(r) ==
    /\ At(r, "save")
    /\ IF context = None
       THEN Step(r, [req[r] EXCEPT !.pc = "insert"])
       ELSE /\ Free(r, <<"context">>)
            /\ Step(r, [req[r] EXCEPT !.pc = "commit", !.locks = Locked(r), !.saved = TRUE])
    /\ Local

\* or inserted; the primary key refuses a second row.
InsertContext(r) ==
    /\ At(r, "insert") /\ \A lock \in Wants(r) : Free(r, lock)
    /\ IF context # None THEN Rollback(r)
       ELSE /\ Step(r, [req[r] EXCEPT !.pc = "commit", !.locks = Locked(r), !.saved = TRUE])
            /\ Local

\* Mutant: a generation of an existing post is not flushed.
PublishedNewOnly(r) ==
    IF req[r].made THEN {Append(posts, [id |-> r, generations |-> <<req[r].generation>>])}
    ELSE {posts}

\* created_at is the start of the creating transaction, so among posts created
\* by overlapping requests any may be the newest.
Published(r) ==
    LET new == [id |-> r, generations |-> <<req[r].generation>>]
    IN  IF req[r].made
        THEN {SubSeq(posts, 1, i) \o <<new>> \o SubSeq(posts, i + 1, Len(posts)) : i \in 0 .. Len(posts)}
        ELSE {[k \in DOMAIN posts |->
                 IF posts[k].id = req[r].post /\ req[r].generation # None
                 THEN [posts[k] EXCEPT !.generations = Append(@, req[r].generation)]
                 ELSE posts[k]]}

Commit(r) ==
    /\ At(r, "commit")
    /\ messages' = messages \o req[r].said
    /\ context' = IF req[r].saved THEN req[r].context ELSE context
    /\ posts' \in Published(r)
    /\ told' = IF IsTurn(r) THEN req[r].stated ELSE told
    /\ Step(r, Idle)
    /\ UNCHANGED overlapped

\* A provider or database error, or a lost connection, at any statement.
Fail(r) == ~ At(r, "idle") /\ Rollback(r)

\* PostgreSQL fails one transaction of a cycle of waits.
BreakDeadlock(r) ==
    /\ \E cycle \in SUBSET Requests :
         r \in cycle /\ \A q \in cycle : \E p \in cycle : WaitsFor(q, p)
    /\ Rollback(r)

\* A step that waits for a lock, and one that does not.
Acquire(r) ==
    \/ AppendUser(r) \/ CreatePost(r) \/ RequestGeneration(r) \/ AppendAssistant(r)
    \/ SaveContext(r) \/ InsertContext(r)

Proceed(r) ==
    \/ \E text \in Texts : \E c \in Classifications[text] : req[r].text = text /\ Understand(r, c)
    \/ FindPost(r) \/ Commit(r)

Next ==
    \/ \E text \in Texts : StoreMessage(text)
    \/ \E r \in Requests :
         \/ \E text \in Texts : StartTurn(r, text)
         \/ StartStoredTurn(r) \/ StartCommand(r)
         \/ Acquire(r) \/ Proceed(r) \/ Fail(r) \/ BreakDeadlock(r)

Spec == Init /\ [][Next]_vars

----------------------------------------------------------------------------
TypeOK ==
    /\ messages \in Seq(Message)
    /\ context \in {None} \cup Context(Ref)
    /\ posts \in Seq(Post)
    /\ req \in [Requests -> Request]
    /\ told \in Update /\ overlapped \in BOOLEAN

AllGenerations == UNION {{posts[k].id} \X DOMAIN posts[k].generations : k \in DOMAIN posts}
Remembered ==
    IF context = None THEN {}
    ELSE {context.generated_posts[i].generation : i \in DOMAIN context.generated_posts}

\* A retried or doubled request never queues a post's work twice: no two
\* generations of one post have the same idempotency key.
OneGenerationPerKey ==
    \A k \in DOMAIN posts : \A i, j \in DOMAIN posts[k].generations :
        posts[k].generations[i].key = posts[k].generations[j].key => i = j

\* A turn is kept whole or not at all: the answer to a message sent with a turn
\* follows it directly, and a generation a turn started has its message and its
\* answer in the conversation.
TurnsWhole ==
    /\ \A i \in DOMAIN messages :
         messages[i].role = "user" /\ ~ messages[i].alone =>
            i + 1 \in DOMAIN messages /\ messages[i + 1].answers = i
    /\ \A k \in DOMAIN posts : \A i \in DOMAIN posts[k].generations :
         LET key == posts[k].generations[i].key
         IN  key[1] = "turn" => \E j \in DOMAIN messages : messages[j].answers = key[2]

\* The workflow is given only what the client said: no brief holds the goal
\* that was inferred, a name that no message of the conversation contains, or a
\* language that the client did not write, whatever the classifier claims.
BriefsAreStated ==
    \A k \in DOMAIN posts : \A i \in DOMAIN posts[k].generations :
        LET brief == posts[k].generations[i].brief
        IN  /\ brief["goal"] # Promotion
            /\ LanguageTyped(brief["language"], UserTexts(Len(messages)))
            /\ \A f \in QuotedFields :
                 brief[f] # None => \E t \in UserTexts(Len(messages)) : brief[f] \in t.words

\* What the context remembers of earlier work exists, whatever requests failed
\* in between.
RefsExist ==
    context # None => \A i \in DOMAIN context.generated_posts :
        LET ref == context.generated_posts[i]
        IN  ref.generation \in AllGenerations /\ ref.revises \in AllGenerations \cup {None}

\* As long as requests follow one another, a fact survives every later turn
\* unless one replaces it.
FactsKept ==
    ~ overlapped /\ context # None =>
        \A f \in Fields \ context.inferred : context.facts[f] = told[f]

\* As long as requests follow one another, a conversation has one post, its
\* context lists every generation once, and a revision names an earlier one.
WorkRemembered ==
    ~ overlapped =>
        /\ Len(posts) <= 1 /\ Remembered = AllGenerations
        /\ context # None => \A i, j \in DOMAIN context.generated_posts :
             LET refs == context.generated_posts
             IN  /\ refs[i].generation = refs[j].generation => i = j
                 /\ refs[i].revises = refs[j].generation => j < i

\* A request that fails or deadlocks after it queued work leaves nothing of the turn
\* behind: messages, work and context appear together.
ConversationIsWhole == TypeOK /\ TurnsWhole /\ RefsExist

\* Requests that follow one another forget neither a fact nor a generation.
NothingForgotten == FactsKept /\ WorkRemembered
=============================================================================
