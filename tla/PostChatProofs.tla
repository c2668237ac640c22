---------------------------- MODULE PostChatProofs ----------------------------
(***************************************************************************)
(* Proofs that concurrent requests to one conversation never queue a post's   *)
(* work twice, leave whole turns or nothing, remember only work that exists    *)
(* and hand over only what the client said: for any number of requests,        *)
(* texts, classifications and any page of history, with failures and          *)
(* deadlocks at every statement.  Requests that follow one another also forget *)
(* nothing, in any conversation that fits the page.                          *)
(*                                                                          *)
(* The argument: what a request is going to write is checked against state     *)
(* that a lock keeps as it was.  The number of the message a turn stores is    *)
(* the next one as long as the turn holds the conversation (Spoken); the key   *)
(* and the number of a generation are new as long as the request holds its     *)
(* post (Queued); and a post that was created is found under no other name      *)
(* (Posted).  Nothing else in a request depends on what others commit: posts,   *)
(* generations and messages are never removed.                               *)
(***************************************************************************)
EXTENDS PostChat, SequenceTheorems, FiniteSetTheorems, TLAPS

Conversation == <<"conversation">>
PostLock(p) == <<"post", p>>

\* Places after the reply was appended, and after the turn was understood.
Answered == {"save", "insert", "commit"}
Decided == {"find", "create", "request", "answer"} \cup Answered

UserMessage(text) == [role |-> "user", text |-> text, answers |-> 0, alone |-> FALSE]
AssistantMessage(n) == [role |-> "assistant", text |-> None, answers |-> n, alone |-> FALSE]

\* What a turn stores: its own message, the next of the conversation while the
\* conversation is locked, or an answer to a message that is stored.
NewTurn(q) ==
    /\ Conversation \in q.locks /\ q.message = Len(messages) + 1
    /\ q.said = (IF q.pc \in Answered THEN <<UserMessage(q.text), AssistantMessage(q.message)>>
                 ELSE <<UserMessage(q.text)>>)
StoredTurn(q) ==
    /\ q.message \in 1 .. Len(messages)
    /\ messages[q.message].role = "user" /\ messages[q.message].text = q.text
    /\ IF q.pc \in Answered THEN q.said = <<AssistantMessage(q.message)>> /\ Conversation \in q.locks
       ELSE q.said = <<>>
Spoken(q) ==
    /\ q.seen <= Len(messages)
    /\ q.pc = "idle" => q = Idle
    /\ q.pc = "append" => q.said = <<>> /\ q.message = 0 /\ q.text # None
    /\ q.message = 0 => q.said = <<>>
    /\ q.message = 0 /\ q.pc \in Decided => q.text = None
    /\ q.pc \in {"understand", "answer"} => q.message > 0
    /\ q.message > 0 => q.text # None /\ (NewTurn(q) \/ StoredTurn(q))

\* The post a request works on, created by itself or committed by another.
Unnamed(r) == \A k \in DOMAIN posts : posts[k].id # r
Posted(r, q) ==
    /\ q.pc = "create" \/ q.made => Unnamed(r)
    /\ q.pc \notin {"request", "answer"} \cup Answered => q.made = FALSE /\ q.generation = None /\ q.post = None
    /\ q.pc = "request" => q.post # None /\ q.generation = None
    /\ q.made => q.post = r
    /\ ~ q.made /\ q.post # None => ~ Unnamed(q.post)

\* The generation a request is going to queue is new, and its post is locked.
Queued(q) ==
    /\ q.made /\ q.pc # "request" => q.generation # None
    /\ q.generation # None =>
         /\ q.post # None /\ PostLock(q.post) \in q.locks
         /\ \A i \in DOMAIN Attempts(q.post) : Attempts(q.post)[i].key # q.generation.key
         /\ q.generation.key[1] = "turn" => q.message > 0 /\ q.generation.key[2] = q.message

Upcoming(q) == IF q.generation = None THEN {} ELSE {<<q.post, Len(Attempts(q.post)) + 1>>}
Recalls(q) ==
    \A i \in DOMAIN q.context.generated_posts :
       LET ref == q.context.generated_posts[i]
       IN  /\ ref.generation \in AllGenerations \cup Upcoming(q)
           /\ ref.revises \in AllGenerations \cup Upcoming(q) \cup {None}

\* A context, or a brief, that holds only what some message contains.
Said(n, text) == UserTexts(n) \cup (IF text = None THEN {} ELSE {text})
Grounded(facts, texts) ==
    \A f \in QuotedFields : facts[f] # None => \E t \in texts : facts[f] \in t.words
Stands(facts, texts) == Grounded(facts, texts) /\ LanguageTyped(facts["language"], texts)
Marked(c) == c.facts["goal"] = Promotion => "goal" \in c.inferred
Sourced(q) ==
    /\ Marked(q.context) /\ Stands(q.context.facts, Said(Len(messages), q.text))
    /\ q.generation # None =>
         q.generation.brief["goal"] # Promotion /\ Stands(q.generation.brief, Said(Len(messages), q.text))

RequestInv(r, q) ==
    /\ q \in Request /\ Spoken(q) /\ Posted(r, q) /\ Queued(q)
    /\ q.pc \in Decided => q.context \in Context(Ref) /\ Recalls(q) /\ Sourced(q)

Exclusive(lock) == \A p, q \in Requests : lock \in req[p].locks /\ lock \in req[q].locks => p = q
LockInv == Exclusive(Conversation) /\ \A p \in Requests : Exclusive(PostLock(p))

DistinctPosts == \A k, l \in DOMAIN posts : posts[k].id = posts[l].id => k = l

Worded == \A i \in DOMAIN messages : messages[i].role = "user" => messages[i].text \in Texts

Committed ==
    /\ messages \in Seq(Message) /\ context \in {None} \cup Context(Ref) /\ posts \in Seq(Post)
    /\ told \in Update /\ overlapped \in BOOLEAN
    /\ Worded /\ DistinctPosts /\ OneGenerationPerKey /\ TurnsWhole /\ RefsExist /\ BriefsAreStated
    /\ context # None => Marked(context) /\ Stands(context.facts, UserTexts(Len(messages)))

\* The inductive invariant.
Inv ==
    /\ Committed /\ LockInv
    /\ DOMAIN req = Requests /\ \A r \in Requests : RequestInv(r, req[r])
    /\ req \in [Requests -> Request]

----------------------------------------------------------------------------
(* Facts about the model's operators. *)

\* The generations of a post, and of one that is not there.
LEMMA AttemptsOf ==
    ASSUME DistinctPosts, NEW k \in DOMAIN posts
    PROVE  Attempts(posts[k].id) = posts[k].generations
<1> DEFINE at == {l \in DOMAIN posts : posts[l].id = posts[k].id}
<1>1. at = {k}
  BY DEF DistinctPosts
<1>2. (CHOOSE l \in at : TRUE) = k
  BY <1>1
<1> QED BY <1>1, <1>2 DEF Attempts

LEMMA AttemptsOfNone ==
    ASSUME NEW p, Unnamed(p)
    PROVE  Attempts(p) = <<>>
BY DEF Attempts, Unnamed

LEMMA AttemptsType ==
    ASSUME posts \in Seq(Post), DistinctPosts, NEW p
    PROVE  Attempts(p) \in Seq(Generation)
<1>1. CASE Unnamed(p)
  <2>1. <<>> \in Seq(Generation)
    OBVIOUS
  <2> QED BY <1>1, <2>1, AttemptsOfNone
<1>2. CASE ~ Unnamed(p)
  <2>1. PICK k \in DOMAIN posts : posts[k].id = p
    BY <1>2 DEF Unnamed
  <2>2. posts[k] \in Post
    BY <2>1
  <2> QED BY <2>1, <2>2, AttemptsOf DEF Post
<1> QED BY <1>1, <1>2

LEMMA InAllGenerations ==
    ASSUME NEW g
    PROVE  g \in AllGenerations <=>
             \E k \in DOMAIN posts : g \in {posts[k].id} \X DOMAIN posts[k].generations
<1> DEFINE family == {{posts[k].id} \X DOMAIN posts[k].generations : k \in DOMAIN posts}
<1>1. AllGenerations = UNION family
  BY DEF AllGenerations
<1>2. \A x : x \in family <=> \E k \in DOMAIN posts : x = {posts[k].id} \X DOMAIN posts[k].generations
  OBVIOUS
<1> HIDE DEF family
<1>3. g \in AllGenerations <=> \E x \in family : g \in x
  BY <1>1
<1>4. ASSUME NEW k \in DOMAIN posts, g \in {posts[k].id} \X DOMAIN posts[k].generations
      PROVE  g \in AllGenerations
  <2>1. PICK x : x = {posts[k].id} \X DOMAIN posts[k].generations
    OBVIOUS
  <2>2. x \in family /\ g \in x
    BY <1>2, <1>4, <2>1
  <2> QED BY <1>3, <2>2
<1>5. ASSUME g \in AllGenerations
      PROVE  \E k \in DOMAIN posts : g \in {posts[k].id} \X DOMAIN posts[k].generations
  <2>1. PICK x \in family : g \in x
    BY <1>3, <1>5
  <2>2. PICK k \in DOMAIN posts : x = {posts[k].id} \X DOMAIN posts[k].generations
    BY <1>2, <2>1
  <2> QED BY <2>1, <2>2
<1> QED BY <1>4, <1>5

LEMMA GenerationIsListed ==
    ASSUME DistinctPosts, NEW p, ~ Unnamed(p), NEW i \in DOMAIN Attempts(p)
    PROVE  <<p, i>> \in AllGenerations
<1>1. PICK k \in DOMAIN posts : posts[k].id = p
  BY DEF Unnamed
<1>2. Attempts(p) = posts[k].generations
  BY <1>1, AttemptsOf
<1> QED BY <1>1, <1>2, InAllGenerations

LEMMA InUserTexts ==
    ASSUME NEW n, NEW t
    PROVE  t \in UserTexts(n) <=> \E i \in 1 .. n : messages[i].role = "user" /\ t = messages[i].text
BY DEF UserTexts, WrittenBy

\* What was written is text, and more of it holds no fewer Albanian words.
LEMMA WrittenTexts ==
    ASSUME NEW list, NEW n, \A i \in 1 .. n : list[i].role = "user" => list[i].text \in Texts
    PROVE  WrittenBy(list, n) \subseteq Text
BY ChatConstants DEF WrittenBy

LEMMA MarkersGrow ==
    ASSUME NEW S, NEW T, S \subseteq T, T \subseteq Text
    PROVE  Cardinality(UNION {t.markers : t \in S}) <= Cardinality(UNION {t.markers : t \in T})
           /\ Cardinality(UNION {t.markers : t \in S}) \in Nat /\ Cardinality(UNION {t.markers : t \in T}) \in Nat
<1>1. PICK a : a = UNION {t.markers : t \in S}
  OBVIOUS
<1>2. PICK b : b = UNION {t.markers : t \in T}
  OBVIOUS
<1>3. \A t \in T : t.markers \subseteq Marker
  BY DEF Text
<1>4. a \subseteq b /\ b \subseteq Marker
  BY <1>1, <1>2, <1>3
<1>5. IsFiniteSet(b)
  BY <1>4, RoutingConstants, FS_Subset
<1> QED BY <1>1, <1>2, <1>4, <1>5, FS_Subset, FS_CardinalityType

LEMMA LanguageMore ==
    ASSUME NEW language, NEW S, NEW T, S \subseteq T, T \subseteq Text, LanguageTyped(language, S)
    PROVE  LanguageTyped(language, T)
<1>1. DetectsAlbanian(S) => DetectsAlbanian(T)
  <2>1. PICK m \in Nat : m = Cardinality(UNION {t.markers : t \in S})
    BY MarkersGrow
  <2>2. PICK n \in Nat : n = Cardinality(UNION {t.markers : t \in T})
    BY MarkersGrow
  <2>3. m <= n
    BY <2>1, <2>2, MarkersGrow
  <2> QED BY <2>1, <2>2, <2>3 DEF DetectsAlbanian
<1> QED BY <1>1 DEF LanguageTyped

----------------------------------------------------------------------------
(* What a step of one request must keep. *)

LEMMA RequestFrame ==
    ASSUME NEW r, NEW q, RequestInv(r, q), UNCHANGED <<messages, posts>>
    PROVE  RequestInv(r, q)'
<1>1. Spoken(q)'
  BY DEF RequestInv, Spoken, NewTurn, StoredTurn
<1>2. Posted(r, q)'
  BY DEF RequestInv, Posted, Unnamed
<1>3. \A p : Attempts(p)' = Attempts(p)
  BY DEF Attempts
<1>4. Queued(q)'
  BY <1>3 DEF RequestInv, Queued
<1>5. AllGenerations' = AllGenerations /\ Upcoming(q)' = Upcoming(q)
  BY <1>3 DEF AllGenerations, Upcoming
<1>6. q.pc \in Decided => Recalls(q)'
  BY <1>5 DEF RequestInv, Recalls
<1>7. Said(Len(messages), q.text)' = Said(Len(messages), q.text)
  BY DEF Said, UserTexts
<1>8. q.pc \in Decided => Sourced(q)'
  BY <1>7 DEF RequestInv, Sourced
<1> QED BY <1>1, <1>2, <1>4, <1>6, <1>8 DEF RequestInv

LEMMA CommittedFrame ==
    ASSUME Committed, UNCHANGED <<messages, context, posts, told>>, overlapped' \in BOOLEAN
    PROVE  Committed'
<1>1. AllGenerations' = AllGenerations /\ UserTexts(Len(messages))' = UserTexts(Len(messages))
  BY DEF AllGenerations, UserTexts
<1>2. Worded' /\ DistinctPosts' /\ OneGenerationPerKey' /\ TurnsWhole'
  BY DEF Committed, Worded, DistinctPosts, OneGenerationPerKey, TurnsWhole
<1>3. RefsExist' /\ BriefsAreStated'
  BY <1>1 DEF Committed, RefsExist, BriefsAreStated
<1>4. context' # None => Marked(context') /\ Stands(context'.facts, UserTexts(Len(messages))')
  BY <1>1 DEF Committed, Marked
<1> QED BY <1>2, <1>3, <1>4 DEF Committed, Marked

\* A request takes only locks that no other request holds.
LEMMA LockStep ==
    ASSUME LockInv, NEW r \in Requests, NEW next, DOMAIN req = Requests, req' = [req EXCEPT ![r] = next],
           \A lock \in next.locks : lock \in req[r].locks \/ lock \in {<<"key share">>, <<"context">>}
              \/ \A q \in Requests \ {r} : lock \notin req[q].locks
    PROVE  LockInv'
<1>1. req'[r] = next /\ \A q \in Requests \ {r} : req'[q] = req[q]
  OBVIOUS
<1>2. ASSUME NEW lock, Exclusive(lock), lock \notin {<<"key share">>, <<"context">>} PROVE Exclusive(lock)'
  BY <1>1, <1>2 DEF Exclusive
<1>3. Conversation \notin {<<"key share">>, <<"context">>}
  BY DEF Conversation
<1>4. \A p : PostLock(p) \notin {<<"key share">>, <<"context">>}
  BY DEF PostLock
<1>5. Exclusive(Conversation)'
  BY <1>2, <1>3 DEF LockInv
<1>6. \A p \in Requests : Exclusive(PostLock(p))'
  BY <1>2, <1>4 DEF LockInv
<1> QED BY <1>5, <1>6 DEF LockInv

LEMMA RequestStep ==
    ASSUME Inv, NEW r \in Requests, NEW next, req' = [req EXCEPT ![r] = next],
           UNCHANGED <<messages, context, posts, told>>, overlapped' \in BOOLEAN, RequestInv(r, next),
           \A lock \in next.locks : lock \in req[r].locks \/ lock \in {<<"key share">>, <<"context">>}
              \/ \A q \in Requests \ {r} : lock \notin req[q].locks
    PROVE  Inv'
<1>1. Committed' /\ LockInv'
  BY CommittedFrame, LockStep DEF Inv
<1>2. DOMAIN req' = Requests /\ req'[r] = next /\ \A q \in Requests \ {r} : req'[q] = req[q]
  BY DEF Inv
<1>3. ASSUME NEW p \in Requests PROVE RequestInv(p, req[p])'
  <2>1. PICK q : q = req'[p]
    OBVIOUS
  <2>2. RequestInv(p, q)
    BY <1>2, <2>1 DEF Inv
  <2>3. RequestInv(p, q)'
    BY <2>2, RequestFrame
  <2> QED BY <2>1, <2>3
<1>4. req' \in [Requests -> Request]
  BY DEF Inv, RequestInv
<1> QED BY <1>1, <1>2, <1>3, <1>4 DEF Inv

\* A request that fails at any statement leaves nothing behind.
LEMMA IdleType == Idle \in Request
BY DEF Idle, Request, PCs, NoUpdate, Update

LEMMA IdleInv == ASSUME messages \in Seq(Message), NEW r PROVE RequestInv(r, Idle)
<1>1. Idle \in Request
  BY IdleType
<1>2. Idle.pc = "idle" /\ Idle.made = FALSE /\ Idle.generation = None /\ Idle.post = None
      /\ Idle.message = 0 /\ Idle.said = <<>> /\ Idle.locks = {} /\ Idle.seen = 0
  BY DEF Idle
<1>3. Spoken(Idle)
  BY <1>2 DEF Spoken, Decided, Answered
<1>4. Posted(r, Idle) /\ Queued(Idle)
  BY <1>2 DEF Posted, Queued, Answered
<1> QED BY <1>1, <1>2, <1>3, <1>4 DEF RequestInv, Decided, Answered

LEMMA IdleKept == ASSUME messages' \in Seq(Message), NEW r PROVE RequestInv(r, Idle)'
<1>1. Idle \in Request /\ Len(messages') \in Nat
  BY IdleType
<1>2. Idle.pc = "idle" /\ Idle.made = FALSE /\ Idle.generation = None /\ Idle.post = None
      /\ Idle.message = 0 /\ Idle.said = <<>> /\ Idle.locks = {} /\ Idle.seen = 0
  BY DEF Idle
<1>3. Spoken(Idle)'
  BY <1>1, <1>2 DEF Spoken, Decided, Answered
<1>4. Posted(r, Idle)' /\ Queued(Idle)'
  BY <1>2 DEF Posted, Queued, Answered
<1> QED BY <1>1, <1>2, <1>3, <1>4 DEF RequestInv, Decided, Answered

LEMMA RollbackStep ==
    ASSUME Inv, NEW r \in Requests, Rollback(r) PROVE Inv'
<1>1. Idle.locks = {}
  BY DEF Idle
<1> QED BY <1>1, IdleInv, RequestStep DEF Rollback, Step, Local, Inv, Committed

LEMMA ContextType ==
    ASSUME NEW G, NEW facts \in Update, NEW inferred \in SUBSET Fields, NEW n \in Nat, NEW list \in Seq(G)
    PROVE  [facts |-> facts, inferred |-> inferred, explicit_generation_requests |-> n,
            generated_posts |-> list] \in Context(G)
BY DEF Context

LEMMA PageType ==
    ASSUME messages \in Seq(Message)
    PROVE  Page \in 0 .. Len(messages) /\ (Len(messages) > 0 => Page > 0)
<1>1. Len(messages) \in Nat /\ HistoryLimit \in Nat \ {0}
  BY ChatConstants
<1> QED BY <1>1 DEF Page

----------------------------------------------------------------------------
(* A request begins. *)

LEMMA StartTurnStep ==
    ASSUME Inv, NEW r \in Requests, NEW text \in Texts, StartTurn(r, text) PROVE Inv'
<1>1. PICK next : next = [Idle EXCEPT !.pc = "append", !.seen = Page, !.text = text]
  OBVIOUS
<1>2. Page \in Nat /\ Page <= Len(messages)
  BY PageType DEF Inv, Committed
<1>3. next \in Request
  BY <1>1, <1>2, IdleType DEF Request, PCs
<1>4. next.pc = "append" /\ next.made = FALSE /\ next.generation = None /\ next.post = None
      /\ next.message = 0 /\ next.said = <<>> /\ next.locks = {} /\ next.text = text
      /\ next.seen = Page
  BY <1>1 DEF Idle
<1>5. Spoken(next)
  BY <1>2, <1>4, ChatConstants DEF Spoken, Decided, Answered
<1>6. Posted(r, next) /\ Queued(next)
  BY <1>4 DEF Posted, Queued, Answered
<1>7. RequestInv(r, next)
  BY <1>3, <1>4, <1>5, <1>6 DEF RequestInv, Decided, Answered
<1>8. overlapped' \in BOOLEAN
  BY DEF StartTurn, Begin, Inv, Committed
<1> QED BY <1>1, <1>4, <1>7, <1>8, RequestStep DEF StartTurn, Begin, Step

LEMMA StartStoredTurnStep ==
    ASSUME Inv, NEW r \in Requests, StartStoredTurn(r) PROVE Inv'
<1>1. PICK next : next = [Idle EXCEPT !.pc = "understand", !.seen = Page, !.message = Page,
                                      !.text = messages[Page].text]
  OBVIOUS
<1>2. messages \in Seq(Message) /\ Worded /\ overlapped \in BOOLEAN
  BY DEF Inv, Committed
<1>3. Len(messages) \in Nat /\ Page \in 1 .. Len(messages) /\ Page \in Nat /\ messages[Page].role = "user"
  BY <1>2, PageType DEF StartStoredTurn
<1>4. messages[Page].text \in Texts
  BY <1>2, <1>3 DEF Worded
<1>5. next \in Request
  BY <1>1, <1>3, <1>4, IdleType DEF Request, PCs
<1>6. next.pc = "understand" /\ next.made = FALSE /\ next.generation = None /\ next.post = None
      /\ next.message = Page /\ next.said = <<>> /\ next.locks = {} /\ next.text = messages[Page].text
      /\ next.seen = Page
  BY <1>1 DEF Idle
<1>7. StoredTurn(next)
  BY <1>3, <1>6 DEF StoredTurn, Answered
<1>8. Spoken(next)
  BY <1>3, <1>4, <1>6, <1>7, ChatConstants DEF Spoken, Decided, Answered
<1>9. Posted(r, next) /\ Queued(next)
  BY <1>6 DEF Posted, Queued, Answered
<1>10. RequestInv(r, next)
  BY <1>5, <1>6, <1>8, <1>9 DEF RequestInv, Decided, Answered
<1>11. overlapped' \in BOOLEAN
  BY <1>2 DEF StartStoredTurn, Begin
<1> QED BY <1>1, <1>6, <1>10, <1>11, RequestStep DEF StartStoredTurn, Begin, Step

\* What a request reads of the committed context.
LEMMA KnownContext ==
    ASSUME Inv, NEW known, known = IF context = None THEN NewContext ELSE context
    PROVE  /\ known \in Context(Ref) /\ Marked(known) /\ Stands(known.facts, UserTexts(Len(messages)))
           /\ \A i \in DOMAIN known.generated_posts :
                 /\ known.generated_posts[i].generation \in AllGenerations
                 /\ known.generated_posts[i].revises \in AllGenerations \cup {None}
<1>1. CASE context = None
  <2>1. known = NewContext
    BY <1>1
  <2>2. NoUpdate \in Update /\ \A f \in Fields : NoUpdate[f] = None
    BY DEF NoUpdate, Update
  <2>3. <<>> \in Seq(Ref)
    OBVIOUS
  <2>4. known \in Context(Ref)
    <3>1. known = [facts |-> NoUpdate, inferred |-> {}, explicit_generation_requests |-> 0,
                   generated_posts |-> <<>>]
      BY <2>1 DEF NewContext
    <3>2. {} \in SUBSET Fields /\ 0 \in Nat
      OBVIOUS
    <3> QED BY <2>2, <2>3, <3>1, <3>2, ContextType
  <2>5. known.facts = NoUpdate /\ known.generated_posts = <<>>
    BY <2>1 DEF NewContext
  <2>6. Marked(known)
    BY <2>2, <2>5, RoutingConstants DEF Marked, Fields
  <2>7. Stands(known.facts, UserTexts(Len(messages)))
    BY <2>2, <2>5 DEF Stands, LanguageTyped, Grounded, QuotedFields, Subjects, Fields
  <2> QED BY <2>4, <2>5, <2>6, <2>7
<1>2. CASE context # None
  BY <1>2 DEF Inv, Committed, RefsExist
<1> QED BY <1>1, <1>2

LEMMA StartCommandStep ==
    ASSUME Inv, NEW r \in Requests, StartCommand(r) PROVE Inv'
<1>1. PICK known : known = IF context = None THEN NewContext ELSE context
  OBVIOUS
<1>2. PICK action \in {"generate", "revise"} : action = IF HasGeneration(known) THEN "revise" ELSE "generate"
  OBVIOUS
<1>3. PICK next : next = [Idle EXCEPT !.pc = "find", !.seen = Page, !.context = known, !.action = action]
  OBVIOUS
<1>4. Page \in Nat /\ Page <= Len(messages) /\ overlapped \in BOOLEAN
  BY PageType DEF Inv, Committed
<1>5. /\ known \in Context(Ref) /\ Marked(known) /\ Stands(known.facts, UserTexts(Len(messages)))
      /\ \A i \in DOMAIN known.generated_posts :
            /\ known.generated_posts[i].generation \in AllGenerations
            /\ known.generated_posts[i].revises \in AllGenerations \cup {None}
  BY <1>1, KnownContext
<1>6. next \in Request
  BY <1>2, <1>3, <1>4, <1>5, IdleType, ZenonT(60) DEF Request, PCs, Actions
<1>7. next.pc = "find" /\ next.made = FALSE /\ next.generation = None /\ next.post = None /\ next.text = None
      /\ next.message = 0 /\ next.said = <<>> /\ next.locks = {} /\ next.context = known
      /\ next.seen = Page
  BY <1>3 DEF Idle
<1>8. Spoken(next)
  BY <1>4, <1>7 DEF Spoken, Decided, Answered
<1>9. Posted(r, next) /\ Queued(next)
  BY <1>7 DEF Posted, Queued, Answered
<1>10. Recalls(next)
  BY <1>5, <1>7 DEF Recalls
<1>11. Sourced(next)
  BY <1>5, <1>7 DEF Sourced, Said
<1>12. RequestInv(r, next)
  BY <1>5, <1>6, <1>7, <1>8, <1>9, <1>10, <1>11 DEF RequestInv
<1>13. overlapped' \in BOOLEAN
  BY <1>4 DEF StartCommand, Begin
<1>14. req' = [req EXCEPT ![r] = next]
  BY <1>1, <1>2, <1>3 DEF StartCommand, Begin, Step
<1> QED BY <1>7, <1>12, <1>13, <1>14, RequestStep DEF StartCommand, Begin

----------------------------------------------------------------------------
(* The locks a request takes. *)

LEMMA FreeLock ==
    ASSUME NEW r, NEW lock, lock # <<"key share">>, Free(r, lock)
    PROVE  \A q \in Requests \ {r} : lock \notin req[q].locks
<1>1. lock \in Excludes(lock)
  <2>1. CASE lock = <<"conversation">>
    BY <2>1 DEF Excludes
  <2>2. CASE lock # <<"conversation">>
    BY <2>2 DEF Excludes
  <2> QED BY <2>1, <2>2
<1> QED BY <1>1 DEF Free, BlockedBy

LEMMA LockedConversation ==
    ASSUME NEW r, req[r].pc \in {"append", "answer"}
    PROVE  Locked(r) = req[r].locks \cup {Conversation}
BY DEF Locked, Wants, Conversation, At

LEMMA LockedKeyShare ==
    ASSUME NEW r, req[r].pc = "create"
    PROVE  Locked(r) = req[r].locks \cup {<<"key share">>}
BY DEF Locked, Wants, At

LEMMA LockedPost ==
    ASSUME NEW r, req[r].pc = "request"
    PROVE  Locked(r) = req[r].locks \cup {PostLock(req[r].post)}
BY DEF Locked, Wants, At, PostLock

LEMMA LockedContext ==
    ASSUME NEW r, req[r].pc = "save" \/ req[r].pc = "insert"
    PROVE  Locked(r) \subseteq req[r].locks \cup {<<"key share">>, <<"context">>}
<1>1. CASE req[r].pc = "save"
  BY <1>1 DEF Locked, Wants, At
<1>2. CASE req[r].pc = "insert"
  BY <1>2 DEF Locked, Wants, At
<1> QED BY <1>1, <1>2

----------------------------------------------------------------------------
(* A turn stores its message. *)

LEMMA AppendUserStep ==
    ASSUME Inv, NEW r \in Requests, AppendUser(r) PROVE Inv'
<1>1. PICK q : q = req[r]
  OBVIOUS
<1>2. PICK next : next = [q EXCEPT !.pc = "understand", !.locks = Locked(r), !.message = Len(messages) + 1,
                                   !.said = <<UserMessage(q.text)>>]
  OBVIOUS
<1>3. req' = [req EXCEPT ![r] = next]
  BY <1>1, <1>2 DEF AppendUser, Step, UserMessage
<1>4. RequestInv(r, q) /\ q \in Request /\ q.pc = "append"
  BY <1>1 DEF Inv, RequestInv, AppendUser, At
<1>5. Locked(r) = q.locks \cup {Conversation}
  BY <1>1, <1>4, LockedConversation
<1>6. q.text \in Texts
  BY <1>4 DEF RequestInv, Spoken, Request
<1>7. Len(messages) \in Nat
  BY DEF Inv, Committed
<1>8. <<UserMessage(q.text)>> \in Seq(Message)
  <2>1. UserMessage(q.text) \in Message
    BY <1>6 DEF UserMessage, Message
  <2> QED BY <2>1
<1>9. Locked(r) \in SUBSET Locks
  BY <1>4, <1>5 DEF Request, Locks, Conversation
<1>10. next \in Request
  <2>1. "understand" \in PCs /\ Len(messages) + 1 \in Nat
    BY <1>7 DEF PCs
  <2> QED BY <1>2, <1>4, <1>8, <1>9, <2>1 DEF Request
<1>11. next.pc = "understand" /\ next.made = q.made /\ next.generation = q.generation /\ next.post = q.post
      /\ next.message = Len(messages) + 1 /\ next.said = <<UserMessage(q.text)>> /\ next.text = q.text
      /\ next.locks = q.locks \cup {Conversation} /\ next.seen = q.seen
  BY <1>2, <1>4, <1>5 DEF Request
<1>12. NewTurn(next)
  BY <1>11 DEF NewTurn, Answered
<1>13. Spoken(next)
  <2>1. q.seen <= Len(messages)
    BY <1>4 DEF RequestInv, Spoken
  <2> QED BY <1>6, <1>7, <1>11, <1>12, <2>1, ChatConstants DEF Spoken, Decided, Answered
<1>14. q.made = FALSE /\ q.generation = None /\ q.post = None
  BY <1>4 DEF RequestInv, Posted, Answered
<1>15. Posted(r, next) /\ Queued(next)
  BY <1>11, <1>14 DEF Posted, Queued, Answered
<1>16. RequestInv(r, next)
  BY <1>10, <1>11, <1>13, <1>15 DEF RequestInv, Decided, Answered
<1>17. \A p \in Requests \ {r} : Conversation \notin req[p].locks
  <2>1. Conversation # <<"key share">> /\ Free(r, Conversation)
    BY DEF Conversation, AppendUser
  <2> QED BY <2>1, FreeLock
<1> QED BY <1>1, <1>3, <1>11, <1>16, <1>17, RequestStep DEF AppendUser, Local, Inv, Committed

----------------------------------------------------------------------------
(* A turn is understood: what a message adds to the context was said. *)

LEMMA FieldFacts ==
    /\ QuotedFields \subseteq Fields /\ {"goal", "cta_intent", "language"} \subseteq Fields
    /\ "goal" \notin QuotedFields /\ "cta_intent" \notin QuotedFields /\ "language" \notin QuotedFields
BY DEF QuotedFields, Subjects, Fields

LEMMA GroundFacts ==
    ASSUME NEW update \in Update, NEW texts
    PROVE  /\ Ground(update, texts) \in Update /\ Ground(update, texts)["goal"] = update["goal"]
           /\ Grounded(Ground(update, texts), texts)
<1>1. Ground(update, texts) \in Update
  BY DEF Ground, Update
<1>2. Ground(update, texts)["goal"] = update["goal"]
  BY FieldFacts DEF Ground
<1>3. Grounded(Ground(update, texts), texts)
  BY FieldFacts DEF Ground, Grounded
<1> QED BY <1>1, <1>2, <1>3

\* Merging keeps a context's type, its generations, the mark on an inferred
\* goal and its grounding.
LEMMA MergeFacts ==
    ASSUME NEW c \in Context(Ref), NEW u \in Update, NEW texts, Marked(c), Grounded(c.facts, texts),
           u["goal"] # Promotion, Grounded(u, texts)
    PROVE  LET m == Merge(c, u)
           IN  /\ m \in Context(Ref) /\ m.generated_posts = c.generated_posts
               /\ Marked(m) /\ Grounded(m.facts, texts)
<1> DEFINE stated == {f \in Fields : u[f] # None}
           facts == [f \in Fields |-> IF f \in stated THEN u[f] ELSE c.facts[f]]
<1>1. PICK m : m = Merge(c, u)
  OBVIOUS
<1>2. c.facts \in Update /\ c.inferred \in SUBSET Fields
  BY DEF Context
<1>3. facts \in Update
  BY <1>2 DEF Update
<1>4. m = [c EXCEPT !.facts = facts, !.inferred = c.inferred \ stated]
  BY <1>1 DEF Merge, Context
<1>5. m \in Context(Ref) /\ m.generated_posts = c.generated_posts /\ m.facts = facts
      /\ m.inferred = c.inferred \ stated
  <2> HIDE DEF facts, stated
  <2>1. c.inferred \ stated \in SUBSET Fields
    BY <1>2
  <2> QED BY <1>3, <1>4, <2>1 DEF Context
<1>6. Marked(m)
  BY <1>5, FieldFacts DEF Marked
<1>7. Grounded(m.facts, texts)
  BY <1>5, FieldFacts DEF Grounded
<1> QED BY <1>1, <1>5, <1>6, <1>7

LEMMA RecoveredFacts ==
    ASSUME NEW c, NEW text \in Text, NEW texts
    PROVE  /\ Recovered(c, text) \in Update /\ Recovered(c, text)["goal"] # Promotion
           /\ Grounded(Recovered(c, text), texts)
<1>1. text.goal \in Word \cup {None} /\ text.cta_intent \in Word \cup {None}
  BY DEF Text
<1>2. Recovered(c, text) \in Update
  BY <1>1 DEF Recovered, NoUpdate, Update
<1>3. Recovered(c, text)["goal"] # Promotion
  BY <1>1, FieldFacts, RoutingConstants DEF Recovered, NoUpdate
<1>4. Grounded(Recovered(c, text), texts)
  BY FieldFacts DEF Recovered, NoUpdate, Grounded
<1> QED BY <1>2, <1>3, <1>4

LEMMA LanguageFacts ==
    ASSUME NEW c \in Context(Ref), NEW texts, NEW S, Marked(c), Grounded(c.facts, S)
    PROVE  LET v == VerifyLanguage(c, texts)
           IN  /\ v \in Context(Ref) /\ v.generated_posts = c.generated_posts
               /\ Marked(v) /\ Grounded(v.facts, S) /\ LanguageTyped(v.facts["language"], texts)
<1>1. PICK v : v = VerifyLanguage(c, texts)
  OBVIOUS
<1>2. CASE DetectsAlbanian(texts) /\ v = Merge(c, [NoUpdate EXCEPT !["language"] = "shqip"])
  <2>1. PICK u : u = [NoUpdate EXCEPT !["language"] = "shqip"]
    OBVIOUS
  <2>2. u \in Update /\ u["goal"] = None /\ \A f \in QuotedFields : u[f] = None
    BY <2>1, FieldFacts DEF NoUpdate, Update
  <2>3. u["goal"] # Promotion /\ Grounded(u, S)
    BY <2>2, RoutingConstants DEF Grounded
  <2>4. v.facts["language"] = "shqip"
    <3>1. u["language"] = "shqip"
      BY <2>1, FieldFacts DEF NoUpdate
    <3>2. v.facts = [f \in Fields |-> IF u[f] # None THEN u[f] ELSE c.facts[f]]
      BY <1>2, <2>1 DEF Merge, Context
    <3> QED BY <3>1, <3>2, FieldFacts, RoutingConstants
  <2>5. LanguageTyped(v.facts["language"], texts)
    BY <1>2, <2>4 DEF LanguageTyped
  <2> QED BY <1>1, <1>2, <2>1, <2>2, <2>3, <2>5, MergeFacts, ZenonT(60)
<1>3. CASE c.facts["language"] = "english" /\ v = c
  BY <1>1, <1>3 DEF LanguageTyped
<1>4. CASE v = [c EXCEPT !.facts["language"] = None]
  <2>1. c.facts \in Update
    BY DEF Context
  <2>2. PICK facts : facts = [c.facts EXCEPT !["language"] = None]
    OBVIOUS
  <2>3. facts \in Update /\ facts["goal"] = c.facts["goal"] /\ \A f \in QuotedFields : facts[f] = c.facts[f]
    BY <2>1, <2>2, FieldFacts DEF Update
  <2>4. v = [c EXCEPT !.facts = facts]
    BY <1>4, <2>2
  <2>5. v \in Context(Ref) /\ v.generated_posts = c.generated_posts /\ v.facts = facts /\ v.inferred = c.inferred
    BY <2>3, <2>4 DEF Context
  <2>6. Marked(v) /\ Grounded(v.facts, S)
    BY <2>3, <2>5 DEF Marked, Grounded
  <2>7. facts["language"] = None
    BY <2>1, <2>2, FieldFacts DEF Update
  <2> QED BY <1>1, <2>5, <2>6, <2>7 DEF LanguageTyped
<1> QED BY <1>1, <1>2, <1>3, <1>4 DEF VerifyLanguage

LEMMA CountFacts ==
    ASSUME NEW c \in Context(Ref), NEW text, NEW S, Marked(c), Grounded(c.facts, S)
    PROVE  LET v == CountRequest(c, text)
           IN  /\ v \in Context(Ref) /\ v.generated_posts = c.generated_posts
               /\ v.facts = c.facts /\ v.inferred = c.inferred
               /\ Marked(v) /\ Grounded(v.facts, S)
<1>1. PICK v : v = CountRequest(c, text)
  OBVIOUS
<1>2. v \in Context(Ref) /\ v.generated_posts = c.generated_posts /\ v.facts = c.facts /\ v.inferred = c.inferred
  BY <1>1 DEF CountRequest, Context
<1>3. Marked(v) /\ Grounded(v.facts, S)
  BY <1>2 DEF Marked, Grounded
<1> QED BY <1>1, <1>2, <1>3

LEMMA UnderstoodFacts ==
    ASSUME NEW c \in Context(Ref), NEW text \in Text, NEW texts, NEW S, NEW u \in Update,
           Marked(c), Grounded(c.facts, S), u["goal"] # Promotion, Grounded(u, S)
    PROVE  LET v == Understood(c, text, texts, u)
           IN  /\ v \in Context(Ref) /\ v.generated_posts = c.generated_posts
               /\ Marked(v) /\ Grounded(v.facts, S) /\ LanguageTyped(v.facts["language"], texts)
<1>1. PICK merged : merged = Merge(c, u)
  OBVIOUS
<1>2. merged \in Context(Ref) /\ merged.generated_posts = c.generated_posts /\ Marked(merged) /\ Grounded(merged.facts, S)
  BY <1>1, MergeFacts
<1>3. PICK new : new = Recovered(merged, text)
  OBVIOUS
<1>4. new \in Update /\ new["goal"] # Promotion /\ Grounded(new, S)
  BY <1>3, RecoveredFacts
<1>5. PICK recovered : recovered = Merge(merged, new)
  OBVIOUS
<1>6. recovered \in Context(Ref) /\ recovered.generated_posts = c.generated_posts
      /\ Marked(recovered) /\ Grounded(recovered.facts, S)
  BY <1>2, <1>4, <1>5, MergeFacts
<1>7. PICK verified : verified = VerifyLanguage(recovered, texts)
  OBVIOUS
<1>8. verified \in Context(Ref) /\ verified.generated_posts = c.generated_posts
      /\ Marked(verified) /\ Grounded(verified.facts, S) /\ LanguageTyped(verified.facts["language"], texts)
  BY <1>6, <1>7, LanguageFacts
<1>9. PICK v : v = CountRequest(verified, text)
  OBVIOUS
<1>10. v = Understood(c, text, texts, u)
  BY <1>1, <1>3, <1>5, <1>7, <1>9 DEF Understood
<1>11. v \in Context(Ref) /\ v.generated_posts = c.generated_posts /\ Marked(v) /\ Grounded(v.facts, S)
       /\ LanguageTyped(v.facts["language"], texts)
  BY <1>8, <1>9, CountFacts
<1> QED BY <1>10, <1>11

LEMMA InferredFacts ==
    ASSUME NEW c \in Context(Ref), NEW S, Marked(c), Grounded(c.facts, S)
    PROVE  LET v == WithInferredGoal(c)
           IN  /\ v \in Context(Ref) /\ v.generated_posts = c.generated_posts
               /\ v.facts = [c.facts EXCEPT !["goal"] = Promotion] /\ v.inferred = c.inferred \cup {"goal"}
               /\ Marked(v) /\ Grounded(v.facts, S)
<1>1. PICK v : v = WithInferredGoal(c)
  OBVIOUS
<1>2. c.facts \in Update /\ c.inferred \in SUBSET Fields
  BY DEF Context
<1>3. PICK facts : facts = [c.facts EXCEPT !["goal"] = Promotion]
  OBVIOUS
<1>4. PICK inferred : inferred = c.inferred \cup {"goal"}
  OBVIOUS
<1>5. facts \in Update /\ \A f \in QuotedFields : facts[f] = c.facts[f]
  BY <1>2, <1>3, FieldFacts DEF Update
<1>6. inferred \in SUBSET Fields /\ "goal" \in inferred
  BY <1>2, <1>4, FieldFacts
<1>7. v = [c EXCEPT !.facts = facts, !.inferred = inferred]
  BY <1>1, <1>3, <1>4 DEF WithInferredGoal
<1>8. v \in Context(Ref) /\ v.generated_posts = c.generated_posts /\ v.facts = facts /\ v.inferred = inferred
  BY <1>5, <1>6, <1>7 DEF Context
<1>9. Marked(v) /\ Grounded(v.facts, S)
  BY <1>5, <1>6, <1>8 DEF Marked, Grounded
<1> QED BY <1>1, <1>3, <1>4, <1>8, <1>9

LEMMA RouteType == ASSUME NEW proposed, NEW text, NEW c PROVE Route(proposed, text, c) \in Actions
<1> DEFINE intent == DeterministicIntent(proposed, text, c)
<1> HIDE DEF intent
<1>1. Route(proposed, text, c) =
        CASE intent = "REVISE_POST" /\ HasGeneration(c) -> "revise"
          [] intent = "GENERATE_POST" -> IF RequiresUserInput(c) THEN "ask" ELSE "generate"
          [] intent = "MISSING_INFORMATION" -> "ask"
          [] OTHER -> "reply"
  BY DEF Route, intent
<1> QED BY <1>1 DEF Actions

\* More text grounds no less.
LEMMA GroundedMore ==
    ASSUME NEW facts, NEW S, NEW T, S \subseteq T, Grounded(facts, S) PROVE Grounded(facts, T)
BY DEF Grounded

LEMMA StandsMore ==
    ASSUME NEW facts, NEW S, NEW T, S \subseteq T, T \subseteq Text, Stands(facts, S) PROVE Stands(facts, T)
BY GroundedMore, LanguageMore DEF Stands

LEMMA CommittedTexts ==
    ASSUME Committed PROVE UserTexts(Len(messages)) \subseteq Text
<1>1. DOMAIN messages = 1 .. Len(messages)
  BY DEF Committed
<1> QED BY <1>1, WrittenTexts DEF UserTexts, Committed, Worded

LEMMA UserTextsMore ==
    ASSUME NEW m \in Nat, NEW n \in Nat, m <= n PROVE UserTexts(m) \subseteq UserTexts(n)
<1> SUFFICES ASSUME NEW t \in UserTexts(m) PROVE t \in UserTexts(n)
  OBVIOUS
<1>1. PICK i \in 1 .. m : messages[i].role = "user" /\ t = messages[i].text
  BY InUserTexts
<1>2. i \in 1 .. n
  BY <1>1
<1> QED BY <1>1, <1>2, InUserTexts

LEMMA UnderstandStep ==
    ASSUME Inv, NEW r \in Requests, NEW text \in Texts, NEW classified \in Classifications[text],
           req[r].text = text, Understand(r, classified)
    PROVE  Inv'
<1>1. PICK q : q = req[r]
  OBVIOUS
<1>2. RequestInv(r, q) /\ q \in Request /\ q.pc = "understand" /\ q.text = text
  BY <1>1 DEF Inv, RequestInv, Understand, At
<1>3. PICK texts : texts = UserTexts(q.seen) \cup {text}
  OBVIOUS
<1>4. PICK S : S = Said(Len(messages), text)
  OBVIOUS
<1>5. texts \subseteq S /\ UserTexts(Len(messages)) \subseteq S /\ S \subseteq Text
  <2>1. q.seen \in Nat /\ Len(messages) \in Nat /\ q.seen <= Len(messages)
    BY <1>2 DEF Request, Inv, Committed, RequestInv, Spoken
  <2>2. S = UserTexts(Len(messages)) \cup {text}
    BY <1>4, ChatConstants DEF Said
  <2>3. UserTexts(Len(messages)) \subseteq Text
    BY CommittedTexts DEF Inv
  <2> QED BY <1>3, <2>1, <2>2, <2>3, UserTextsMore, ChatConstants
<1>6. classified.updates \in Update /\ classified.updates["goal"] # Promotion /\ text \in Text
  BY ChatConstants
<1>7. PICK update : update = Ground(classified.updates, texts)
  OBVIOUS
<1>8. update \in Update /\ update["goal"] # Promotion /\ Grounded(update, S)
  <2>1. update \in Update /\ update["goal"] = classified.updates["goal"] /\ Grounded(update, texts)
    BY <1>6, <1>7, GroundFacts
  <2> QED BY <1>5, <1>6, <2>1, GroundedMore
<1>9. PICK known : known = IF context = None THEN NewContext ELSE context
  OBVIOUS
<1>10. /\ known \in Context(Ref) /\ Marked(known) /\ Grounded(known.facts, S)
       /\ \A i \in DOMAIN known.generated_posts :
            /\ known.generated_posts[i].generation \in AllGenerations
            /\ known.generated_posts[i].revises \in AllGenerations \cup {None}
  <2>1. Grounded(known.facts, UserTexts(Len(messages)))
    BY <1>9, KnownContext DEF Stands
  <2>2. Grounded(known.facts, S)
    BY <1>5, <2>1, GroundedMore
  <2> QED BY <1>9, <2>2, KnownContext
<1>11. PICK understood : understood = Understood(known, text, texts, update)
  OBVIOUS
<1>12. understood \in Context(Ref) /\ understood.generated_posts = known.generated_posts
       /\ Marked(understood) /\ Grounded(understood.facts, S)
       /\ LanguageTyped(understood.facts["language"], S)
  BY <1>5, <1>6, <1>8, <1>10, <1>11, UnderstoodFacts, LanguageMore
<1>13. PICK routed \in Actions : routed = Route(classified.intent, text, understood)
  BY RouteType
<1>14. PICK infers \in BOOLEAN : infers = InfersGoal(routed, understood)
  BY DEF InfersGoal
<1>15. PICK action \in Actions : action = IF infers THEN "generate" ELSE routed
  BY DEF Actions
<1>16. PICK new : new = IF infers THEN WithInferredGoal(understood) ELSE understood
  OBVIOUS
<1>17. new \in Context(Ref) /\ new.generated_posts = known.generated_posts
       /\ Marked(new) /\ Stands(new.facts, S)
  <2>1. CASE infers
    <3>1. new = WithInferredGoal(understood)
      BY <1>16, <2>1
    <3>2. new.facts["language"] = understood.facts["language"]
      <4>1. understood.facts \in Update
        BY <1>12 DEF Context
      <4> QED BY <1>12, <3>1, <4>1, InferredFacts, FieldFacts DEF Update
    <3> QED BY <1>12, <3>1, <3>2, InferredFacts DEF Stands
  <2>2. CASE ~ infers
    BY <1>12, <1>16, <2>2 DEF Stands
  <2> QED BY <2>1, <2>2
<1>18. PICK recovered \in Update : recovered = Recovered(Merge(known, update), text)
  BY <1>6, RecoveredFacts
<1>19. PICK stated : stated = Stated(update, recovered, DetectsAlbanian(texts), understood.facts["language"])
  OBVIOUS
<1>20. stated \in Update
  <2>1. understood.facts \in Update /\ told \in Update
    BY <1>12 DEF Context, Inv, Committed
  <2> QED BY <1>8, <1>18, <1>19, <2>1, FieldFacts DEF Update, Stated
<1>21. PICK pc \in {"find", "answer"} : pc = IF action \in {"generate", "revise"} THEN "find" ELSE "answer"
  OBVIOUS
<1>22. PICK next : next = [q EXCEPT !.context = new, !.stated = stated, !.action = action, !.pc = pc]
  OBVIOUS
<1>23. req' = [req EXCEPT ![r] = next]
  BY <1>1, <1>2, <1>3, <1>7, <1>9, <1>11, <1>13, <1>14, <1>15, <1>16, <1>18, <1>19, <1>21, <1>22
     DEF Understand, Step
<1>24. next \in Request
  <2>1. pc \in PCs /\ new \in {None} \cup Context(Ref) /\ action \in {None} \cup Actions
    BY <1>15, <1>17, <1>21 DEF PCs
  <2> QED BY <1>2, <1>20, <1>22, <2>1 DEF Request
<1>25. next.pc = pc /\ next.made = q.made /\ next.generation = q.generation /\ next.post = q.post
       /\ next.message = q.message /\ next.said = q.said /\ next.text = text
       /\ next.locks = q.locks /\ next.seen = q.seen /\ next.context = new
  BY <1>2, <1>22 DEF Request
<1>26. q.made = FALSE /\ q.generation = None /\ q.post = None /\ q.message > 0
       /\ (NewTurn(q) \/ StoredTurn(q)) /\ q.message \in Nat /\ q.seen <= Len(messages)
  BY <1>2 DEF RequestInv, Posted, Answered, Request, Spoken
<1>27. NewTurn(next) \/ StoredTurn(next)
  BY <1>2, <1>21, <1>25, <1>26 DEF NewTurn, StoredTurn, Answered
<1>28. Spoken(next)
  BY <1>21, <1>25, <1>26, <1>27, ChatConstants DEF Spoken
<1>29. Posted(r, next) /\ Queued(next)
  BY <1>21, <1>25, <1>26 DEF Posted, Queued, Answered
<1>30. Recalls(next)
  BY <1>10, <1>17, <1>25 DEF Recalls
<1>31. Sourced(next)
  BY <1>4, <1>17, <1>25, <1>26 DEF Sourced
<1>32. RequestInv(r, next)
  BY <1>17, <1>24, <1>25, <1>28, <1>29, <1>30, <1>31 DEF RequestInv
<1> QED BY <1>1, <1>23, <1>25, <1>32, RequestStep DEF Understand, Local, Inv, Committed

----------------------------------------------------------------------------
(* The post a request works on. *)

LEMMA FindPostStep ==
    ASSUME Inv, NEW r \in Requests, FindPost(r) PROVE Inv'
<1>1. PICK q : q = req[r]
  OBVIOUS
<1>2. RequestInv(r, q) /\ q \in Request /\ q.pc = "find"
  BY <1>1 DEF Inv, RequestInv, FindPost, At
<1>3. q.made = FALSE /\ q.generation = None /\ q.post = None
  BY <1>2 DEF RequestInv, Posted, Answered
<1>4. posts \in Seq(Post)
  BY DEF Inv, Committed
<1>5. PICK post : post = IF posts = <<>> THEN None ELSE posts[Len(posts)].id
  OBVIOUS
<1>6. PICK pc : pc = IF posts = <<>> THEN "create" ELSE "request"
  OBVIOUS
<1>7. PICK next : next = [q EXCEPT !.pc = pc, !.post = post]
  OBVIOUS
<1>8. posts # <<>> => Len(posts) \in DOMAIN posts /\ post \in Requests /\ post # None /\ ~ Unnamed(post)
  <2>1. SUFFICES ASSUME posts # <<>> PROVE Len(posts) \in DOMAIN posts /\ post \in Requests /\ post # None /\ ~ Unnamed(post)
    OBVIOUS
  <2>2. Len(posts) \in DOMAIN posts
    BY <1>4, <2>1
  <2>3. posts[Len(posts)] \in Post /\ post = posts[Len(posts)].id
    BY <1>4, <1>5, <2>1, <2>2
  <2> QED BY <2>2, <2>3, ChatConstants DEF Post, Unnamed
<1>9. req' = [req EXCEPT ![r] = next]
  <2>1. CASE posts = <<>>
    <3>1. next = [q EXCEPT !.pc = "create"]
      BY <1>2, <1>3, <1>5, <1>6, <1>7, <2>1 DEF Request
    <3> QED BY <1>1, <2>1, <3>1 DEF FindPost, Step
  <2>2. CASE posts # <<>>
    BY <1>1, <1>5, <1>6, <1>7, <2>2 DEF FindPost, Step
  <2> QED BY <2>1, <2>2
<1>10. next \in Request
  <2>1. pc \in PCs /\ post \in {None} \cup Requests
    BY <1>5, <1>6, <1>8 DEF PCs
  <2> QED BY <1>2, <1>7, <2>1 DEF Request
<1>11. next.pc = pc /\ next.made = q.made /\ next.generation = q.generation /\ next.post = post
       /\ next.message = q.message /\ next.said = q.said /\ next.text = q.text
       /\ next.locks = q.locks /\ next.seen = q.seen /\ next.context = q.context
  BY <1>2, <1>7 DEF Request
<1>12. pc \in {"create", "request"}
  BY <1>6
<1>13. Spoken(next)
  <2>1. Spoken(q)
    BY <1>2 DEF RequestInv
  <2>2. NewTurn(q) => NewTurn(next)
    BY <1>2, <1>11, <1>12 DEF NewTurn, Answered
  <2>3. StoredTurn(q) => StoredTurn(next)
    BY <1>2, <1>11, <1>12 DEF StoredTurn, Answered
  <2> QED BY <1>2, <1>11, <1>12, <2>1, <2>2, <2>3 DEF Spoken, Decided
<1>14. Posted(r, next)
  <2>1. CASE posts = <<>>
    BY <1>3, <1>5, <1>6, <1>11, <2>1 DEF Posted, Unnamed, Answered
  <2>2. CASE posts # <<>>
    BY <1>3, <1>5, <1>6, <1>8, <1>11, <2>2 DEF Posted, Answered
  <2> QED BY <2>1, <2>2
<1>15. Queued(next)
  BY <1>3, <1>11 DEF Queued
<1>16. Recalls(next) /\ Sourced(next) /\ next.context \in Context(Ref)
  <2>1. Recalls(q) /\ Sourced(q) /\ q.context \in Context(Ref)
    BY <1>2 DEF RequestInv, Decided
  <2>2. Upcoming(q) = {} /\ Upcoming(next) = {}
    BY <1>3, <1>11 DEF Upcoming
  <2> QED BY <1>3, <1>11, <2>1, <2>2 DEF Recalls, Sourced
<1>17. RequestInv(r, next)
  BY <1>10, <1>13, <1>14, <1>15, <1>16 DEF RequestInv
<1> QED BY <1>1, <1>9, <1>11, <1>17, RequestStep DEF FindPost, Local, Inv, Committed

LEMMA CreatePostStep ==
    ASSUME Inv, NEW r \in Requests, CreatePost(r) PROVE Inv'
<1>1. PICK q : q = req[r]
  OBVIOUS
<1>2. RequestInv(r, q) /\ q \in Request /\ q.pc = "create"
  BY <1>1 DEF Inv, RequestInv, CreatePost, At
<1>3. q.made = FALSE /\ q.generation = None /\ Unnamed(r)
  BY <1>2 DEF RequestInv, Posted, Answered
<1>4. Locked(r) = q.locks \cup {<<"key share">>}
  BY <1>1, <1>2, LockedKeyShare
<1>5. PICK next : next = [q EXCEPT !.pc = "request", !.locks = Locked(r), !.post = r, !.made = TRUE]
  OBVIOUS
<1>6. req' = [req EXCEPT ![r] = next]
  BY <1>1, <1>5 DEF CreatePost, Step
<1>7. next \in Request
  <2>1. "request" \in PCs /\ Locked(r) \in SUBSET Locks
    BY <1>2, <1>4 DEF PCs, Request, Locks
  <2> QED BY <1>2, <1>5, <2>1 DEF Request
<1>8. next.pc = "request" /\ next.made = TRUE /\ next.generation = q.generation /\ next.post = r
      /\ next.message = q.message /\ next.said = q.said /\ next.text = q.text
      /\ next.locks = q.locks \cup {<<"key share">>} /\ next.seen = q.seen /\ next.context = q.context
  BY <1>2, <1>4, <1>5 DEF Request
<1>9. Spoken(next)
  <2>1. Spoken(q)
    BY <1>2 DEF RequestInv
  <2>2. NewTurn(q) => NewTurn(next)
    BY <1>2, <1>8 DEF NewTurn, Answered
  <2>3. StoredTurn(q) => StoredTurn(next)
    BY <1>2, <1>8 DEF StoredTurn, Answered
  <2> QED BY <1>2, <1>8, <2>1, <2>2, <2>3 DEF Spoken, Decided
<1>10. Posted(r, next)
  BY <1>3, <1>8, ChatConstants DEF Posted, Answered
<1>11. Queued(next)
  BY <1>3, <1>8 DEF Queued
<1>12. Recalls(next) /\ Sourced(next) /\ next.context \in Context(Ref)
  <2>1. Recalls(q) /\ Sourced(q) /\ q.context \in Context(Ref)
    BY <1>2 DEF RequestInv, Decided
  <2>2. Upcoming(q) = {} /\ Upcoming(next) = {}
    BY <1>3, <1>8 DEF Upcoming
  <2> QED BY <1>3, <1>8, <2>1, <2>2 DEF Recalls, Sourced
<1>13. RequestInv(r, next)
  BY <1>7, <1>9, <1>10, <1>11, <1>12 DEF RequestInv
<1> QED BY <1>1, <1>6, <1>8, <1>13, RequestStep DEF CreatePost, Local, Inv, Committed

----------------------------------------------------------------------------
(* A request asks for a generation: new under the post's lock, or found. *)

LEMMA KeyFacts ==
    ASSUME NEW r, NEW q \in Request, q = req[r]
    PROVE  /\ IdempotencyKey(r) \in Key
           /\ IdempotencyKey(r)[1] = "turn" => q.message > 0 /\ IdempotencyKey(r)[2] = q.message
<1>1. q.message \in Nat /\ q.seen \in Nat
  BY DEF Request
<1>2. CASE q.message > 0
  <2>1. IdempotencyKey(r) = <<"turn", q.message>>
    BY <1>2 DEF IdempotencyKey, IsTurn
  <2> QED BY <1>1, <1>2, <2>1 DEF Key
<1>3. CASE ~ (q.message > 0)
  <2>1. IdempotencyKey(r) = <<"command", q.seen>>
    BY <1>3 DEF IdempotencyKey, IsTurn
  <2> QED BY <1>1, <2>1 DEF Key
<1> QED BY <1>2, <1>3

LEMMA BriefFacts ==
    ASSUME NEW c \in Context(Ref), NEW S, Marked(c), Stands(c.facts, S)
    PROVE  /\ ProjectContext(c) \in Update /\ ProjectContext(c)["goal"] # Promotion
           /\ Stands(ProjectContext(c), S)
<1>1. c.facts \in Update
  BY DEF Context
<1>2. ProjectContext(c) \in Update
  BY <1>1 DEF ProjectContext, Update
<1>3. ProjectContext(c)["goal"] # Promotion
  BY FieldFacts, RoutingConstants DEF ProjectContext, Marked
<1>4. Stands(ProjectContext(c), S)
  BY FieldFacts DEF ProjectContext, Stands, Grounded, LanguageTyped
<1> QED BY <1>2, <1>3, <1>4

LEMMA GeneratedFacts ==
    ASSUME NEW c \in Context(Ref), NEW ref \in Ref
    PROVE  LET v == WithGeneratedPost(c, ref)
           IN  /\ v \in Context(Ref) /\ v.facts = c.facts /\ v.inferred = c.inferred
               /\ v.generated_posts = Append(c.generated_posts, ref)
<1>1. PICK v : v = WithGeneratedPost(c, ref)
  OBVIOUS
<1>2. c.generated_posts \in Seq(Ref)
  BY DEF Context
<1>3. PICK list \in Seq(Ref) : list = Append(c.generated_posts, ref)
  <2>1. Append(c.generated_posts, ref) \in Seq(Ref)
    BY <1>2
  <2> QED BY <2>1
<1>4. v = [c EXCEPT !.generated_posts = list, !.explicit_generation_requests = 0]
  BY <1>1, <1>3 DEF WithGeneratedPost
<1>5. v \in Context(Ref) /\ v.facts = c.facts /\ v.inferred = c.inferred /\ v.generated_posts = list
  BY <1>4 DEF Context
<1> QED BY <1>1, <1>3, <1>5

LEMMA RequestGenerationStep ==
    ASSUME Inv, NEW r \in Requests, RequestGeneration(r) PROVE Inv'
<1>1. PICK q : q = req[r]
  OBVIOUS
<1>2. RequestInv(r, q) /\ q \in Request /\ q.pc = "request"
  BY <1>1 DEF Inv, RequestInv, RequestGeneration, At
<1>3. q.generation = None /\ q.post # None /\ q.post \in Requests /\ q.message \in Nat /\ q.context \in Context(Ref)
      /\ Recalls(q) /\ Sourced(q) /\ Upcoming(q) = {}
  BY <1>2 DEF RequestInv, Posted, Request, Decided, Upcoming
<1>4. PICK S : S = Said(Len(messages), q.text)
  OBVIOUS
<1>5. Marked(q.context) /\ Stands(q.context.facts, S)
  BY <1>3, <1>4 DEF Sourced
<1>6. PICK attempts \in Seq(Generation) : attempts = Attempts(q.post)
  BY AttemptsType DEF Inv, Committed
<1>7. PICK key \in Key : key = IdempotencyKey(r) /\ (key[1] = "turn" => q.message > 0 /\ key[2] = q.message)
  BY <1>1, <1>2, KeyFacts
<1>8. PICK brief \in Update : brief = ProjectContext(q.context) /\ brief["goal"] # Promotion /\ Stands(brief, S)
  BY <1>3, <1>5, BriefFacts
<1>9. PICK made \in Generation : made = [key |-> key, brief |-> brief]
  BY DEF Generation
<1>10. PICK existing : existing = {i \in DOMAIN attempts : attempts[i].key = key}
  OBVIOUS
<1>11. PICK attempt : attempt = IF existing = {} THEN Len(attempts) + 1 ELSE CHOOSE i \in existing : TRUE
  OBVIOUS
<1>12. PICK generation : generation = IF existing = {} THEN made ELSE None
  OBVIOUS
<1>13. generation # None <=> existing = {}
  BY <1>9, <1>12, HistoriesAssumption
<1>14. attempt \in Nat /\ (existing # {} => attempt \in DOMAIN attempts)
  <2>1. Len(attempts) \in Nat /\ DOMAIN attempts = 1 .. Len(attempts)
    BY <1>6
  <2> QED BY <1>10, <1>11, <2>1
<1>15. existing # {} => <<q.post, attempt>> \in AllGenerations
  <2>1. SUFFICES ASSUME existing # {} PROVE <<q.post, attempt>> \in AllGenerations
    OBVIOUS
  <2>2. attempt \in DOMAIN Attempts(q.post)
    BY <1>6, <1>14, <2>1
  <2>3. ~ Unnamed(q.post)
    BY <2>2, AttemptsOfNone
  <2> QED BY <2>2, <2>3, GenerationIsListed DEF Inv, Committed
<1>16. PICK revises : revises = Revises(r)
  OBVIOUS
<1>17. revises \in {None} \cup GenerationId /\ revises \in AllGenerations \cup {None}
  <2>1. PICK known \in Seq(Ref) : known = q.context.generated_posts
    BY <1>3 DEF Context
  <2>2. CASE revises = None
    BY <2>2
  <2>3. CASE revises # None
    <3>1. known # <<>> /\ revises = known[Len(known)].generation
      BY <1>1, <1>16, <2>1, <2>3 DEF Revises
    <3>2. Len(known) \in DOMAIN known /\ known[Len(known)] \in Ref
      BY <2>1, <3>1
    <3>3. revises \in GenerationId
      BY <3>1, <3>2 DEF Ref
    <3>4. revises \in AllGenerations
      BY <1>3, <2>1, <3>1, <3>2 DEF Recalls
    <3> QED BY <3>3, <3>4
  <2> QED BY <2>2, <2>3
<1>18. PICK ref \in Ref : ref = [generation |-> <<q.post, attempt>>, revises |-> revises]
  BY <1>3, <1>14, <1>17 DEF Ref, GenerationId
<1>19. PICK new : new = IF q.message > 0 \/ existing = {} THEN WithGeneratedPost(q.context, ref) ELSE q.context
  OBVIOUS
<1>20. /\ new \in Context(Ref) /\ new.facts = q.context.facts /\ new.inferred = q.context.inferred
       /\ \A i \in DOMAIN new.generated_posts :
             \/ i \in DOMAIN q.context.generated_posts /\ new.generated_posts[i] = q.context.generated_posts[i]
             \/ new.generated_posts[i] = ref
  <2>1. CASE q.message > 0 \/ existing = {}
    <3>1. new \in Context(Ref) /\ new.facts = q.context.facts /\ new.inferred = q.context.inferred
          /\ new.generated_posts = Append(q.context.generated_posts, ref)
      BY <1>3, <1>18, <1>19, <2>1, GeneratedFacts
    <3>2. q.context.generated_posts \in Seq(Ref)
      BY <1>3 DEF Context
    <3>3. PICK list \in Seq(Ref) : list = q.context.generated_posts
      BY <3>2
    <3>4. \A i \in DOMAIN Append(list, ref) :
             \/ i \in DOMAIN list /\ Append(list, ref)[i] = list[i]
             \/ Append(list, ref)[i] = ref
      OBVIOUS
    <3> QED BY <3>1, <3>3, <3>4
  <2>2. CASE ~ (q.message > 0 \/ existing = {})
    BY <1>3, <1>19, <2>2
  <2> QED BY <2>1, <2>2
<1>21. PICK pc \in {"answer", "save", "commit"} :
          pc = IF q.message > 0 THEN "answer" ELSE IF existing = {} THEN "save" ELSE "commit"
  OBVIOUS
<1>22. PICK next : next = [q EXCEPT !.locks = Locked(r), !.generation = generation, !.context = new, !.pc = pc]
  OBVIOUS
<1>23. req' = [req EXCEPT ![r] = next]
  BY <1>1, <1>6, <1>7, <1>8, <1>9, <1>10, <1>11, <1>12, <1>16, <1>18, <1>19, <1>21, <1>22
     DEF RequestGeneration, Step, IsTurn
<1>24. Locked(r) = q.locks \cup {PostLock(q.post)}
  BY <1>1, <1>2, LockedPost
<1>25. next \in Request
  <2>1. pc \in PCs /\ new \in {None} \cup Context(Ref) /\ generation \in {None} \cup Generation
    BY <1>9, <1>12, <1>20, <1>21 DEF PCs
  <2>2. Locked(r) \in SUBSET Locks
    <3>1. q.locks \in SUBSET Locks
      BY <1>2 DEF Request
    <3>2. PostLock(q.post) \in Locks
      BY <1>3 DEF Locks, PostLock
    <3> QED BY <1>24, <3>1, <3>2
  <2> QED BY <1>2, <1>22, <2>1, <2>2 DEF Request
<1>26. next.pc = pc /\ next.made = q.made /\ next.generation = generation /\ next.post = q.post
       /\ next.message = q.message /\ next.said = q.said /\ next.text = q.text
       /\ next.locks = q.locks \cup {PostLock(q.post)} /\ next.seen = q.seen /\ next.context = new
  BY <1>2, <1>22, <1>24 DEF Request
<1>27. Spoken(next)
  <2>1. Spoken(q)
    BY <1>2 DEF RequestInv
  <2>2. q.message > 0 /\ NewTurn(q) => NewTurn(next)
    BY <1>2, <1>21, <1>26 DEF NewTurn, Answered
  <2>3. q.message > 0 /\ StoredTurn(q) => StoredTurn(next)
    BY <1>2, <1>21, <1>26 DEF StoredTurn, Answered
  <2> QED BY <1>2, <1>3, <1>21, <1>26, <2>1, <2>2, <2>3 DEF Spoken, Decided, Answered
<1>28. Posted(r, next)
  BY <1>2, <1>21, <1>26 DEF RequestInv, Posted, Answered
<1>29. Queued(next)
  <2>1. q.made => existing = {}
    <3>1. SUFFICES ASSUME q.made PROVE existing = {}
      OBVIOUS
    <3>2. Unnamed(q.post)
      BY <1>2, <3>1 DEF RequestInv, Posted
    <3>3. attempts = <<>>
      BY <1>6, <3>2, AttemptsOfNone
    <3> QED BY <1>10, <3>3
  <2>2. generation # None => generation.key = key
    BY <1>9, <1>12
  <2> QED BY <1>3, <1>6, <1>7, <1>10, <1>13, <1>26, <2>1, <2>2 DEF Queued
<1>30. Recalls(next)
  <2>1. existing = {} => <<q.post, attempt>> \in Upcoming(next)
    BY <1>6, <1>11, <1>13, <1>26 DEF Upcoming
  <2>2. ref.generation \in AllGenerations \cup Upcoming(next)
    BY <1>15, <1>18, <2>1
  <2>3. ref.revises \in AllGenerations \cup {None}
    BY <1>17, <1>18
  <2> QED BY <1>3, <1>20, <1>26, <2>2, <2>3 DEF Recalls
<1>31. Sourced(next)
  <2>1. Marked(new) /\ Stands(new.facts, S)
    BY <1>5, <1>20 DEF Marked
  <2>2. generation # None => generation.brief = brief
    BY <1>9, <1>12
  <2> QED BY <1>4, <1>8, <1>26, <2>1, <2>2 DEF Sourced
<1>32. RequestInv(r, next)
  BY <1>20, <1>25, <1>26, <1>27, <1>28, <1>29, <1>30, <1>31 DEF RequestInv
<1>33. \A p \in Requests \ {r} : PostLock(q.post) \notin req[p].locks
  <2>1. PostLock(q.post) # <<"key share">> /\ Free(r, PostLock(q.post))
    BY <1>1 DEF PostLock, RequestGeneration
  <2> QED BY <2>1, FreeLock
<1> QED BY <1>1, <1>23, <1>26, <1>32, <1>33, RequestStep DEF RequestGeneration, Local, Inv, Committed

----------------------------------------------------------------------------
(* A turn is answered and its context saved. *)

LEMMA AppendPair == ASSUME NEW T, NEW a \in T, NEW b \in T PROVE Append(<<a>>, b) = <<a, b>>
<1>1. Append(<<a>>, b) \in Seq(T) /\ Len(Append(<<a>>, b)) = 2 /\ Len(<<a, b>>) = 2 /\ <<a, b>> \in Seq(T)
  OBVIOUS
<1>2. \A i \in 1 .. 2 : Append(<<a>>, b)[i] = <<a, b>>[i]
  OBVIOUS
<1> QED BY <1>1, <1>2, SeqEqual

LEMMA AppendAssistantStep ==
    ASSUME Inv, NEW r \in Requests, AppendAssistant(r) PROVE Inv'
<1>1. PICK q : q = req[r]
  OBVIOUS
<1>2. RequestInv(r, q) /\ q \in Request /\ q.pc = "answer"
  BY <1>1 DEF Inv, RequestInv, AppendAssistant, At
<1>3. q.message > 0 /\ q.message \in Nat /\ q.said \in Seq(Message) /\ q.locks \in SUBSET Locks
  BY <1>2 DEF RequestInv, Spoken, Request
<1>4. AssistantMessage(q.message) \in Message
  BY <1>3 DEF AssistantMessage, Message
<1>5. PICK said \in Seq(Message) : said = Append(q.said, AssistantMessage(q.message))
  <2>1. Append(q.said, AssistantMessage(q.message)) \in Seq(Message)
    BY <1>3, <1>4
  <2> QED BY <2>1
<1>6. PICK next : next = [q EXCEPT !.pc = "save", !.locks = Locked(r), !.said = said]
  OBVIOUS
<1>7. req' = [req EXCEPT ![r] = next]
  BY <1>1, <1>5, <1>6 DEF AppendAssistant, Step, AssistantMessage
<1>8. Locked(r) = q.locks \cup {Conversation}
  BY <1>1, <1>2, LockedConversation
<1>9. next \in Request
  <2>1. "save" \in PCs /\ Locked(r) \in SUBSET Locks
    BY <1>3, <1>8 DEF PCs, Locks, Conversation
  <2> QED BY <1>2, <1>6, <2>1 DEF Request
<1>10. next.pc = "save" /\ next.made = q.made /\ next.generation = q.generation /\ next.post = q.post
       /\ next.message = q.message /\ next.said = said /\ next.text = q.text
       /\ next.locks = q.locks \cup {Conversation} /\ next.seen = q.seen /\ next.context = q.context
  BY <1>2, <1>6, <1>8 DEF Request
<1>11. NewTurn(next) \/ StoredTurn(next)
  <2>1. NewTurn(q) \/ StoredTurn(q)
    BY <1>2, <1>3 DEF RequestInv, Spoken
  <2>2. CASE NewTurn(q)
    <3>1. q.said = <<UserMessage(q.text)>> /\ q.message = Len(messages) + 1
      BY <1>2, <2>2 DEF NewTurn, Answered
    <3>2. UserMessage(q.text) \in Message
      BY <1>3, <3>1
    <3>3. said = <<UserMessage(q.text), AssistantMessage(q.message)>>
      BY <1>4, <1>5, <3>1, <3>2, AppendPair
    <3> QED BY <1>10, <3>1, <3>3 DEF NewTurn, Answered
  <2>3. CASE StoredTurn(q)
    <3>1. q.said = <<>>
      BY <1>2, <2>3 DEF StoredTurn, Answered
    <3>2. said = <<AssistantMessage(q.message)>>
      BY <1>5, <3>1
    <3> QED BY <1>10, <2>3, <3>2 DEF StoredTurn, Answered
  <2> QED BY <2>1, <2>2, <2>3
<1>12. Spoken(next)
  BY <1>2, <1>3, <1>10, <1>11 DEF RequestInv, Spoken
<1>13. Posted(r, next) /\ Queued(next)
  BY <1>2, <1>10 DEF RequestInv, Posted, Queued, Answered
<1>14. Recalls(next) /\ Sourced(next) /\ next.context \in Context(Ref)
  <2>1. Recalls(q) /\ Sourced(q) /\ q.context \in Context(Ref)
    BY <1>2 DEF RequestInv, Decided
  <2>2. Upcoming(q) = Upcoming(next)
    BY <1>10 DEF Upcoming
  <2> QED BY <1>10, <2>1, <2>2 DEF Recalls, Sourced
<1>15. RequestInv(r, next)
  BY <1>9, <1>12, <1>13, <1>14 DEF RequestInv
<1>16. \A p \in Requests \ {r} : Conversation \notin req[p].locks
  <2>1. Conversation # <<"key share">> /\ Free(r, Conversation)
    BY DEF Conversation, AppendAssistant
  <2> QED BY <2>1, FreeLock
<1> QED BY <1>1, <1>7, <1>10, <1>15, <1>16, RequestStep DEF AppendAssistant, Local, Inv, Committed

LEMMA SavingStep ==
    ASSUME Inv, NEW r \in Requests, req[r].pc = "save" \/ req[r].pc = "insert", Local,
           NEW pc \in {"insert", "commit"}, NEW locks, locks = req[r].locks \/ locks = Locked(r),
           NEW saved \in BOOLEAN, NEW next, next = [req[r] EXCEPT !.pc = pc, !.locks = locks, !.saved = saved],
           req' = [req EXCEPT ![r] = next]
    PROVE  Inv'
<1>1. PICK q : q = req[r]
  OBVIOUS
<1>2. RequestInv(r, q) /\ q \in Request /\ q.pc \in {"save", "insert"}
  BY <1>1 DEF Inv, RequestInv
<1>3. \A lock \in locks : lock \in q.locks \/ lock \in {<<"key share">>, <<"context">>}
  <2>1. Locked(r) \subseteq req[r].locks \cup {<<"key share">>, <<"context">>}
    BY LockedContext
  <2>2. CASE locks = req[r].locks
    BY <1>1, <2>2
  <2>3. CASE locks = Locked(r)
    BY <1>1, <2>1, <2>3, Zenon
  <2> QED BY <2>2, <2>3
<1>4. q.locks \subseteq locks /\ locks \in SUBSET Locks
  <2>1. q.locks \in SUBSET Locks /\ <<"key share">> \in Locks /\ <<"context">> \in Locks
    BY <1>2 DEF Request, Locks
  <2> QED BY <1>1, <1>3, <2>1 DEF Locked
<1>5. next \in Request
  <2>1. pc \in PCs
    BY DEF PCs
  <2> QED BY <1>1, <1>2, <1>4, <2>1 DEF Request
<1>6. next.pc = pc /\ next.made = q.made /\ next.generation = q.generation /\ next.post = q.post
      /\ next.message = q.message /\ next.said = q.said /\ next.text = q.text
      /\ next.locks = locks /\ next.seen = q.seen /\ next.context = q.context
  BY <1>1, <1>2 DEF Request
<1>7. Spoken(next)
  <2>1. Spoken(q)
    BY <1>2 DEF RequestInv
  <2>2. NewTurn(q) => NewTurn(next)
    BY <1>2, <1>4, <1>6 DEF NewTurn, Answered
  <2>3. StoredTurn(q) => StoredTurn(next)
    BY <1>2, <1>4, <1>6 DEF StoredTurn, Answered
  <2> QED BY <1>2, <1>6, <2>1, <2>2, <2>3 DEF Spoken, Decided, Answered
<1>8. Posted(r, next) /\ Queued(next)
  BY <1>2, <1>4, <1>6 DEF RequestInv, Posted, Queued, Answered
<1>9. Recalls(next) /\ Sourced(next) /\ next.context \in Context(Ref)
  <2>1. Recalls(q) /\ Sourced(q) /\ q.context \in Context(Ref)
    BY <1>2 DEF RequestInv, Decided, Answered
  <2>2. Upcoming(q) = Upcoming(next)
    BY <1>6 DEF Upcoming
  <2> QED BY <1>6, <2>1, <2>2 DEF Recalls, Sourced
<1>10. RequestInv(r, next)
  BY <1>5, <1>7, <1>8, <1>9 DEF RequestInv
<1> QED BY <1>1, <1>3, <1>6, <1>10, RequestStep DEF Local, Inv, Committed

LEMMA SaveContextStep ==
    ASSUME Inv, NEW r \in Requests, SaveContext(r) PROVE Inv'
<1>1. req[r].pc = "save" /\ req[r] \in Request
  BY DEF SaveContext, At, Inv
<1>2. CASE context = None
  <2>1. PICK saved \in BOOLEAN : saved = req[r].saved
    BY <1>1 DEF Request
  <2>2. PICK locks : locks = req[r].locks
    OBVIOUS
  <2>3. PICK next : next = [req[r] EXCEPT !.pc = "insert", !.locks = locks, !.saved = saved]
    OBVIOUS
  <2>4. next = [req[r] EXCEPT !.pc = "insert"]
    BY <1>1, <2>1, <2>2, <2>3 DEF Request
  <2>5. req' = [req EXCEPT ![r] = next] /\ Local
    BY <1>2, <2>4 DEF SaveContext, Step
  <2> QED BY <1>1, <2>2, <2>3, <2>5, SavingStep
<1>3. CASE context # None
  <2>1. PICK locks : locks = Locked(r)
    OBVIOUS
  <2>2. PICK next : next = [req[r] EXCEPT !.pc = "commit", !.locks = locks, !.saved = TRUE]
    OBVIOUS
  <2>3. req' = [req EXCEPT ![r] = next] /\ Local
    BY <1>3, <2>1, <2>2 DEF SaveContext, Step
  <2> QED BY <1>1, <2>1, <2>2, <2>3, SavingStep
<1> QED BY <1>2, <1>3

LEMMA InsertContextStep ==
    ASSUME Inv, NEW r \in Requests, InsertContext(r) PROVE Inv'
<1>1. CASE context # None
  BY <1>1, RollbackStep DEF InsertContext
<1>2. CASE context = None
  <2>1. PICK locks : locks = Locked(r)
    OBVIOUS
  <2>2. PICK next : next = [req[r] EXCEPT !.pc = "commit", !.locks = locks, !.saved = TRUE]
    OBVIOUS
  <2>3. req' = [req EXCEPT ![r] = next] /\ Local /\ req[r].pc = "insert"
    BY <1>2, <2>1, <2>2 DEF InsertContext, Step, At
  <2> QED BY <2>1, <2>2, <2>3, SavingStep
<1> QED BY <1>1, <1>2

----------------------------------------------------------------------------
(* Messages and posts are only ever added. *)

\* Messages that were committed stay where they are.
Grown ==
    /\ messages' \in Seq(Message) /\ Len(messages) <= Len(messages')
    /\ \A i \in 1 .. Len(messages) : messages'[i] = messages[i]

LEMMA UserTextsGrow ==
    ASSUME messages \in Seq(Message), Grown
    PROVE  UserTexts(Len(messages)) \subseteq UserTexts(Len(messages))'
<1> SUFFICES ASSUME NEW t \in UserTexts(Len(messages)) PROVE t \in UserTexts(Len(messages))'
  OBVIOUS
<1>1. PICK i \in 1 .. Len(messages) : messages[i].role = "user" /\ t = messages[i].text
  BY InUserTexts
<1>2. Len(messages) \in Nat /\ Len(messages') \in Nat
  BY DEF Grown
<1>3. i \in 1 .. Len(messages') /\ messages'[i] = messages[i]
  BY <1>2 DEF Grown
<1>4. i \in {j \in 1 .. Len(messages)' : messages'[j].role = "user"}
  BY <1>1, <1>3
<1> QED BY <1>1, <1>3, <1>4 DEF UserTexts, WrittenBy

\* What a request in flight has checked stays true while others add to the
\* conversation, unless it holds the lock under which they would do so.
LEMMA RequestKept ==
    ASSUME NEW p, NEW q, RequestInv(p, q), messages \in Seq(Message), Grown, Worded',
           Conversation \in q.locks => messages' = messages,
           Unnamed(p) => Unnamed(p)', \A x : ~ Unnamed(x) => ~ Unnamed(x)',
           AllGenerations \subseteq AllGenerations',
           q.generation # None => Attempts(q.post)' = Attempts(q.post)
    PROVE  RequestInv(p, q)'
<1>1. Len(messages) \in Nat /\ Len(messages') \in Nat /\ q \in Request
  BY DEF Grown, RequestInv
<1>2. Spoken(q)'
  <2>1. Spoken(q)
    BY DEF RequestInv
  <2>2. NewTurn(q) => NewTurn(q)'
    BY DEF NewTurn
  <2>3. StoredTurn(q) => StoredTurn(q)'
    BY <1>1 DEF StoredTurn, Grown
  <2>4. q.seen <= Len(messages')
    BY <1>1, <2>1 DEF Grown, Spoken, Request
  <2> QED BY <2>1, <2>2, <2>3, <2>4 DEF Spoken
<1>3. Posted(p, q)'
  BY DEF RequestInv, Posted
<1>4. Queued(q)'
  BY DEF RequestInv, Queued
<1>5. Upcoming(q)' = Upcoming(q)
  BY DEF Upcoming
<1>6. q.pc \in Decided => Recalls(q)'
  BY <1>5 DEF RequestInv, Recalls
<1>7. Said(Len(messages), q.text) \subseteq Said(Len(messages), q.text)'
  BY UserTextsGrow DEF Said
<1>8. q.pc \in Decided => Sourced(q)'
  <2>1. SUFFICES ASSUME q.pc \in Decided PROVE Sourced(q)'
    OBVIOUS
  <2>2. PICK S : S = Said(Len(messages), q.text)
    OBVIOUS
  <2>3. PICK T : T = Said(Len(messages), q.text)'
    OBVIOUS
  <2>4. Sourced(q) /\ S \subseteq T
    BY <1>7, <2>1, <2>2, <2>3 DEF RequestInv
  <2>0. T \subseteq Text
    <3>1. UserTexts(Len(messages))' = WrittenBy(messages', Len(messages'))
      BY DEF UserTexts
    <3>2. WrittenBy(messages', Len(messages')) \subseteq Text
      BY <1>1, WrittenTexts DEF Grown, Worded
    <3>3. q.text \in {None} \cup Texts
      BY <1>1 DEF Request
    <3> QED BY <2>3, <3>1, <3>2, <3>3, ChatConstants DEF Said
  <2>5. Stands(q.context.facts, T)
    BY <2>0, <2>2, <2>4, StandsMore DEF Sourced
  <2>6. q.generation # None => Stands(q.generation.brief, T)
    BY <2>0, <2>2, <2>4, StandsMore DEF Sourced
  <2> QED BY <2>3, <2>4, <2>5, <2>6 DEF Sourced
<1> QED BY <1>2, <1>3, <1>4, <1>6, <1>8 DEF RequestInv

LEMMA StoreMessageStep ==
    ASSUME Inv, NEW text \in Texts, StoreMessage(text) PROVE Inv'
<1>1. PICK new : new = [role |-> "user", text |-> text, answers |-> 0, alone |-> TRUE]
  OBVIOUS
<1>2. messages \in Seq(Message) /\ messages' = Append(messages, new) /\ new \in Message
  BY <1>1 DEF Inv, Committed, StoreMessage, Message
<1>3. Len(messages) \in Nat /\ messages' \in Seq(Message) /\ Len(messages') = Len(messages) + 1
      /\ (\A i \in 1 .. Len(messages) : messages'[i] = messages[i]) /\ messages'[Len(messages) + 1] = new
  BY <1>2
<1>4. Grown
  BY <1>3 DEF Grown
<1>5. UNCHANGED <<context, posts, req, told>> /\ overlapped' \in BOOLEAN
  BY DEF StoreMessage, Inv, Committed
<1>6. AllGenerations' = AllGenerations /\ (\A p : Attempts(p)' = Attempts(p)) /\ \A p : Unnamed(p)' = Unnamed(p)
  BY <1>5 DEF AllGenerations, Attempts, Unnamed
<1>7. Worded' /\ DistinctPosts' /\ OneGenerationPerKey'
  <2>1. Worded'
    BY <1>1, <1>3, SMTT(30) DEF Inv, Committed, Worded
  <2> QED BY <1>5, <2>1 DEF Inv, Committed, DistinctPosts, OneGenerationPerKey
<1>8. TurnsWhole'
  <2>1. ASSUME NEW i \in DOMAIN messages', messages'[i].role = "user", ~ messages'[i].alone
        PROVE  i + 1 \in DOMAIN messages' /\ messages'[i + 1].answers = i
    <3>1. i # Len(messages) + 1
      BY <1>1, <1>3, <2>1
    <3>2. i \in DOMAIN messages /\ messages'[i] = messages[i]
      BY <1>2, <1>3, <2>1, <3>1
    <3>3. i + 1 \in DOMAIN messages /\ messages[i + 1].answers = i
      BY <2>1, <3>2 DEF Inv, Committed, TurnsWhole
    <3> QED BY <1>2, <1>3, <3>3
  <2>2. \A j \in DOMAIN messages : j \in DOMAIN messages' /\ messages'[j] = messages[j]
    BY <1>2, <1>3
  <2> QED BY <1>5, <2>1, <2>2 DEF Inv, Committed, TurnsWhole
<1>9. RefsExist'
  BY <1>5, <1>6 DEF Inv, Committed, RefsExist
<1>10. PICK T : T = UserTexts(Len(messages))'
  OBVIOUS
<1>17. UserTexts(Len(messages)) \subseteq T /\ T \subseteq Text
  <2>1. UserTexts(Len(messages)) \subseteq T
    BY <1>2, <1>4, <1>10, UserTextsGrow
  <2>2. T = WrittenBy(messages', Len(messages'))
    BY <1>10 DEF UserTexts
  <2>3. \A i \in 1 .. Len(messages') : messages'[i].role = "user" => messages'[i].text \in Texts
    BY <1>3, <1>7 DEF Worded
  <2> QED BY <2>1, <2>2, <2>3, WrittenTexts
<1>11. BriefsAreStated'
  <2>1. ASSUME NEW k \in DOMAIN posts, NEW i \in DOMAIN posts[k].generations
        PROVE  LanguageTyped(posts[k].generations[i].brief["language"], T)
    BY <1>17, LanguageMore DEF Inv, Committed, BriefsAreStated
  <2> QED BY <1>5, <1>10, <1>17, <2>1 DEF Inv, Committed, BriefsAreStated
<1>12. context # None => Marked(context) /\ Stands(context.facts, T)
  BY <1>17, StandsMore DEF Inv, Committed
<1>13. Committed'
  <2>1. context' # None => Marked(context') /\ Stands(context'.facts, UserTexts(Len(messages))')
    BY <1>5, <1>10, <1>12
  <2> QED BY <1>3, <1>5, <1>7, <1>8, <1>9, <1>11, <2>1 DEF Inv, Committed, Marked
<1>14. LockInv'
  BY <1>5 DEF Inv, LockInv, Exclusive
<1>15. ASSUME NEW p \in Requests PROVE RequestInv(p, req[p])'
  <2>1. PICK q : q = req[p]
    OBVIOUS
  <2>2. RequestInv(p, q)
    BY <2>1 DEF Inv
  <2>3. Conversation \notin q.locks
    BY <2>1 DEF StoreMessage, Excludes, Conversation
  <2>4. RequestInv(p, q)'
    BY <1>2, <1>4, <1>6, <1>7, <2>2, <2>3, RequestKept
  <2> QED BY <1>5, <2>1, <2>4
<1> QED BY <1>5, <1>13, <1>14, <1>15 DEF Inv

----------------------------------------------------------------------------
(* A request commits. *)

\* A post put in anywhere leaves the others as they are.
With(s, i, x) == SubSeq(s, 1, i) \o <<x>> \o SubSeq(s, i + 1, Len(s))
InsertedAt(s, i, x, t) ==
    /\ Len(t) = Len(s) + 1
    /\ \A k \in 1 .. Len(t) : t[k] = IF k <= i THEN s[k] ELSE IF k = i + 1 THEN x ELSE s[k - 1]

LEMMA Inserted ==
    ASSUME NEW T, NEW s \in Seq(T), NEW x \in T, NEW i \in 0 .. Len(s)
    PROVE  With(s, i, x) \in Seq(T) /\ InsertedAt(s, i, x, With(s, i, x))
<1>1. Len(s) \in Nat /\ i \in Nat /\ i <= Len(s)
  OBVIOUS
<1>2. PICK a : a = SubSeq(s, 1, i)
  OBVIOUS
<1>3. PICK b : b = SubSeq(s, i + 1, Len(s))
  OBVIOUS
<1>4. a \in Seq(T) /\ Len(a) = i /\ \A k \in 1 .. i : a[k] = s[k]
  BY <1>1, <1>2
<1>5. b \in Seq(T) /\ Len(b) = Len(s) - i /\ \A k \in 1 .. Len(s) - i : b[k] = s[i + k]
  BY <1>1, <1>3
<1>6. PICK c : c = a \o <<x>>
  OBVIOUS
<1>7. c \in Seq(T) /\ Len(c) = i + 1 /\ (\A k \in 1 .. i : c[k] = s[k]) /\ c[i + 1] = x
  BY <1>1, <1>4, <1>6
<1>8. PICK t : t = c \o b
  OBVIOUS
<1>9. PICK m \in Nat : m = Len(s) - i
  BY <1>1
<1>10. PICK n \in Nat : n = i + 1
  BY <1>1
<1>11. Len(c) = n /\ Len(b) = m /\ n + m = Len(s) + 1
  BY <1>1, <1>5, <1>7, <1>9, <1>10
<1>13. /\ t \in Seq(T) /\ Len(t) = n + m
       /\ \A k \in 1 .. n + m : t[k] = IF k <= n THEN c[k] ELSE b[k - n]
  <2>1. c \in Seq(T) /\ b \in Seq(T) /\ n \in Nat /\ m \in Nat /\ Len(c) = n /\ Len(b) = m
    BY <1>5, <1>7, <1>9, <1>10, <1>11
  <2>2. t = c \o b
    BY <1>8
  <2>3. t \in Seq(T)
    BY <2>1, <2>2
  <2>4. Len(t) = n + m
    <3>1. Len(c \o b) = Len(c) + Len(b)
      BY <2>1, ConcatProperties
    <3> QED BY <2>1, <2>2, <3>1
  <2>5. ASSUME NEW k \in 1 .. n + m PROVE t[k] = IF k <= n THEN c[k] ELSE b[k - n]
    <3>1. \A l \in 1 .. Len(c) + Len(b) : (c \o b)[l] = IF l <= Len(c) THEN c[l] ELSE b[l - Len(c)]
      BY <2>1, ConcatProperties
    <3> QED BY <2>1, <2>2, <3>1
  <2> QED BY <2>3, <2>4, <2>5
<1>12. ASSUME NEW k \in 1 .. Len(t)
       PROVE  t[k] = IF k <= i THEN s[k] ELSE IF k = i + 1 THEN x ELSE s[k - 1]
  <2>0. k \in 1 .. n + m /\ k \in Nat
    BY <1>13
  <2>1. CASE k <= i
    BY <1>1, <1>7, <1>10, <1>13, <2>0, <2>1
  <2>2. CASE k = i + 1
    BY <1>1, <1>7, <1>10, <1>13, <2>0, <2>2
  <2>3. CASE k > i + 1
    <3>1. PICK j : j = k - n
      OBVIOUS
    <3>2. t[k] = b[j]
      BY <1>1, <1>10, <1>13, <2>0, <2>3, <3>1
    <3>3. j \in 1 .. Len(s) - i /\ i + j = k - 1
      BY <1>1, <1>9, <1>10, <2>0, <2>3, <3>1
    <3>4. b[j] = s[k - 1]
      BY <1>5, <3>3
    <3> QED BY <1>1, <2>0, <2>3, <3>2, <3>4
  <2> QED BY <1>1, <2>0, <2>1, <2>2, <2>3
<1>14. t = With(s, i, x)
  BY <1>2, <1>3, <1>6, <1>8 DEF With
<1>15. Len(t) = Len(s) + 1
  BY <1>11, <1>13
<1> QED BY <1>12, <1>13, <1>14, <1>15 DEF InsertedAt

\* The post a request leaves with its generation.
Extended(q) == [id |-> q.post, generations |-> Append(Attempts(q.post), q.generation)]

\* A commit leaves every post as it was, but for the one that was worked on.
LEMMA PublishedFacts ==
    ASSUME Inv, NEW r \in Requests, NEW q, q = req[r], q.pc = "commit", NEW ps \in Published(r)
    PROVE  /\ ps \in Seq(Post) /\ \A k, l \in DOMAIN ps : ps[k].id = ps[l].id => k = l
           /\ \A l \in DOMAIN ps :
                \/ \E k \in DOMAIN posts :
                      ps[l] = posts[k] /\ (q.generation # None => posts[k].id # q.post)
                \/ q.generation # None /\ ps[l] = Extended(q)
           /\ \A k \in DOMAIN posts :
                \/ q.generation # None /\ posts[k].id = q.post
                \/ \E l \in DOMAIN ps : ps[l] = posts[k]
           /\ q.generation # None => \E l \in DOMAIN ps : ps[l] = Extended(q)
<1>1. RequestInv(r, q) /\ q \in Request /\ posts \in Seq(Post) /\ DistinctPosts
  BY DEF Inv, RequestInv, Committed
<1>2. Posted(r, q) /\ Queued(q)
  BY <1>1 DEF RequestInv
<1>3. q.generation # None => q.post \in Requests /\ q.generation \in Generation /\ Extended(q) \in Post
  <2>1. SUFFICES ASSUME q.generation # None PROVE q.post \in Requests /\ q.generation \in Generation /\ Extended(q) \in Post
    OBVIOUS
  <2>2. q.post \in Requests /\ q.generation \in Generation
    BY <1>1, <1>2, <2>1 DEF Queued, Request
  <2>3. Attempts(q.post) \in Seq(Generation)
    BY <1>1, AttemptsType
  <2>4. Append(Attempts(q.post), q.generation) \in Seq(Generation)
    BY <2>2, <2>3
  <2> QED BY <2>2, <2>4 DEF Extended, Post
<1>4. CASE q.made
  <2>1. q.generation # None /\ q.post = r /\ Unnamed(r)
    BY <1>2, <1>4 DEF Posted, Queued
  <2>2. PICK new : new = Extended(q)
    OBVIOUS
  <2>3. new = [id |-> r, generations |-> <<q.generation>>] /\ new \in Post
    <3>1. Attempts(q.post) = <<>>
      BY <2>1, AttemptsOfNone
    <3>2. Append(<<>>, q.generation) = <<q.generation>>
      OBVIOUS
    <3> QED BY <1>3, <2>1, <2>2, <3>1, <3>2 DEF Extended
  <2>4. PICK i \in 0 .. Len(posts) : ps = SubSeq(posts, 1, i) \o <<new>> \o SubSeq(posts, i + 1, Len(posts))
    BY <1>4, <2>3 DEF Published
  <2>5. /\ ps \in Seq(Post) /\ Len(ps) = Len(posts) + 1
        /\ \A k \in 1 .. Len(ps) : ps[k] = IF k <= i THEN posts[k] ELSE IF k = i + 1 THEN new ELSE posts[k - 1]
    <3>1. posts \in Seq(Post) /\ new \in Post /\ i \in 0 .. Len(posts)
      BY <1>1, <2>3, <2>4
    <3>2. ps = With(posts, i, new)
      BY <2>4 DEF With
    <3>3. ps \in Seq(Post) /\ InsertedAt(posts, i, new, ps)
      BY <3>1, <3>2, Inserted
    <3> QED BY <3>3 DEF InsertedAt
  <2>6. Len(posts) \in Nat /\ DOMAIN posts = 1 .. Len(posts) /\ DOMAIN ps = 1 .. Len(posts) + 1 /\ i \in Nat /\ i <= Len(posts)
    <3>1. Len(posts) \in Nat /\ DOMAIN posts = 1 .. Len(posts)
      BY <1>1
    <3>2. i \in Nat /\ i <= Len(posts)
      BY <2>4, <3>1
    <3>3. DOMAIN ps = 1 .. Len(ps)
      BY <2>5
    <3> QED BY <2>5, <3>1, <3>2, <3>3
  <2>7. \A k \in DOMAIN posts : posts[k].id # r
    BY <2>1 DEF Unnamed
  <2>8. new.id = r
    BY <2>3
  <2>9. \A k \in DOMAIN ps : \/ k <= i /\ k \in DOMAIN posts /\ ps[k] = posts[k]
                             \/ k = i + 1 /\ ps[k] = new
                             \/ k > i + 1 /\ k - 1 \in DOMAIN posts /\ ps[k] = posts[k - 1]
    BY <2>5, <2>6
  <2>10. \A k, l \in DOMAIN posts : posts[k].id = posts[l].id => k = l
    BY <1>1 DEF DistinctPosts
  <2>11. ASSUME NEW k \in DOMAIN ps, NEW l \in DOMAIN ps, ps[k].id = ps[l].id PROVE k = l
    <3>1. \A m \in DOMAIN ps : m = i + 1 <=> ps[m].id = r
      BY <2>6, <2>7, <2>8, <2>9
    <3>2. CASE k = i + 1 \/ l = i + 1
      BY <2>11, <3>1, <3>2
    <3>3. CASE k # i + 1 /\ l # i + 1
      <4>1. PICK a \in DOMAIN posts : ps[k] = posts[a] /\ ((k <= i /\ a = k) \/ (k > i + 1 /\ a = k - 1))
        BY <2>9, <3>3
      <4>2. PICK b \in DOMAIN posts : ps[l] = posts[b] /\ ((l <= i /\ b = l) \/ (l > i + 1 /\ b = l - 1))
        BY <2>9, <3>3
      <4>3. a = b
        BY <2>10, <2>11, <4>1, <4>2
      <4>4. k \in Nat /\ l \in Nat /\ i \in Nat
        BY <2>6
      <4> QED BY <4>1, <4>2, <4>3, <4>4
    <3> QED BY <3>2, <3>3
  <2>12. ASSUME NEW k \in DOMAIN posts PROVE \E l \in DOMAIN ps : ps[l] = posts[k]
    <3>1. CASE k <= i
      BY <2>5, <2>6, <3>1
    <3>2. CASE k > i
      <4>1. k + 1 \in DOMAIN ps /\ ps[k + 1] = posts[k]
        BY <2>5, <2>6, <3>2
      <4> QED BY <4>1
    <3> QED BY <2>6, <3>1, <3>2
  <2>13. i + 1 \in DOMAIN ps /\ ps[i + 1] = new
    BY <2>5, <2>6
  <2>14. \A l \in DOMAIN ps : \/ \E k \in DOMAIN posts : ps[l] = posts[k] /\ posts[k].id # q.post
                             \/ ps[l] = new
    BY <2>1, <2>7, <2>9
  <2> QED BY <2>1, <2>2, <2>5, <2>11, <2>12, <2>13, <2>14
<1>5. CASE ~ q.made
  <2>1. ps = [k \in DOMAIN posts |-> IF posts[k].id = q.post /\ q.generation # None
                                     THEN [posts[k] EXCEPT !.generations = Append(@, q.generation)] ELSE posts[k]]
    BY <1>5 DEF Published
  <2>2. ASSUME NEW k \in DOMAIN posts, posts[k].id = q.post, q.generation # None
        PROVE  ps[k] = Extended(q) /\ ps[k] \in Post
    <3>1. posts[k] \in Post /\ posts[k].generations = Attempts(q.post)
      BY <1>1, <2>2, AttemptsOf
    <3>2. ps[k] = [posts[k] EXCEPT !.generations = Append(Attempts(q.post), q.generation)]
      BY <2>1, <2>2, <3>1
    <3>3. ps[k] = Extended(q)
      BY <2>2, <3>1, <3>2 DEF Extended, Post
    <3> QED BY <1>3, <2>2, <3>3
  <2>3. \A k \in DOMAIN posts : ~ (posts[k].id = q.post /\ q.generation # None) => ps[k] = posts[k]
    BY <2>1
  <2>4. DOMAIN ps = DOMAIN posts /\ DOMAIN posts = 1 .. Len(posts) /\ Len(posts) \in Nat
    BY <1>1, <2>1
  <2>5. \A k \in DOMAIN posts : ps[k] \in Post /\ ps[k].id = posts[k].id
    <3>1. \A k \in DOMAIN posts : posts[k] \in Post
      BY <1>1
    <3>2. Extended(q).id = q.post
      BY DEF Extended
    <3> QED BY <2>2, <2>3, <3>1, <3>2
  <2>6. ps \in Seq(Post)
    <3>1. ps \in [1 .. Len(posts) -> Post]
      BY <2>1, <2>4, <2>5
    <3> QED BY <2>4, <3>1
  <2>7. \A k, l \in DOMAIN ps : ps[k].id = ps[l].id => k = l
    BY <1>1, <2>4, <2>5 DEF DistinctPosts
  <2>8. q.generation # None => \E l \in DOMAIN ps : ps[l] = Extended(q)
    <3>1. SUFFICES ASSUME q.generation # None PROVE \E l \in DOMAIN ps : ps[l] = Extended(q)
      OBVIOUS
    <3>2. ~ Unnamed(q.post)
      BY <1>2, <1>5, <3>1 DEF Posted, Queued
    <3>3. PICK k \in DOMAIN posts : posts[k].id = q.post
      BY <3>2 DEF Unnamed
    <3> QED BY <2>2, <2>4, <3>1, <3>3
  <2> QED BY <2>2, <2>3, <2>4, <2>6, <2>7, <2>8
<1> QED BY <1>4, <1>5

\* What a commit adds to the conversation: nothing, an answer, or a message and
\* its answer.
LEMMA CommittedMessages ==
    ASSUME Inv, NEW r \in Requests, NEW q, q = req[r], q.pc = "commit"
    PROVE  \E ms \in Seq(Message) :
           /\ ms = messages \o q.said
           /\ Len(messages) <= Len(ms) /\ \A i \in 1 .. Len(messages) : ms[i] = messages[i]
           /\ \A i \in DOMAIN ms \ DOMAIN messages : ms[i].role = "user" =>
                 ms[i].text \in Texts /\ i + 1 \in DOMAIN ms /\ ms[i + 1].answers = i
           /\ q.message > 0 => \E j \in DOMAIN ms : ms[j].answers = q.message
           /\ q.text # None => \E i \in DOMAIN ms : ms[i].role = "user" /\ ms[i].text = q.text
           /\ Conversation \notin q.locks => ms = messages
<1>1. messages \in Seq(Message) /\ Len(messages) \in Nat /\ DOMAIN messages = 1 .. Len(messages)
  BY DEF Inv, Committed
<1>2. RequestInv(r, q) /\ Spoken(q) /\ q.said \in Seq(Message) /\ q.message \in Nat /\ q.text \in {None} \cup Texts
  BY DEF Inv, RequestInv, Request
<1>3. q.pc \in Decided /\ q.pc \in Answered
  BY DEF Decided, Answered
<1>4. PICK ms : ms = messages \o q.said
  OBVIOUS
<1>5. ms \in Seq(Message)
  BY <1>1, <1>2, <1>4
<1>6. CASE q.message = 0
  <2>1. q.said = <<>> /\ q.text = None
    BY <1>2, <1>3, <1>6 DEF Spoken
  <2>2. ms = messages
    BY <1>1, <1>4, <2>1
  <2> QED BY <1>1, <1>4, <1>6, <2>1, <2>2
<1>7. CASE q.message > 0 /\ NewTurn(q)
  <2>1. q.said = <<UserMessage(q.text), AssistantMessage(q.message)>> /\ q.message = Len(messages) + 1
        /\ Conversation \in q.locks /\ q.text \in Texts
    BY <1>2, <1>3, <1>7 DEF NewTurn, Spoken
  <2>2. UserMessage(q.text) \in Message /\ AssistantMessage(q.message) \in Message
    BY <1>2, <2>1 DEF UserMessage, AssistantMessage, Message
  <2>3. /\ Len(ms) = Len(messages) + 2 /\ DOMAIN ms = 1 .. Len(messages) + 2
        /\ \A i \in 1 .. Len(messages) : ms[i] = messages[i]
        /\ ms[Len(messages) + 1] = UserMessage(q.text) /\ ms[Len(messages) + 2] = AssistantMessage(q.message)
    <3>1. PICK u \in Message : u = UserMessage(q.text)
      BY <2>2
    <3>2. PICK a \in Message : a = AssistantMessage(q.message)
      BY <2>2
    <3>3. PICK n \in Nat : n = Len(messages)
      BY <1>1
    <3>4. ms = messages \o <<u, a>>
      BY <1>4, <2>1, <3>1, <3>2
    <3>5. Len(ms) = n + 2 /\ (\A i \in 1 .. n : ms[i] = messages[i]) /\ ms[n + 1] = u /\ ms[n + 2] = a
      BY <1>1, <3>3, <3>4
    <3>6. DOMAIN ms = 1 .. Len(ms)
      BY <1>5
    <3> QED BY <3>1, <3>2, <3>3, <3>5, <3>6
  <2>4. Len(messages) + 1 \in DOMAIN ms /\ Len(messages) + 2 \in DOMAIN ms /\ Len(messages) <= Len(ms)
    BY <1>1, <2>3
  <2>5. ms[Len(messages) + 1].role = "user" /\ ms[Len(messages) + 1].text = q.text
        /\ ms[Len(messages) + 2].role = "assistant" /\ ms[Len(messages) + 2].answers = Len(messages) + 1
    BY <2>1, <2>3 DEF UserMessage, AssistantMessage
  <2>6. \A i \in DOMAIN ms \ DOMAIN messages : i = Len(messages) + 1 \/ i = Len(messages) + 2
    BY <1>1, <2>3
  <2>7. ASSUME NEW i \in DOMAIN ms \ DOMAIN messages, ms[i].role = "user"
        PROVE  ms[i].text \in Texts /\ i + 1 \in DOMAIN ms /\ ms[i + 1].answers = i
    <3>1. i = Len(messages) + 1 /\ i + 1 = Len(messages) + 2
      BY <1>1, <2>5, <2>6, <2>7
    <3> QED BY <2>1, <2>4, <2>5, <3>1
  <2>8. \E j \in DOMAIN ms : ms[j].answers = q.message
    BY <2>1, <2>4, <2>5
  <2>9. \E i \in DOMAIN ms : ms[i].role = "user" /\ ms[i].text = q.text
    BY <2>4, <2>5
  <2> QED BY <1>4, <1>5, <2>1, <2>3, <2>4, <2>7, <2>8, <2>9
<1>8. CASE q.message > 0 /\ StoredTurn(q)
  <2>1. q.said = <<AssistantMessage(q.message)>> /\ q.message \in 1 .. Len(messages) /\ Conversation \in q.locks
        /\ messages[q.message].role = "user" /\ messages[q.message].text = q.text
    BY <1>3, <1>8 DEF StoredTurn
  <2>2. AssistantMessage(q.message) \in Message
    BY <1>2 DEF AssistantMessage, Message
  <2>3. /\ Len(ms) = Len(messages) + 1 /\ DOMAIN ms = 1 .. Len(messages) + 1
        /\ \A i \in 1 .. Len(messages) : ms[i] = messages[i]
        /\ ms[Len(messages) + 1] = AssistantMessage(q.message)
    <3>1. PICK a \in Message : a = AssistantMessage(q.message)
      BY <2>2
    <3>2. PICK n \in Nat : n = Len(messages)
      BY <1>1
    <3>3. ms = messages \o <<a>>
      BY <1>4, <2>1, <3>1
    <3>4. Len(ms) = n + 1 /\ (\A i \in 1 .. n : ms[i] = messages[i]) /\ ms[n + 1] = a
      BY <1>1, <3>2, <3>3
    <3>5. DOMAIN ms = 1 .. Len(ms)
      BY <1>5
    <3> QED BY <3>1, <3>2, <3>4, <3>5
  <2>4. Len(messages) + 1 \in DOMAIN ms /\ q.message \in DOMAIN ms /\ Len(messages) <= Len(ms)
    BY <1>1, <2>1, <2>3
  <2>5. ms[Len(messages) + 1].role = "assistant" /\ ms[Len(messages) + 1].answers = q.message
    BY <2>3 DEF AssistantMessage
  <2>6. \A i \in DOMAIN ms \ DOMAIN messages : ms[i].role # "user"
    BY <1>1, <2>3, <2>5
  <2>7. ms[q.message].role = "user" /\ ms[q.message].text = q.text
    BY <2>1, <2>3
  <2> QED BY <1>4, <1>5, <2>1, <2>3, <2>4, <2>5, <2>6, <2>7
<1>9. q.message = 0 \/ (q.message > 0 /\ NewTurn(q)) \/ (q.message > 0 /\ StoredTurn(q))
  BY <1>2 DEF Spoken
<1> QED BY <1>6, <1>7, <1>8, <1>9

\* The generations of one post have different keys.
LEMMA KeysApart ==
    ASSUME Inv, NEW p, NEW i \in DOMAIN Attempts(p), NEW j \in DOMAIN Attempts(p),
           Attempts(p)[i].key = Attempts(p)[j].key
    PROVE  i = j
<1>1. ~ Unnamed(p)
  BY AttemptsOfNone
<1>2. PICK k \in DOMAIN posts : posts[k].id = p
  BY <1>1 DEF Unnamed
<1>3. Attempts(p) = posts[k].generations
  BY <1>2, AttemptsOf DEF Inv, Committed
<1> QED BY <1>2, <1>3 DEF Inv, Committed, OneGenerationPerKey

LEMMA InListed ==
    ASSUME NEW ps, NEW g, NEW k \in DOMAIN ps, g \in {ps[k].id} \X DOMAIN ps[k].generations
    PROVE  g \in UNION {{ps[l].id} \X DOMAIN ps[l].generations : l \in DOMAIN ps}
OBVIOUS

\* A commit loses no generation, and adds what the request was going to queue.
LEMMA CommitKeepsGenerations ==
    ASSUME Inv, NEW r \in Requests, Commit(r), NEW q, q = req[r]
    PROVE  AllGenerations \subseteq AllGenerations' /\ Upcoming(q) \subseteq AllGenerations'
<1>1. q.pc = "commit" /\ q \in Request /\ Queued(q) /\ DistinctPosts
  BY DEF Inv, RequestInv, Commit, At, Committed
<1>2. PICK ps \in Published(r) : ps = posts'
  BY DEF Commit
<1>3. /\ \A k \in DOMAIN posts :
           \/ q.generation # None /\ posts[k].id = q.post
           \/ \E l \in DOMAIN ps : ps[l] = posts[k]
      /\ q.generation # None => \E l \in DOMAIN ps : ps[l] = Extended(q)
  BY <1>1, PublishedFacts
<1>4. PICK attempts \in Seq(Generation) : attempts = Attempts(q.post)
  BY AttemptsType DEF Inv, Committed
<1>5. q.generation # None =>
         /\ Extended(q).id = q.post /\ Extended(q).generations = Append(attempts, q.generation)
         /\ q.generation \in Generation
  BY <1>1, <1>4 DEF Extended, Request
<1>6. AllGenerations' = UNION {{ps[l].id} \X DOMAIN ps[l].generations : l \in DOMAIN ps}
  BY <1>2 DEF AllGenerations
<1>7. q.generation # None => \A n \in 1 .. Len(attempts) + 1 : <<q.post, n>> \in AllGenerations'
  <2>1. SUFFICES ASSUME q.generation # None, NEW n \in 1 .. Len(attempts) + 1 PROVE <<q.post, n>> \in AllGenerations'
    OBVIOUS
  <2>2. PICK l \in DOMAIN ps : ps[l] = Extended(q)
    BY <1>3, <2>1
  <2>3. DOMAIN Append(attempts, q.generation) = 1 .. Len(attempts) + 1
    BY <1>4, <1>5, <2>1
  <2>4. <<q.post, n>> \in {ps[l].id} \X DOMAIN ps[l].generations
    BY <1>5, <2>1, <2>2, <2>3
  <2> QED BY <1>6, <2>2, <2>4, InListed
<1>8. ASSUME NEW g \in AllGenerations PROVE g \in AllGenerations'
  <2>1. PICK k \in DOMAIN posts : g \in {posts[k].id} \X DOMAIN posts[k].generations
    BY InAllGenerations
  <2>2. CASE q.generation # None /\ posts[k].id = q.post
    <3>1. posts[k].generations = attempts
      BY <1>1, <1>4, <2>2, AttemptsOf
    <3>2. PICK n \in DOMAIN attempts : g = <<q.post, n>>
      BY <2>1, <2>2, <3>1
    <3>3. n \in 1 .. Len(attempts) + 1
      BY <1>4, <3>2
    <3> QED BY <1>7, <2>2, <3>2, <3>3
  <2>3. CASE \E l \in DOMAIN ps : ps[l] = posts[k]
    BY <1>6, <2>1, <2>3, InListed
  <2> QED BY <1>3, <2>2, <2>3
<1>9. Upcoming(q) \subseteq AllGenerations'
  <2>1. CASE q.generation = None
    BY <2>1 DEF Upcoming
  <2>2. CASE q.generation # None
    <3>1. Upcoming(q) = {<<q.post, Len(attempts) + 1>>}
      BY <1>4, <2>2 DEF Upcoming
    <3>2. Len(attempts) + 1 \in 1 .. Len(attempts) + 1
      BY <1>4
    <3> QED BY <1>7, <2>2, <3>1, <3>2
  <2> QED BY <2>1, <2>2
<1> QED BY <1>8, <1>9

LEMMA CommitStep ==
    ASSUME Inv, NEW r \in Requests, Commit(r) PROVE Inv'
<1>1. PICK q : q = req[r]
  OBVIOUS
<1>2. RequestInv(r, q) /\ q \in Request /\ q.pc = "commit"
  BY <1>1 DEF Inv, RequestInv, Commit, At
<1>3. Posted(r, q) /\ Queued(q) /\ q.context \in Context(Ref) /\ Recalls(q) /\ Sourced(q)
  BY <1>2 DEF RequestInv, Decided, Answered
<1>4. PICK ms \in Seq(Message) :
           /\ ms = messages \o q.said
           /\ Len(messages) <= Len(ms) /\ \A i \in 1 .. Len(messages) : ms[i] = messages[i]
           /\ \A i \in DOMAIN ms \ DOMAIN messages : ms[i].role = "user" =>
                 ms[i].text \in Texts /\ i + 1 \in DOMAIN ms /\ ms[i + 1].answers = i
           /\ q.message > 0 => \E j \in DOMAIN ms : ms[j].answers = q.message
           /\ q.text # None => \E i \in DOMAIN ms : ms[i].role = "user" /\ ms[i].text = q.text
           /\ Conversation \notin q.locks => ms = messages
  BY <1>1, <1>2, CommittedMessages
<1>5. messages' = ms /\ messages \in Seq(Message)
  BY <1>1, <1>4 DEF Commit, Inv, Committed
<1>6. Grown
  BY <1>4, <1>5 DEF Grown
<1>7. PICK ps \in Published(r) : ps = posts'
  BY DEF Commit
<1>8. /\ ps \in Seq(Post) /\ \A k, l \in DOMAIN ps : ps[k].id = ps[l].id => k = l
      /\ \A l \in DOMAIN ps :
           \/ \E k \in DOMAIN posts : ps[l] = posts[k] /\ (q.generation # None => posts[k].id # q.post)
           \/ q.generation # None /\ ps[l] = Extended(q)
      /\ \A k \in DOMAIN posts :
           \/ q.generation # None /\ posts[k].id = q.post
           \/ \E l \in DOMAIN ps : ps[l] = posts[k]
      /\ q.generation # None => \E l \in DOMAIN ps : ps[l] = Extended(q)
  BY <1>1, <1>2, <1>7, PublishedFacts
<1>9. posts \in Seq(Post) /\ DistinctPosts /\ Attempts(q.post) \in Seq(Generation)
  BY AttemptsType DEF Inv, Committed
<1>10. PICK attempts \in Seq(Generation) : attempts = Attempts(q.post)
  BY <1>9
<1>11. q.generation # None =>
         /\ Extended(q).id = q.post /\ Extended(q).generations = Append(attempts, q.generation)
         /\ q.generation \in Generation /\ q.post \in Requests
  BY <1>2, <1>3, <1>10 DEF Extended, Request, Queued
<1>12. DistinctPosts'
  BY <1>7, <1>8 DEF DistinctPosts
<1>13. OneGenerationPerKey'
  <2>1. ASSUME NEW l \in DOMAIN ps, NEW i \in DOMAIN ps[l].generations, NEW j \in DOMAIN ps[l].generations,
               ps[l].generations[i].key = ps[l].generations[j].key
        PROVE  i = j
    <3>1. CASE \E k \in DOMAIN posts : ps[l] = posts[k]
      BY <2>1, <3>1 DEF Inv, Committed, OneGenerationPerKey
    <3>2. CASE q.generation # None /\ ps[l] = Extended(q)
      <4>1. PICK g \in Generation : g = q.generation
        BY <1>11, <3>2
      <4>2. ps[l].generations = Append(attempts, g)
        BY <1>11, <3>2, <4>1
      <4>3. \A a, b \in DOMAIN attempts : attempts[a].key = attempts[b].key => a = b
        BY <1>10, KeysApart
      <4>4. \A a \in DOMAIN attempts : attempts[a].key # g.key
        BY <1>3, <1>10, <3>2, <4>1 DEF Queued
      <4>5. Len(attempts) \in Nat /\ DOMAIN attempts = 1 .. Len(attempts)
            /\ DOMAIN Append(attempts, g) = 1 .. Len(attempts) + 1 /\ Append(attempts, g)[Len(attempts) + 1] = g
            /\ \A a \in 1 .. Len(attempts) : Append(attempts, g)[a] = attempts[a]
        BY <1>10, <4>1
      <4>6. PICK list : list = Append(attempts, g)
        OBVIOUS
      <4> QED BY <2>1, <4>2, <4>3, <4>4, <4>5, <4>6
    <3> QED BY <1>8, <3>1, <3>2
  <2> QED BY <1>7, <2>1 DEF OneGenerationPerKey
<1>14. AllGenerations \subseteq AllGenerations' /\ Upcoming(q) \subseteq AllGenerations'
  BY <1>1, CommitKeepsGenerations
<1>15. UserTexts(Len(messages)) \subseteq UserTexts(Len(messages))'
  BY <1>5, <1>6, UserTextsGrow
<1>16. Said(Len(messages), q.text) \subseteq UserTexts(Len(messages))'
  <2>1. CASE q.text = None
    BY <1>15, <2>1 DEF Said
  <2>2. CASE q.text # None
    <3>1. PICK i \in DOMAIN ms : ms[i].role = "user" /\ ms[i].text = q.text
      BY <1>4, <2>2
    <3>2. i \in 1 .. Len(ms)
      BY <1>4, <3>1
    <3>3. q.text \in UserTexts(Len(messages))'
      BY <1>5, <3>1, <3>2 DEF UserTexts, WrittenBy
    <3> QED BY <1>15, <2>2, <3>3 DEF Said
  <2> QED BY <2>1, <2>2
<1>19. Worded'
  <2>1. ASSUME NEW i \in DOMAIN ms, ms[i].role = "user" PROVE ms[i].text \in Texts
    <3>1. CASE i \in DOMAIN messages
      <4>1. ms[i] = messages[i]
        BY <1>4, <1>5, <3>1
      <4> QED BY <2>1, <3>1, <4>1 DEF Inv, Committed, Worded
    <3>2. CASE i \notin DOMAIN messages
      BY <1>4, <2>1, <3>2
    <3> QED BY <3>1, <3>2
  <2> QED BY <1>5, <2>1 DEF Worded
<1>17. PICK S : S = UserTexts(Len(messages))'
  OBVIOUS
<1>32. S \subseteq Text
  <2>1. S = WrittenBy(messages', Len(messages'))
    BY <1>17 DEF UserTexts
  <2>2. DOMAIN messages' = 1 .. Len(messages')
    BY <1>4, <1>5
  <2>3. \A i \in 1 .. Len(messages') : messages'[i].role = "user" => messages'[i].text \in Texts
    BY <1>19, <2>2, Zenon DEF Worded
  <2> QED BY <2>1, <2>3, WrittenTexts
<1>18. Marked(q.context) /\ Stands(q.context.facts, S)
       /\ (q.generation # None => q.generation.brief["goal"] # Promotion /\ Stands(q.generation.brief, S))
  <2>1. PICK T : T = Said(Len(messages), q.text)
    OBVIOUS
  <2>2. T \subseteq S
    BY <1>16, <1>17, <2>1
  <2> QED BY <1>3, <1>32, <2>1, <2>2, StandsMore DEF Sourced
<1>20. TurnsWhole'
  <2>1. \A i \in DOMAIN messages : i \in DOMAIN ms /\ ms[i] = messages[i]
    BY <1>4, <1>5
  <2>2. ASSUME NEW i \in DOMAIN ms, ms[i].role = "user", ~ ms[i].alone
        PROVE  i + 1 \in DOMAIN ms /\ ms[i + 1].answers = i
    <3>1. CASE i \in DOMAIN messages
      <4>1. i + 1 \in DOMAIN messages /\ messages[i + 1].answers = i
        BY <2>1, <2>2, <3>1 DEF Inv, Committed, TurnsWhole
      <4> QED BY <2>1, <4>1
    <3>2. CASE i \notin DOMAIN messages
      BY <1>4, <2>2, <3>2
    <3> QED BY <3>1, <3>2
  <2>3. ASSUME NEW p, NEW i \in DOMAIN Attempts(p), Attempts(p)[i].key[1] = "turn"
        PROVE  \E j \in DOMAIN ms : ms[j].answers = Attempts(p)[i].key[2]
    <3>1. ~ Unnamed(p)
      BY <2>3, AttemptsOfNone
    <3>2. PICK k \in DOMAIN posts : posts[k].id = p
      BY <3>1 DEF Unnamed
    <3>3. Attempts(p) = posts[k].generations
      BY <1>9, <3>2, AttemptsOf
    <3>4. \E j \in DOMAIN messages : messages[j].answers = Attempts(p)[i].key[2]
      BY <2>3, <3>2, <3>3 DEF Inv, Committed, TurnsWhole
    <3> QED BY <2>1, <3>4
  <2>4. ASSUME NEW l \in DOMAIN ps, NEW i \in DOMAIN ps[l].generations, ps[l].generations[i].key[1] = "turn"
        PROVE  \E j \in DOMAIN ms : ms[j].answers = ps[l].generations[i].key[2]
    <3>1. CASE \E k \in DOMAIN posts : ps[l] = posts[k]
      <4>1. PICK k \in DOMAIN posts : ps[l] = posts[k]
        BY <3>1
      <4>2. Attempts(posts[k].id) = ps[l].generations
        BY <1>9, <4>1, AttemptsOf
      <4> QED BY <2>3, <2>4, <4>2
    <3>2. CASE q.generation # None /\ ps[l] = Extended(q)
      <4>1. ps[l].generations = Append(attempts, q.generation)
        BY <1>11, <3>2
      <4>2. CASE i = Len(attempts) + 1
        <5>1. ps[l].generations[i] = q.generation
          BY <1>10, <1>11, <3>2, <4>1, <4>2
        <5>2. q.message > 0 /\ q.generation.key[2] = q.message
          BY <1>3, <2>4, <3>2, <5>1 DEF Queued
        <5> QED BY <1>4, <5>1, <5>2
      <4>3. CASE i # Len(attempts) + 1
        <5>1. i \in DOMAIN attempts /\ ps[l].generations[i] = attempts[i]
          BY <1>10, <1>11, <2>4, <3>2, <4>1, <4>3
        <5> QED BY <1>10, <2>3, <2>4, <5>1
      <4> QED BY <4>2, <4>3
    <3> QED BY <1>8, <3>1, <3>2
  <2> QED BY <1>5, <1>7, <2>2, <2>4 DEF TurnsWhole
<1>21. BriefsAreStated'
  <2>1. ASSUME NEW l \in DOMAIN ps, NEW i \in DOMAIN ps[l].generations
        PROVE  ps[l].generations[i].brief["goal"] # Promotion /\ Stands(ps[l].generations[i].brief, S)
    <3>1. ASSUME NEW k \in DOMAIN posts, NEW j \in DOMAIN posts[k].generations
          PROVE  posts[k].generations[j].brief["goal"] # Promotion /\ Stands(posts[k].generations[j].brief, S)
      <4>1. PICK brief : brief = posts[k].generations[j].brief
        OBVIOUS
      <4>2. brief["goal"] # Promotion /\ Stands(brief, UserTexts(Len(messages)))
        BY <4>1 DEF Inv, Committed, BriefsAreStated, Stands, Grounded
      <4> QED BY <1>15, <1>17, <1>32, <4>1, <4>2, StandsMore
    <3>2. CASE \E k \in DOMAIN posts : ps[l] = posts[k]
      BY <2>1, <3>1, <3>2
    <3>3. CASE q.generation # None /\ ps[l] = Extended(q)
      <4>1. ps[l].generations = Append(attempts, q.generation)
        BY <1>11, <3>3
      <4>2. CASE i = Len(attempts) + 1
        <5>1. ps[l].generations[i] = q.generation
          BY <1>10, <1>11, <3>3, <4>1, <4>2
        <5> QED BY <1>18, <3>3, <5>1
      <4>3. CASE i # Len(attempts) + 1
        <5>1. i \in DOMAIN attempts /\ ps[l].generations[i] = attempts[i]
          BY <1>10, <1>11, <2>1, <3>3, <4>1, <4>3
        <5>2. ~ Unnamed(q.post)
          BY <1>10, <5>1, AttemptsOfNone
        <5>3. PICK k \in DOMAIN posts : posts[k].id = q.post
          BY <5>2 DEF Unnamed
        <5>4. attempts = posts[k].generations
          BY <1>9, <1>10, <5>3, AttemptsOf
        <5> QED BY <3>1, <5>1, <5>3, <5>4
      <4> QED BY <4>2, <4>3
    <3> QED BY <1>8, <3>2, <3>3
  <2> QED BY <1>7, <1>17, <2>1 DEF BriefsAreStated, Stands, Grounded
<1>22. context' \in {None} \cup Context(Ref) /\ RefsExist'
       /\ (context' # None => Marked(context') /\ Stands(context'.facts, S))
  <2>1. CASE q.saved
    <3>1. context' = q.context
      BY <1>1, <2>1 DEF Commit
    <3>2. \A i \in DOMAIN q.context.generated_posts :
             /\ q.context.generated_posts[i].generation \in AllGenerations'
             /\ q.context.generated_posts[i].revises \in AllGenerations' \cup {None}
      BY <1>3, <1>14 DEF Recalls
    <3> QED BY <1>3, <1>18, <3>1, <3>2 DEF RefsExist
  <2>2. CASE ~ q.saved
    <3>1. context' = context
      BY <1>1, <2>2 DEF Commit
    <3>2. context # None => Stands(context.facts, S)
      BY <1>15, <1>17, <1>32, StandsMore DEF Inv, Committed
    <3>3. RefsExist'
      BY <1>14, <3>1 DEF Inv, Committed, RefsExist
    <3> QED BY <3>1, <3>2, <3>3 DEF Inv, Committed
  <2> QED BY <2>1, <2>2
<1>23. told' \in Update /\ overlapped' \in BOOLEAN
  <2>1. q.stated \in Update /\ told \in Update /\ overlapped \in BOOLEAN
    BY <1>2 DEF Request, Inv, Committed
  <2>2. told' \in {q.stated, told} /\ overlapped' = overlapped
    BY <1>1 DEF Commit
  <2> QED BY <2>1, <2>2
<1>24. Committed'
  <2>1. context' # None => Marked(context') /\ Stands(context'.facts, UserTexts(Len(messages))')
    BY <1>17, <1>22
  <2> QED BY <1>4, <1>5, <1>7, <1>8, <1>12, <1>13, <1>19, <1>20, <1>21, <1>22, <1>23, <2>1 DEF Committed, Marked
<1>25. DOMAIN req = Requests /\ LockInv /\ req \in [Requests -> Request]
       /\ req' = [req EXCEPT ![r] = Idle] /\ Idle.locks = {}
  BY DEF Inv, Commit, Step, Idle
<1>26. LockInv'
  BY <1>25, LockStep
<1>27. \A x : Unnamed(x) /\ x # r => Unnamed(x)'
  <2>1. SUFFICES ASSUME NEW x, Unnamed(x), x # r PROVE Unnamed(x)'
    OBVIOUS
  <2>2. q.generation # None => q.post # x
    <3>1. CASE q.made
      BY <1>3, <2>1, <3>1 DEF Posted
    <3>2. CASE ~ q.made
      BY <1>3, <2>1, <3>2 DEF Posted, Queued
    <3> QED BY <3>1, <3>2
  <2>3. \A l \in DOMAIN ps : ps[l].id # x
    BY <1>8, <1>11, <2>1, <2>2 DEF Unnamed
  <2> QED BY <1>7, <2>3 DEF Unnamed
<1>28. \A x : ~ Unnamed(x) => ~ Unnamed(x)'
  <2>1. SUFFICES ASSUME NEW x, ~ Unnamed(x) PROVE \E l \in DOMAIN ps : ps[l].id = x
    BY <1>7 DEF Unnamed
  <2>2. PICK k \in DOMAIN posts : posts[k].id = x
    BY <2>1 DEF Unnamed
  <2> QED BY <1>8, <1>11, <2>2
<1>29. ASSUME NEW x, x # r \/ ~ Unnamed(x), q.generation # None => q.post # x PROVE Attempts(x)' = Attempts(x)
  <2>1. CASE Unnamed(x)
    <3>1. Unnamed(x)'
      BY <1>27, <1>29, <2>1
    <3>2. Attempts(x)' = <<>>
      BY <3>1 DEF Attempts, Unnamed
    <3> QED BY <2>1, <3>2, AttemptsOfNone
  <2>2. CASE ~ Unnamed(x)
    <3>1. PICK k \in DOMAIN posts : posts[k].id = x
      BY <2>2 DEF Unnamed
    <3>2. PICK l \in DOMAIN ps : ps[l] = posts[k]
      BY <1>8, <1>29, <3>1
    <3>3. {j \in DOMAIN ps : ps[j].id = x} = {l}
      BY <1>8, <3>1, <3>2
    <3>4. (CHOOSE j \in {l} : TRUE) = l
      OBVIOUS
    <3>5. Attempts(x)' = ps[l].generations
      BY <1>7, <3>3, <3>4 DEF Attempts
    <3> QED BY <1>9, <3>1, <3>2, <3>5, AttemptsOf
  <2> QED BY <2>1, <2>2
<1>30. ASSUME NEW p \in Requests PROVE RequestInv(p, req[p])'
  <2>1. CASE p = r
    <3>1. req'[p] = Idle /\ messages' \in Seq(Message)
      BY <1>5, <1>25, <2>1
    <3>2. RequestInv(p, Idle)'
      BY <3>1, IdleKept
    <3> QED BY <3>1, <3>2
  <2>2. CASE p # r
    <3>1. PICK o : o = req[p]
      OBVIOUS
    <3>2. req'[p] = o /\ RequestInv(p, o)
      BY <1>25, <2>2, <3>1 DEF Inv
    <3>3. Conversation \in o.locks => messages' = messages
      BY <1>1, <1>4, <1>5, <1>25, <2>2, <3>1 DEF LockInv, Exclusive
    <3>4. o.generation # None => Attempts(o.post)' = Attempts(o.post)
      <4>1. SUFFICES ASSUME o.generation # None PROVE Attempts(o.post)' = Attempts(o.post)
        OBVIOUS
      <4>2. Posted(p, o) /\ Queued(o)
        BY <3>2 DEF RequestInv
      <4>3. PostLock(o.post) \in o.locks /\ o.post \in Requests
        BY <3>2, <4>1, <4>2 DEF Queued, RequestInv, Request
      <4>4. o.post # r \/ ~ Unnamed(o.post)
        BY <2>2, <4>1, <4>2 DEF Posted, Queued
      <4>5. q.generation # None => q.post # o.post
        BY <1>1, <1>3, <1>25, <2>2, <3>1, <4>3 DEF Queued, LockInv, Exclusive
      <4> QED BY <1>29, <4>4, <4>5
    <3>5. Unnamed(p) => Unnamed(p)'
      BY <1>27, <2>2
    <3>6. RequestInv(p, o)'
      BY <1>5, <1>6, <1>14, <1>19, <1>28, <3>2, <3>3, <3>4, <3>5, RequestKept
    <3> QED BY <3>2, <3>6
  <2> QED BY <2>1, <2>2
<1>31. DOMAIN req' = Requests /\ req' \in [Requests -> Request]
  BY <1>25, IdleType
<1> QED BY <1>24, <1>26, <1>30, <1>31 DEF Inv

----------------------------------------------------------------------------
LEMMA InitInv == Init => Inv
<1> SUFFICES ASSUME Init PROVE Inv
  OBVIOUS
<1>1. PICK h \in Histories : messages = h.messages /\ context = h.context
        /\ told = IF h.context = None THEN NoUpdate ELSE h.context.facts
  BY DEF Init
<1>2. messages \in Seq(Message) /\ context \in {None} \cup Context(Ref) /\ Worded
  BY <1>1, HistoriesAssumption DEF Worded
<1>3. posts = <<>> /\ req = [r \in Requests |-> Idle] /\ overlapped = FALSE
  BY DEF Init
<1>4. posts \in Seq(Post) /\ DOMAIN posts = {}
  BY <1>3
<1>5. told \in Update
  <2>1. NoUpdate \in Update
    BY DEF NoUpdate, Update
  <2>2. context # None => context.facts \in Update
    BY <1>2 DEF Context
  <2> QED BY <1>1, <2>1, <2>2
<1>6. DistinctPosts /\ OneGenerationPerKey /\ BriefsAreStated
  BY <1>4 DEF DistinctPosts, OneGenerationPerKey, BriefsAreStated
<1>7. TurnsWhole
  BY <1>1, <1>4, HistoriesAssumption DEF TurnsWhole
<1>8. RefsExist
  <2>1. context # None => context.generated_posts = <<>>
    BY <1>1, HistoriesAssumption
  <2> QED BY <2>1 DEF RefsExist
<1>9. context # None => Marked(context) /\ Stands(context.facts, UserTexts(Len(messages)))
  <2>1. SUFFICES ASSUME context # None PROVE Marked(context) /\ Stands(context.facts, UserTexts(Len(messages)))
    OBVIOUS
  <2>2. Marked(context)
    BY <1>1, <2>1, HistoriesAssumption DEF Marked
  <2>3. ASSUME NEW f \in QuotedFields, context.facts[f] # None
        PROVE  \E t \in UserTexts(Len(messages)) : context.facts[f] \in t.words
    <3>1. PICK i \in DOMAIN messages : messages[i].role = "user" /\ context.facts[f] \in messages[i].text.words
      BY <1>1, <2>1, <2>3, HistoriesAssumption
    <3>2. i \in 1 .. Len(messages)
      BY <1>2, <3>1
    <3>3. messages[i].text \in UserTexts(Len(messages))
      BY <3>1, <3>2, InUserTexts
    <3> QED BY <3>1, <3>3
  <2>4. LanguageTyped(context.facts["language"], UserTexts(Len(messages)))
    BY <1>1, <2>1, HistoriesAssumption DEF UserTexts
  <2> QED BY <2>2, <2>3, <2>4 DEF Stands, Grounded
<1>10. Committed
  BY <1>2, <1>3, <1>4, <1>5, <1>6, <1>7, <1>8, <1>9 DEF Committed
<1>11. LockInv
  <2>1. \A p \in Requests : req[p].locks = {}
    BY <1>3 DEF Idle
  <2> QED BY <2>1 DEF LockInv, Exclusive
<1>12. DOMAIN req = Requests /\ req \in [Requests -> Request]
  BY <1>3, IdleType
<1>13. \A r \in Requests : RequestInv(r, req[r])
  BY <1>2, <1>3, IdleInv
<1> QED BY <1>10, <1>11, <1>12, <1>13 DEF Inv

LEMMA NextInv == Inv /\ [Next]_vars => Inv'
<1> SUFFICES ASSUME Inv, [Next]_vars PROVE Inv'
  OBVIOUS
<1>1. ASSUME NEW text \in Texts, StoreMessage(text) PROVE Inv'
  BY <1>1, StoreMessageStep
<1>2. ASSUME NEW r \in Requests, NEW text \in Texts, StartTurn(r, text) PROVE Inv'
  BY <1>2, StartTurnStep
<1>3. ASSUME NEW r \in Requests, StartStoredTurn(r) PROVE Inv'
  BY <1>3, StartStoredTurnStep
<1>4. ASSUME NEW r \in Requests, StartCommand(r) PROVE Inv'
  BY <1>4, StartCommandStep
<1>5. ASSUME NEW r \in Requests, Acquire(r) PROVE Inv'
  BY <1>5, AppendUserStep, CreatePostStep, RequestGenerationStep, AppendAssistantStep, SaveContextStep,
     InsertContextStep DEF Acquire
<1>6. ASSUME NEW r \in Requests, Proceed(r) PROVE Inv'
  BY <1>6, UnderstandStep, FindPostStep, CommitStep DEF Proceed
<1>7. ASSUME NEW r \in Requests, Fail(r) \/ BreakDeadlock(r) PROVE Inv'
  BY <1>7, RollbackStep DEF Fail, BreakDeadlock
<1>8. CASE UNCHANGED vars
  <2>1. UNCHANGED <<messages, context, posts, told, overlapped, req>>
    BY <1>8 DEF vars
  <2>2. Committed'
    BY <2>1, CommittedFrame DEF Inv, Committed
  <2>3. LockInv'
    BY <2>1 DEF Inv, LockInv, Exclusive
  <2>4. ASSUME NEW p \in Requests PROVE RequestInv(p, req[p])'
    <3>1. PICK q : q = req[p]
      OBVIOUS
    <3>2. RequestInv(p, q)'
      BY <2>1, <3>1, RequestFrame DEF Inv
    <3> QED BY <2>1, <3>1, <3>2
  <2> QED BY <2>1, <2>2, <2>3, <2>4 DEF Inv
<1> QED BY <1>1, <1>2, <1>3, <1>4, <1>5, <1>6, <1>7, <1>8 DEF Next

LEMMA Invariance == Spec => []Inv
BY InitInv, NextInv, PTL DEF Spec

----------------------------------------------------------------------------
(* Requests that follow one another.  While no two were in flight at once, the *)
(* one request in flight reads all that was committed and nothing changes      *)
(* under it, so what it is going to save is what the conversation knows.       *)

\* A page holds every message that a conversation within the bound has.
PageSuffices == MaxMessages + 1 <= HistoryLimit /\ \A h \in Histories : Len(h.messages) <= HistoryLimit

\* A context holds the given facts, but for what was inferred.
Keeps(c, facts) == \A f \in Fields \ c.inferred : c.facts[f] = facts[f]

GenerationsOf(list) == {list[i].generation : i \in DOMAIN list}
InSequence(list) ==
    \A i, j \in DOMAIN list :
       /\ list[i].generation = list[j].generation => i = j
       /\ list[i].revises = list[j].generation => j < i

AnswersEarlier == \A i \in DOMAIN messages : messages[i].answers < i

\* What is committed,
Remembering ==
    /\ Len(messages) <= HistoryLimit /\ Len(posts) <= 1 /\ Remembered = AllGenerations
    /\ context = None => told = NoUpdate
    /\ context # None => Keeps(context, told) /\ InSequence(context.generated_posts)

\* and what the one request in flight is going to commit.
Current(q) ==
    /\ q.seen = Len(messages)
    /\ q.pc = "append" => Len(messages) < MaxMessages
    /\ q.message > 0 => q.message >= Len(messages) /\ q.message <= MaxMessages
    /\ q.pc = "create" \/ q.made => posts = <<>>
    /\ q.pc \in Decided =>
         /\ Keeps(q.context, IF q.message > 0 THEN q.stated ELSE told)
         /\ GenerationsOf(q.context.generated_posts) = AllGenerations \cup Upcoming(q)
         /\ InSequence(q.context.generated_posts)
    /\ q.pc = "commit" => q.saved \/ (q.message = 0 /\ q.generation = None)

MemoryInv ==
    /\ AnswersEarlier
    /\ ~ overlapped =>
         /\ Remembering
         /\ \A r \in Requests : req[r].pc # "idle" =>
              Current(req[r]) /\ \A p \in Requests \ {r} : req[p].pc = "idle"

----------------------------------------------------------------------------
(* What the helpers do to a sequence of generations and to stated facts. *)

LEMMA SequenceGrows ==
    ASSUME NEW list \in Seq(Ref), InSequence(list), NEW ref \in Ref,
           ref.generation \notin GenerationsOf(list),
           \A i \in DOMAIN list : list[i].revises \in GenerationsOf(list) \cup {None},
           ref.revises = None \/ (list # <<>> /\ ref.revises = list[Len(list)].generation)
    PROVE  /\ InSequence(Append(list, ref))
           /\ GenerationsOf(Append(list, ref)) = GenerationsOf(list) \cup {ref.generation}
<1>1. PICK n \in Nat : n = Len(list) /\ DOMAIN list = 1 .. n
  OBVIOUS
<1>2. PICK longer : longer = Append(list, ref)
  OBVIOUS
<1>3. DOMAIN longer = 1 .. n + 1 /\ longer[n + 1] = ref /\ \A i \in 1 .. n : longer[i] = list[i]
  BY <1>1, <1>2
<1>4. \A i \in 1 .. n : list[i] \in Ref /\ list[i].generation \in GenerationsOf(list)
  BY <1>1 DEF GenerationsOf
<1>5. ref.generation # None /\ \A i \in 1 .. n : list[i].generation # None
  BY <1>4, HistoriesAssumption DEF Ref
<1>6. ASSUME NEW i \in 1 .. n + 1, NEW j \in 1 .. n + 1, longer[i].generation = longer[j].generation
      PROVE  i = j
  <2>1. CASE i \in 1 .. n /\ j \in 1 .. n
    BY <1>1, <1>3, <1>6, <2>1 DEF InSequence
  <2>2. CASE i = n + 1 \/ j = n + 1
    <3>1. \A k \in 1 .. n : longer[k].generation # ref.generation
      BY <1>3, <1>4
    <3> QED BY <1>3, <1>6, <2>2, <3>1
  <2> QED BY <2>1, <2>2
<1>7. ASSUME NEW i \in 1 .. n + 1, NEW j \in 1 .. n + 1, longer[i].revises = longer[j].generation
      PROVE  j < i
  <2>1. CASE i \in 1 .. n /\ j \in 1 .. n
    BY <1>1, <1>3, <1>7, <2>1 DEF InSequence
  <2>2. CASE i \in 1 .. n /\ j = n + 1
    <3>1. list[i].revises \in GenerationsOf(list) \cup {None} /\ list[i].revises = ref.generation
      BY <1>1, <1>3, <1>7, <2>2
    <3> QED BY <1>5, <3>1
  <2>3. CASE i = n + 1
    <3>1. ref.revises = longer[j].generation /\ longer[j].generation # None
      BY <1>3, <1>5, <1>7, <2>3
    <3>2. n > 0 /\ longer[j].generation = longer[n].generation
      BY <1>1, <1>3, <3>1
    <3>3. j = n
      BY <1>6, <3>2
    <3> QED BY <2>3, <3>3
  <2> QED BY <2>1, <2>2, <2>3
<1>8. GenerationsOf(longer) = GenerationsOf(list) \cup {ref.generation}
  <2>1. \A g : g \in GenerationsOf(longer) <=> \E i \in 1 .. n + 1 : g = longer[i].generation
    BY <1>3 DEF GenerationsOf
  <2>2. \A g : g \in GenerationsOf(list) <=> \E i \in 1 .. n : g = list[i].generation
    BY <1>1 DEF GenerationsOf
  <2> QED BY <1>3, <2>1, <2>2
<1> QED BY <1>2, <1>3, <1>6, <1>7, <1>8 DEF InSequence

Merged(c, u, m) ==
    /\ \A f \in Fields : u[f] # None => m.facts[f] = u[f]
    /\ \A f \in Fields : u[f] = None => m.facts[f] = c.facts[f]
    /\ \A f \in Fields : f \in m.inferred <=> f \in c.inferred /\ u[f] = None
    /\ m.facts \in Update /\ m.inferred \in SUBSET Fields
    /\ m = [c EXCEPT !.facts = m.facts, !.inferred = m.inferred]

LEMMA MergedFacts ==
    ASSUME NEW c \in Context(Ref), NEW u \in Update
    PROVE  Merged(c, u, Merge(c, u))
<1>1. PICK m : m = Merge(c, u)
  OBVIOUS
<1>2. PICK facts : facts = [f \in Fields |-> IF u[f] # None THEN u[f] ELSE c.facts[f]]
  OBVIOUS
<1>3. PICK inferred : inferred = c.inferred \ {f \in Fields : u[f] # None}
  OBVIOUS
<1>4. c.facts \in Update /\ c.inferred \in SUBSET Fields
  BY DEF Context
<1>5. facts \in Update /\ \A f \in Fields : facts[f] = IF u[f] # None THEN u[f] ELSE c.facts[f]
  BY <1>2, <1>4 DEF Update
<1>6. inferred \in SUBSET Fields /\ \A f \in Fields : f \in inferred <=> f \in c.inferred /\ u[f] = None
  BY <1>3, <1>4
<1>7. [c EXCEPT !.facts = facts, !.inferred = inferred] = m
  BY <1>1, <1>2, <1>3 DEF Merge, Context
<1>8. m.facts = facts /\ m.inferred = inferred
  BY <1>7 DEF Context
<1> QED BY <1>1, <1>5, <1>6, <1>7, <1>8 DEF Merged

\* A field is recovered only while nothing is known of it.
LEMMA RecoveredWhenUnknown ==
    ASSUME NEW c, NEW text, NEW f \in Fields, Recovered(c, text)[f] # None
    PROVE  f \in {"goal", "cta_intent"} /\ c.facts[f] = None
BY FieldFacts DEF Recovered, NoUpdate

LEMMA MergeType ==
    ASSUME NEW c \in Context(Ref), NEW u \in Update PROVE Merge(c, u) \in Context(Ref)
<1>1. PICK m : m = Merge(c, u)
  OBVIOUS
<1>2. PICK facts \in Update : facts = m.facts
  BY <1>1, MergedFacts DEF Merged
<1>3. PICK inferred \in SUBSET Fields : inferred = m.inferred
  BY <1>1, MergedFacts DEF Merged
<1>4. m = [c EXCEPT !.facts = facts, !.inferred = inferred]
  BY <1>1, <1>2, <1>3, MergedFacts DEF Merged
<1> QED BY <1>1, <1>4 DEF Context

LEMMA VerifiedFacts ==
    ASSUME NEW c \in Context(Ref), NEW texts
    PROVE  LET x == VerifyLanguage(c, texts)
           IN  /\ x \in Context(Ref)
               /\ \A f \in Fields \ {"language"} : x.facts[f] = c.facts[f] /\ (f \in x.inferred <=> f \in c.inferred)
               /\ ~ DetectsAlbanian(texts) => x.inferred = c.inferred
               /\ ~ DetectsAlbanian(texts) /\ c.facts["language"] \in {None, "english"} =>
                     x.facts["language"] = c.facts["language"]
<1>1. PICK x : x = VerifyLanguage(c, texts)
  OBVIOUS
<1>2. c.facts \in Update
  BY DEF Context
<1>3. CASE DetectsAlbanian(texts)
  <2>1. PICK u : u = [NoUpdate EXCEPT !["language"] = "shqip"]
    OBVIOUS
  <2>2. u \in Update /\ \A f \in Fields \ {"language"} : u[f] = None
    BY <2>1, FieldFacts DEF NoUpdate, Update
  <2>3. x = Merge(c, u)
    BY <1>1, <1>3, <2>1 DEF VerifyLanguage
  <2>4. x \in Context(Ref)
    BY <2>2, <2>3, MergeType
  <2>5. \A f \in Fields \ {"language"} : x.facts[f] = c.facts[f] /\ (f \in x.inferred <=> f \in c.inferred)
    BY <2>2, <2>3, MergedFacts, ZenonT(60) DEF Merged
  <2> QED BY <1>1, <1>3, <2>4, <2>5
<1>4. CASE ~ DetectsAlbanian(texts) /\ c.facts["language"] = "english"
  BY <1>1, <1>4 DEF VerifyLanguage
<1>5. CASE ~ DetectsAlbanian(texts) /\ c.facts["language"] # "english"
  <2>1. PICK facts : facts = [c.facts EXCEPT !["language"] = None]
    OBVIOUS
  <2>2. facts \in Update /\ facts["language"] = None /\ \A f \in Fields \ {"language"} : facts[f] = c.facts[f]
    BY <1>2, <2>1, FieldFacts DEF Update
  <2>3. x = [c EXCEPT !.facts = facts]
    BY <1>1, <1>5, <2>1 DEF VerifyLanguage
  <2>4. x \in Context(Ref) /\ x.facts = facts /\ x.inferred = c.inferred
    BY <2>2, <2>3 DEF Context
  <2> QED BY <1>1, <1>5, <2>2, <2>4
<1> QED BY <1>3, <1>4, <1>5

\* A turn's context holds what was stated before and what the turn adds.
LEMMA UnderstoodKeeps ==
    ASSUME NEW c \in Context(Ref), NEW text \in Text, NEW texts, NEW u \in Update,
           Keeps(c, told), LanguageTyped(c.facts["language"], texts)
    PROVE  LET v == Understood(c, text, texts, u)
           IN  Keeps(v, Stated(u, Recovered(Merge(c, u), text), DetectsAlbanian(texts), v.facts["language"]))
<1>1. PICK m : m = Merge(c, u)
  OBVIOUS
<1>2. PICK rec : rec = Recovered(m, text)
  OBVIOUS
<1>3. PICK w : w = Merge(m, rec)
  OBVIOUS
<1>4. PICK x : x = VerifyLanguage(w, texts)
  OBVIOUS
<1>5. PICK v : v = CountRequest(x, text)
  OBVIOUS
<1>6. v = Understood(c, text, texts, u)
  BY <1>1, <1>2, <1>3, <1>4, <1>5 DEF Understood
<1>7. m \in Context(Ref) /\ rec \in Update /\ w \in Context(Ref)
  <2>1. m \in Context(Ref)
    BY <1>1, MergeType
  <2>2. rec \in Update
    BY <1>2, RecoveredFacts
  <2> QED BY <1>3, <2>1, <2>2, MergeType
<1>8. /\ \A f \in Fields : u[f] # None => m.facts[f] = u[f]
      /\ \A f \in Fields : u[f] = None => m.facts[f] = c.facts[f]
      /\ \A f \in Fields : f \in m.inferred <=> f \in c.inferred /\ u[f] = None
  <2>1. Merged(c, u, m)
    BY <1>1, MergedFacts
  <2> QED BY <2>1 DEF Merged
<1>9. /\ \A f \in Fields : rec[f] # None => w.facts[f] = rec[f]
      /\ \A f \in Fields : rec[f] = None => w.facts[f] = m.facts[f]
      /\ \A f \in Fields : f \in w.inferred <=> f \in m.inferred /\ rec[f] = None
  <2>1. Merged(m, rec, w)
    BY <1>3, <1>7, MergedFacts
  <2> QED BY <2>1 DEF Merged
<1>10. \A f \in Fields : rec[f] # None => f \in {"goal", "cta_intent"} /\ u[f] = None
  BY <1>2, <1>8, RecoveredWhenUnknown
<1>11. /\ x \in Context(Ref)
       /\ \A f \in Fields \ {"language"} : x.facts[f] = w.facts[f] /\ (f \in x.inferred <=> f \in w.inferred)
       /\ ~ DetectsAlbanian(texts) => x.inferred = w.inferred
       /\ ~ DetectsAlbanian(texts) /\ w.facts["language"] \in {None, "english"} =>
             x.facts["language"] = w.facts["language"]
  BY <1>4, <1>7, VerifiedFacts
<1>12. v.facts = x.facts /\ v.inferred = x.inferred
  BY <1>5, <1>11 DEF CountRequest, Context
<1>13. PICK stated : stated = Stated(u, rec, DetectsAlbanian(texts), v.facts["language"])
  OBVIOUS
<1>14. ASSUME NEW f \in Fields \ v.inferred PROVE v.facts[f] = stated[f]
  <2>1. CASE f = "language" /\ (u[f] # None \/ DetectsAlbanian(texts))
    BY <1>13, <2>1 DEF Stated
  <2>2. CASE f = "language" /\ u[f] = None /\ ~ DetectsAlbanian(texts)
    <3>1. stated[f] = told[f]
      BY <1>13, <2>2 DEF Stated
    <3>2. rec[f] = None
      BY <1>10, <2>2
    <3>3. w.facts[f] = c.facts[f] /\ f \notin c.inferred
      BY <1>8, <1>9, <1>11, <1>12, <1>14, <2>2, <3>2
    <3>4. c.facts[f] \in {None, "english"}
      BY <2>2 DEF LanguageTyped
    <3>5. c.facts[f] = told[f]
      BY <3>3 DEF Keeps
    <3> QED BY <1>11, <1>12, <2>2, <3>1, <3>3, <3>4, <3>5
  <2>3. CASE f # "language"
    <3>1. stated[f] = IF u[f] # None THEN u[f] ELSE IF rec[f] # None THEN rec[f] ELSE told[f]
      BY <1>13, <2>3 DEF Stated
    <3>2. v.facts[f] = w.facts[f] /\ f \notin w.inferred
      BY <1>11, <1>12, <1>14, <2>3
    <3>3. u[f] = None /\ rec[f] = None => f \notin c.inferred
      BY <1>8, <1>9, <3>2
    <3>4. f \notin c.inferred => c.facts[f] = told[f]
      BY DEF Keeps
    <3> QED BY <1>8, <1>9, <1>10, <3>1, <3>2, <3>3, <3>4
  <2> QED BY <2>1, <2>2, <2>3
<1> QED BY <1>1, <1>2, <1>6, <1>13, <1>14 DEF Keeps

LEMMA CountType ==
    ASSUME NEW c \in Context(Ref), NEW text
    PROVE  CountRequest(c, text) \in Context(Ref) /\ CountRequest(c, text).generated_posts = c.generated_posts
BY DEF CountRequest, Context

LEMMA UnderstoodType ==
    ASSUME NEW c \in Context(Ref), NEW text \in Text, NEW texts, NEW u \in Update
    PROVE  LET v == Understood(c, text, texts, u)
           IN  v \in Context(Ref) /\ v.generated_posts = c.generated_posts
<1>1. PICK m \in Context(Ref) : m = Merge(c, u) /\ m.generated_posts = c.generated_posts
  BY MergeType DEF Merge, Context
<1>2. PICK rec \in Update : rec = Recovered(m, text)
  BY RecoveredFacts
<1>3. PICK w \in Context(Ref) : w = Merge(m, rec) /\ w.generated_posts = c.generated_posts
  BY <1>1, MergeType, ZenonT(60) DEF Merge, Context
<1>4. PICK x \in Context(Ref) : x = VerifyLanguage(w, texts) /\ x.generated_posts = c.generated_posts
  <2>1. VerifyLanguage(w, texts) \in Context(Ref)
    BY VerifiedFacts
  <2>2. VerifyLanguage(w, texts).generated_posts = w.generated_posts
    BY DEF VerifyLanguage, Merge, Context
  <2> QED BY <1>3, <2>1, <2>2
<1>5. PICK v : v = CountRequest(x, text)
  OBVIOUS
<1>6. v \in Context(Ref) /\ v.generated_posts = c.generated_posts
  <2>1. CountRequest(x, text) \in Context(Ref) /\ CountRequest(x, text).generated_posts = x.generated_posts
    BY <1>4, CountType
  <2> QED BY <1>4, <1>5, <2>1
<1> QED BY <1>1, <1>2, <1>3, <1>4, <1>5, <1>6 DEF Understood

LEMMA InferredKeeps ==
    ASSUME NEW c \in Context(Ref)
    PROVE  LET v == WithInferredGoal(c)
           IN  /\ v.generated_posts = c.generated_posts /\ v.inferred = c.inferred \cup {"goal"}
               /\ \A f \in Fields \ {"goal"} : v.facts[f] = c.facts[f]
<1>1. c.facts \in Update
  BY DEF Context
<1>2. PICK facts : facts = [c.facts EXCEPT !["goal"] = Promotion]
  OBVIOUS
<1>3. \A f \in Fields \ {"goal"} : facts[f] = c.facts[f]
  BY <1>1, <1>2 DEF Update
<1>4. WithInferredGoal(c) = [c EXCEPT !.facts = facts, !.inferred = c.inferred \cup {"goal"}]
  BY <1>2 DEF WithInferredGoal, Context
<1> QED BY <1>3, <1>4 DEF Context

----------------------------------------------------------------------------
(* What a step of the one request in flight must keep. *)

LEMMA CurrentFrame ==
    ASSUME NEW q, Current(q), UNCHANGED <<messages, posts, told>> PROVE Current(q)'
<1>1. AllGenerations' = AllGenerations /\ Upcoming(q)' = Upcoming(q)
  BY DEF AllGenerations, Upcoming, Attempts
<1> QED BY <1>1 DEF Current

LEMMA RememberingFrame ==
    ASSUME UNCHANGED <<messages, context, posts, told>>
    PROVE  (Remembering => Remembering') /\ (AnswersEarlier => AnswersEarlier')
<1>1. AllGenerations' = AllGenerations /\ Remembered' = Remembered
  BY DEF AllGenerations, Remembered
<1>2. Keeps(context, told)' <=> Keeps(context, told)
  BY DEF Keeps
<1>3. InSequence(context.generated_posts)' <=> InSequence(context.generated_posts)
  BY DEF InSequence
<1>4. Remembering => Remembering'
  BY <1>1, <1>2, <1>3 DEF Remembering
<1> QED BY <1>4 DEF AnswersEarlier

\* A step of a request that is under way, and one that begins.
LEMMA MemoryStep ==
    ASSUME MemoryInv, NEW r \in Requests, DOMAIN req = Requests, NEW next, req' = [req EXCEPT ![r] = next],
           UNCHANGED <<messages, context, posts, told, overlapped>>, req[r].pc # "idle",
           Remembering /\ Current(req[r]) => next.pc = "idle" \/ Current(next)
    PROVE  MemoryInv'
<1>1. req'[r] = next /\ \A p \in Requests \ {r} : req'[p] = req[p]
  OBVIOUS
<1>2. SUFFICES ASSUME ~ overlapped
               PROVE  /\ Remembering'
                      /\ \A p \in Requests : req'[p].pc # "idle" =>
                           Current(req[p])' /\ \A s \in Requests \ {p} : req'[s].pc = "idle"
  BY RememberingFrame DEF MemoryInv
<1>3. Remembering /\ Current(req[r]) /\ \A s \in Requests \ {r} : req[s].pc = "idle"
  BY <1>2 DEF MemoryInv
<1>4. next.pc = "idle" \/ Current(next)'
  BY <1>3, CurrentFrame
<1>5. ASSUME NEW p \in Requests, req'[p].pc # "idle" PROVE p = r /\ Current(req[p])'
  BY <1>1, <1>3, <1>4, <1>5
<1>6. Remembering'
  BY <1>3, RememberingFrame
<1> QED BY <1>1, <1>3, <1>5, <1>6

LEMMA MemoryBegin ==
    ASSUME MemoryInv, NEW r \in Requests, DOMAIN req = Requests, NEW next, Begin(r, next),
           Remembering => Current(next)
    PROVE  MemoryInv'
<1>1. /\ req' = [req EXCEPT ![r] = next] /\ UNCHANGED <<messages, context, posts, told>>
      /\ overlapped' = (overlapped \/ InFlight # {})
  BY DEF Begin, Step
<1>2. req'[r] = next /\ \A p \in Requests \ {r} : req'[p] = req[p]
  BY <1>1
<1>3. SUFFICES ASSUME ~ overlapped'
               PROVE  /\ Remembering'
                      /\ \A p \in Requests : req'[p].pc # "idle" =>
                           Current(req[p])' /\ \A s \in Requests \ {p} : req'[s].pc = "idle"
  BY <1>1, RememberingFrame DEF MemoryInv
<1>4. ~ overlapped /\ \A p \in Requests : req[p].pc = "idle"
  BY <1>1, <1>3 DEF InFlight, At
<1>5. Remembering /\ Current(next)
  BY <1>4 DEF MemoryInv
<1>6. Current(next)'
  BY <1>1, <1>5, CurrentFrame
<1>7. ASSUME NEW p \in Requests, req'[p].pc # "idle" PROVE p = r /\ Current(req[p])'
  BY <1>2, <1>4, <1>6, <1>7
<1>8. Remembering'
  BY <1>1, <1>5, RememberingFrame
<1> QED BY <1>2, <1>4, <1>7, <1>8

----------------------------------------------------------------------------
(* A request begins. *)

LEMMA PageIsAll ==
    ASSUME messages \in Seq(Message), Len(messages) <= HistoryLimit PROVE Page = Len(messages)
<1>1. Len(messages) \in Nat /\ HistoryLimit \in Nat
  BY ChatConstants
<1> QED BY <1>1 DEF Page

LEMMA StartTurnMemory ==
    ASSUME Inv, MemoryInv, NEW r \in Requests, NEW text \in Texts, StartTurn(r, text) PROVE MemoryInv'
<1>1. PICK next : next = [Idle EXCEPT !.pc = "append", !.seen = Page, !.text = text]
  OBVIOUS
<1>2. next.pc = "append" /\ next.made = FALSE /\ next.message = 0 /\ next.seen = Page
  BY <1>1 DEF Idle
<1>3. Begin(r, next) /\ Len(messages) < MaxMessages
  BY <1>1 DEF StartTurn
<1>4. Remembering => Current(next)
  BY <1>2, <1>3, PageIsAll DEF Remembering, Current, Inv, Committed, Decided, Answered
<1> QED BY <1>3, <1>4, MemoryBegin DEF Inv

LEMMA StartStoredTurnMemory ==
    ASSUME Inv, MemoryInv, NEW r \in Requests, StartStoredTurn(r) PROVE MemoryInv'
<1>1. PICK next : next = [Idle EXCEPT !.pc = "understand", !.seen = Page, !.message = Page,
                                      !.text = messages[Page].text]
  OBVIOUS
<1>2. next.pc = "understand" /\ next.made = FALSE /\ next.message = Page /\ next.seen = Page
  BY <1>1 DEF Idle
<1>3. Begin(r, next) /\ Len(messages) \in 1 .. MaxMessages
  BY <1>1 DEF StartStoredTurn
<1>4. Remembering => Current(next)
  <2>1. Remembering => Page = Len(messages)
    BY PageIsAll DEF Remembering, Inv, Committed
  <2> QED BY <1>2, <1>3, <2>1, ChatConstants DEF Current, Decided, Answered
<1> QED BY <1>3, <1>4, MemoryBegin DEF Inv

\* The context a request reads holds what was stated and every generation.
LEMMA KnownMemory ==
    ASSUME Inv, Remembering, NEW known, known = IF context = None THEN NewContext ELSE context
    PROVE  /\ Keeps(known, told) /\ GenerationsOf(known.generated_posts) = AllGenerations
           /\ InSequence(known.generated_posts)
<1>1. CASE context = None
  <2>1. known.facts = NoUpdate /\ known.generated_posts = <<>>
    BY <1>1 DEF NewContext
  <2>2. told = NoUpdate /\ AllGenerations = {}
    BY <1>1 DEF Remembering, Remembered
  <2> QED BY <2>1, <2>2 DEF Keeps, GenerationsOf, InSequence
<1>2. CASE context # None
  <2>1. Remembered = GenerationsOf(context.generated_posts)
    BY <1>2 DEF Remembered, GenerationsOf
  <2> QED BY <1>2, <2>1 DEF Remembering
<1> QED BY <1>1, <1>2

LEMMA StartCommandMemory ==
    ASSUME Inv, MemoryInv, NEW r \in Requests, StartCommand(r) PROVE MemoryInv'
<1>1. PICK known : known = IF context = None THEN NewContext ELSE context
  OBVIOUS
<1>2. PICK action : action = IF HasGeneration(known) THEN "revise" ELSE "generate"
  OBVIOUS
<1>3. PICK next : next = [Idle EXCEPT !.pc = "find", !.seen = Page, !.context = known, !.action = action]
  OBVIOUS
<1>4. next.pc = "find" /\ next.made = FALSE /\ next.generation = None /\ next.message = 0
      /\ next.context = known /\ next.seen = Page
  BY <1>3 DEF Idle
<1>5. Begin(r, next)
  BY <1>1, <1>2, <1>3 DEF StartCommand
<1>6. Remembering => Current(next)
  <2>1. SUFFICES ASSUME Remembering PROVE Current(next)
    OBVIOUS
  <2>2. Keeps(known, told) /\ GenerationsOf(known.generated_posts) = AllGenerations
        /\ InSequence(known.generated_posts)
    BY <1>1, <2>1, KnownMemory
  <2>3. Page = Len(messages)
    BY <2>1, PageIsAll DEF Remembering, Inv, Committed
  <2>4. Upcoming(next) = {}
    BY <1>4 DEF Upcoming
  <2> QED BY <1>4, <2>2, <2>3, <2>4 DEF Current
<1> QED BY <1>5, <1>6, MemoryBegin DEF Inv

----------------------------------------------------------------------------
(* The one request in flight goes on. *)

LEMMA RollbackMemory ==
    ASSUME Inv, MemoryInv, NEW r \in Requests, req[r].pc # "idle", Rollback(r) PROVE MemoryInv'
<1>1. Idle.pc = "idle"
  BY DEF Idle
<1> QED BY <1>1, MemoryStep DEF Rollback, Step, Local, Inv

LEMMA AppendUserMemory ==
    ASSUME Inv, MemoryInv, NEW r \in Requests, AppendUser(r) PROVE MemoryInv'
<1>1. PICK q : q = req[r]
  OBVIOUS
<1>2. q \in Request /\ q.pc = "append" /\ q.made = FALSE
  BY <1>1 DEF Inv, RequestInv, AppendUser, At, Posted, Answered
<1>3. PICK said : said = <<UserMessage(q.text)>>
  OBVIOUS
<1>4. PICK next : next = [q EXCEPT !.pc = "understand", !.locks = Locked(r), !.message = Len(messages) + 1,
                                   !.said = said]
  OBVIOUS
<1>5. req' = [req EXCEPT ![r] = next] /\ Local
  BY <1>1, <1>3, <1>4 DEF AppendUser, Step, UserMessage
<1>6. next.pc = "understand" /\ next.made = FALSE /\ next.message = Len(messages) + 1 /\ next.seen = q.seen
  BY <1>2, <1>4 DEF Request
<1>7. Len(messages) \in Nat
  BY DEF Inv, Committed
<1>8. Current(q) => Current(next)
  BY <1>2, <1>6, <1>7, ChatConstants DEF Current, Decided, Answered
<1> QED BY <1>1, <1>2, <1>5, <1>8, MemoryStep DEF Local, Inv

LEMMA UnderstandMemory ==
    ASSUME Inv, MemoryInv, NEW r \in Requests, NEW text \in Texts, NEW classified \in Classifications[text],
           req[r].text = text, Understand(r, classified)
    PROVE  MemoryInv'
<1>1. PICK q : q = req[r]
  OBVIOUS
<1>2. /\ q \in Request /\ q.pc = "understand" /\ q.text = text /\ q.made = FALSE /\ q.generation = None
      /\ q.message > 0
  BY <1>1 DEF Inv, RequestInv, Understand, At, Posted, Answered, Spoken
<1>3. PICK texts : texts = UserTexts(q.seen) \cup {text}
  OBVIOUS
<1>4. classified.updates \in Update /\ classified.updates["goal"] # Promotion /\ text \in Text
  BY ChatConstants
<1>5. PICK update \in Update : update = Ground(classified.updates, texts)
  BY <1>4, GroundFacts
<1>6. PICK known \in Context(Ref) : known = (IF context = None THEN NewContext ELSE context)
                                    /\ Stands(known.facts, UserTexts(Len(messages)))
  <2>1. PICK known : known = IF context = None THEN NewContext ELSE context
    OBVIOUS
  <2> QED BY <2>1, KnownContext
<1>7. PICK understood : understood = Understood(known, text, texts, update)
  OBVIOUS
<1>8. PICK routed \in Actions : routed = Route(classified.intent, text, understood)
  BY RouteType
<1>9. PICK infers \in BOOLEAN : infers = InfersGoal(routed, understood)
  BY DEF InfersGoal
<1>10. PICK action : action = IF infers THEN "generate" ELSE routed
  OBVIOUS
<1>11. PICK new : new = IF infers THEN WithInferredGoal(understood) ELSE understood
  OBVIOUS
<1>12. PICK stated : stated = Stated(update, Recovered(Merge(known, update), text), DetectsAlbanian(texts),
                                     understood.facts["language"])
  OBVIOUS
<1>13. PICK pc \in {"find", "answer"} : pc = IF action \in {"generate", "revise"} THEN "find" ELSE "answer"
  OBVIOUS
<1>14. PICK next : next = [q EXCEPT !.context = new, !.stated = stated, !.action = action, !.pc = pc]
  OBVIOUS
<1>15. req' = [req EXCEPT ![r] = next] /\ Local
  BY <1>1, <1>2, <1>3, <1>5, <1>6, <1>7, <1>8, <1>9, <1>10, <1>11, <1>12, <1>13, <1>14 DEF Understand, Step
<1>16. next.pc = pc /\ next.made = FALSE /\ next.generation = None /\ next.message = q.message
       /\ next.seen = q.seen /\ next.context = new /\ next.stated = stated
  BY <1>2, <1>14 DEF Request
<1>17. Remembering /\ Current(q) => Current(next)
  <2>1. SUFFICES ASSUME Remembering, Current(q) PROVE Current(next)
    OBVIOUS
  <2>2. Keeps(known, told) /\ GenerationsOf(known.generated_posts) = AllGenerations
        /\ InSequence(known.generated_posts)
    BY <1>6, <2>1, KnownMemory
  <2>3. LanguageTyped(known.facts["language"], texts)
    <3>1. UserTexts(Len(messages)) \subseteq texts
      BY <1>3, <2>1 DEF Current
    <3>2. texts \subseteq Text
      <4>1. UserTexts(Len(messages)) \subseteq Text
        BY CommittedTexts DEF Inv
      <4> QED BY <1>3, <1>4, <2>1, <4>1 DEF Current
    <3> QED BY <1>6, <3>1, <3>2, LanguageMore DEF Stands
  <2>4. Keeps(understood, stated)
    BY <1>4, <1>7, <1>12, <2>2, <2>3, UnderstoodKeeps
  <2>5. understood \in Context(Ref) /\ understood.generated_posts = known.generated_posts
    BY <1>4, <1>7, UnderstoodType
  <2>6. Keeps(new, stated) /\ new.generated_posts = known.generated_posts
    <3>1. CASE infers
      <4>1. new = WithInferredGoal(understood)
        BY <1>11, <3>1
      <4>2. new.generated_posts = understood.generated_posts /\ new.inferred = understood.inferred \cup {"goal"}
            /\ \A f \in Fields \ {"goal"} : new.facts[f] = understood.facts[f]
        BY <2>5, <4>1, InferredKeeps
      <4> QED BY <2>4, <2>5, <4>2 DEF Keeps
    <3>2. CASE ~ infers
      BY <1>11, <2>4, <2>5, <3>2
    <3> QED BY <3>1, <3>2
  <2>7. Upcoming(next) = {}
    BY <1>16 DEF Upcoming
  <2> QED BY <1>2, <1>13, <1>16, <2>1, <2>2, <2>6, <2>7 DEF Current
<1> QED BY <1>1, <1>2, <1>15, <1>17, MemoryStep DEF Local, Inv

LEMMA FindPostMemory ==
    ASSUME Inv, MemoryInv, NEW r \in Requests, FindPost(r) PROVE MemoryInv'
<1>1. PICK q : q = req[r]
  OBVIOUS
<1>2. q \in Request /\ q.pc = "find" /\ q.made = FALSE /\ q.generation = None /\ q.post = None
  BY <1>1 DEF Inv, RequestInv, FindPost, At, Posted, Answered
<1>3. PICK post : post = IF posts = <<>> THEN None ELSE posts[Len(posts)].id
  OBVIOUS
<1>4. PICK pc : pc = IF posts = <<>> THEN "create" ELSE "request"
  OBVIOUS
<1>5. PICK next : next = [q EXCEPT !.pc = pc, !.post = post]
  OBVIOUS
<1>6. req' = [req EXCEPT ![r] = next] /\ Local
  <2>1. CASE posts = <<>>
    <3>1. next = [q EXCEPT !.pc = "create"]
      BY <1>2, <1>3, <1>4, <1>5, <2>1 DEF Request
    <3> QED BY <1>1, <2>1, <3>1 DEF FindPost, Step
  <2>2. CASE posts # <<>>
    BY <1>1, <1>3, <1>4, <1>5, <2>2 DEF FindPost, Step
  <2> QED BY <2>1, <2>2
<1>7. next.pc = pc /\ next.made = FALSE /\ next.generation = None /\ next.message = q.message
      /\ next.seen = q.seen /\ next.context = q.context /\ next.stated = q.stated
  BY <1>2, <1>5 DEF Request
<1>8. Upcoming(q) = {} /\ Upcoming(next) = {}
  BY <1>2, <1>7 DEF Upcoming
<1>9. Current(q) => Current(next)
  BY <1>2, <1>4, <1>7, <1>8 DEF Current, Decided
<1> QED BY <1>1, <1>2, <1>6, <1>9, MemoryStep DEF Local, Inv

LEMMA CreatePostMemory ==
    ASSUME Inv, MemoryInv, NEW r \in Requests, CreatePost(r) PROVE MemoryInv'
<1>1. PICK q : q = req[r]
  OBVIOUS
<1>2. q \in Request /\ q.pc = "create" /\ q.generation = None
  BY <1>1 DEF Inv, RequestInv, CreatePost, At, Posted, Answered
<1>3. PICK next : next = [q EXCEPT !.pc = "request", !.locks = Locked(r), !.post = r, !.made = TRUE]
  OBVIOUS
<1>4. req' = [req EXCEPT ![r] = next] /\ Local
  BY <1>1, <1>3 DEF CreatePost, Step
<1>5. next.pc = "request" /\ next.generation = None /\ next.message = q.message
      /\ next.seen = q.seen /\ next.context = q.context /\ next.stated = q.stated
  BY <1>2, <1>3 DEF Request
<1>6. Upcoming(q) = {} /\ Upcoming(next) = {}
  BY <1>2, <1>5 DEF Upcoming
<1>7. Current(q) => Current(next)
  BY <1>2, <1>5, <1>6 DEF Current, Decided
<1> QED BY <1>1, <1>2, <1>4, <1>7, MemoryStep DEF Local, Inv

\* The number after a post's last attempt is nobody's.
LEMMA NextIsNew ==
    ASSUME DistinctPosts, posts \in Seq(Post), NEW p PROVE <<p, Len(Attempts(p)) + 1>> \notin AllGenerations
<1>1. SUFFICES ASSUME <<p, Len(Attempts(p)) + 1>> \in AllGenerations PROVE FALSE
  OBVIOUS
<1>2. PICK k \in DOMAIN posts : <<p, Len(Attempts(p)) + 1>> \in {posts[k].id} \X DOMAIN posts[k].generations
  BY <1>1, InAllGenerations
<1>3. posts[k].id = p /\ Attempts(p) = posts[k].generations
  BY <1>2, AttemptsOf
<1>4. PICK attempts \in Seq(Generation) : attempts = Attempts(p)
  BY AttemptsType
<1>5. Len(attempts) + 1 \in DOMAIN attempts
  BY <1>2, <1>3, <1>4
<1> QED BY <1>5

\* A turn that follows the others is the first to answer its message.
LEMMA TurnIsNew ==
    ASSUME Inv, AnswersEarlier, NEW n \in Nat, n >= Len(messages), NEW p, NEW i \in DOMAIN Attempts(p)
    PROVE  Attempts(p)[i].key # <<"turn", n>>
<1>1. SUFFICES ASSUME Attempts(p)[i].key = <<"turn", n>> PROVE FALSE
  OBVIOUS
<1>2. ~ Unnamed(p)
  BY AttemptsOfNone
<1>3. PICK k \in DOMAIN posts : posts[k].id = p
  BY <1>2 DEF Unnamed
<1>4. Attempts(p) = posts[k].generations
  BY <1>3, AttemptsOf DEF Inv, Committed
<1>5. posts[k].generations[i].key[1] = "turn" /\ posts[k].generations[i].key[2] = n
  BY <1>1, <1>4
<1>6. PICK j \in DOMAIN messages : messages[j].answers = n
  BY <1>4, <1>5 DEF Inv, Committed, TurnsWhole
<1>7. DOMAIN messages = 1 .. Len(messages) /\ Len(messages) \in Nat
  BY DEF Inv, Committed
<1> QED BY <1>6, <1>7 DEF AnswersEarlier

LEMMA RequestGenerationMemory ==
    ASSUME Inv, MemoryInv, NEW r \in Requests, RequestGeneration(r) PROVE MemoryInv'
<1>1. PICK q : q = req[r]
  OBVIOUS
<1>2. /\ q \in Request /\ q.pc = "request" /\ q.generation = None /\ q.post \in Requests /\ q.message \in Nat
      /\ q.context \in Context(Ref) /\ Recalls(q) /\ Upcoming(q) = {}
  BY <1>1 DEF Inv, RequestInv, RequestGeneration, At, Posted, Request, Decided, Upcoming
<1>3. PICK attempts \in Seq(Generation) : attempts = Attempts(q.post)
  BY AttemptsType DEF Inv, Committed
<1>4. PICK key \in Key : key = IdempotencyKey(r)
  BY <1>1, <1>2, KeyFacts
<1>5. PICK made \in Generation : made = [key |-> key, brief |-> ProjectContext(q.context)]
  <2>1. ProjectContext(q.context) \in Update
    BY <1>2 DEF ProjectContext, Context, Update
  <2> QED BY <2>1 DEF Generation
<1>6. PICK existing : existing = {i \in DOMAIN attempts : attempts[i].key = key}
  OBVIOUS
<1>7. PICK attempt : attempt = IF existing = {} THEN Len(attempts) + 1 ELSE CHOOSE i \in existing : TRUE
  OBVIOUS
<1>8. PICK generation : generation = IF existing = {} THEN made ELSE None
  OBVIOUS
<1>9. generation # None <=> existing = {}
  BY <1>5, <1>8, HistoriesAssumption
<1>10. PICK revises : revises = Revises(r)
  OBVIOUS
<1>11. PICK ref : ref = [generation |-> <<q.post, attempt>>, revises |-> revises]
  OBVIOUS
<1>12. PICK new : new = IF q.message > 0 \/ existing = {} THEN WithGeneratedPost(q.context, ref) ELSE q.context
  OBVIOUS
<1>13. PICK pc : pc = IF q.message > 0 THEN "answer" ELSE IF existing = {} THEN "save" ELSE "commit"
  OBVIOUS
<1>14. PICK next : next = [q EXCEPT !.locks = Locked(r), !.generation = generation, !.context = new, !.pc = pc]
  OBVIOUS
<1>15. req' = [req EXCEPT ![r] = next] /\ Local
  BY <1>1, <1>3, <1>4, <1>5, <1>6, <1>7, <1>8, <1>10, <1>11, <1>12, <1>13, <1>14
     DEF RequestGeneration, Step, IsTurn
<1>16. next.pc = pc /\ next.made = q.made /\ next.generation = generation /\ next.post = q.post
       /\ next.message = q.message /\ next.seen = q.seen /\ next.context = new /\ next.stated = q.stated
  BY <1>2, <1>14 DEF Request
<1>17. Remembering /\ Current(q) => Current(next)
  <2>1. SUFFICES ASSUME Remembering, Current(q) PROVE Current(next)
    OBVIOUS
  <2>2. PICK list \in Seq(Ref) : list = q.context.generated_posts
    BY <1>2 DEF Context
  <2>3. GenerationsOf(list) = AllGenerations /\ InSequence(list)
        /\ Keeps(q.context, IF q.message > 0 THEN q.stated ELSE told)
    BY <1>2, <2>1, <2>2 DEF Current, Decided
  <2>4. q.message > 0 => existing = {}
    <3>1. SUFFICES ASSUME q.message > 0, NEW i \in existing PROVE FALSE
      OBVIOUS
    <3>2. key = <<"turn", q.message>>
      BY <1>1, <1>4, <3>1 DEF IdempotencyKey, IsTurn
    <3>3. q.message >= Len(messages) /\ AnswersEarlier
      BY <2>1, <3>1 DEF Current, MemoryInv
    <3> QED BY <1>2, <1>3, <1>6, <3>1, <3>2, <3>3, TurnIsNew
  <2>5. CASE existing # {}
    <3>1. q.message = 0 /\ generation = None /\ new = q.context /\ pc = "commit"
      BY <1>2, <1>8, <1>12, <1>13, <2>4, <2>5
    <3>2. Upcoming(next) = {}
      BY <1>16, <3>1 DEF Upcoming
    <3> QED BY <1>2, <1>16, <2>1, <3>1, <3>2 DEF Current, Decided, Answered
  <2>6. CASE existing = {}
    <3>1. attempt = Len(attempts) + 1 /\ new = WithGeneratedPost(q.context, ref) /\ pc \in {"answer", "save"}
      BY <1>7, <1>12, <1>13, <2>6
    <3>2. Upcoming(next) = {<<q.post, attempt>>} /\ ref.generation = <<q.post, attempt>>
          /\ <<q.post, attempt>> \notin AllGenerations /\ <<q.post, attempt>> \in GenerationId
      <4>1. Upcoming(next) = {<<q.post, Len(attempts) + 1>>}
        BY <1>3, <1>9, <1>16, <2>6 DEF Upcoming
      <4>2. <<q.post, Len(attempts) + 1>> \notin AllGenerations
        BY <1>3, NextIsNew DEF Inv, Committed
      <4>3. <<q.post, Len(attempts) + 1>> \in GenerationId
        BY <1>2, <1>3 DEF GenerationId
      <4> QED BY <1>11, <3>1, <4>1, <4>2, <4>3
    <3>3. \A i \in DOMAIN list : list[i].revises \in GenerationsOf(list) \cup {None}
      BY <1>2, <2>2, <2>3 DEF Recalls
    <3>4. ref.revises = None \/ (list # <<>> /\ ref.revises = list[Len(list)].generation)
      BY <1>1, <1>10, <1>11, <2>2 DEF Revises
    <3>5. ref \in Ref
      <4>1. list # <<>> => list[Len(list)] \in Ref
        BY <2>2
      <4>2. ref.revises \in {None} \cup GenerationId
        BY <3>4, <4>1 DEF Ref
      <4> QED BY <1>11, <3>2, <4>2 DEF Ref
    <3>6. PICK longer : longer = Append(list, ref)
      OBVIOUS
    <3>7. InSequence(longer) /\ GenerationsOf(longer) = AllGenerations \cup {<<q.post, attempt>>}
      BY <2>2, <2>3, <3>2, <3>3, <3>4, <3>5, <3>6, SequenceGrows
    <3>8. new.generated_posts = longer /\ new.facts = q.context.facts /\ new.inferred = q.context.inferred
      BY <1>2, <2>2, <3>1, <3>5, <3>6, GeneratedFacts
    <3>9. Keeps(new, IF q.message > 0 THEN q.stated ELSE told)
      BY <2>3, <3>8 DEF Keeps
    <3>10. q.made => posts = <<>>
      BY <2>1 DEF Current
    <3>11. q.seen = Len(messages) /\ (q.message > 0 => q.message >= Len(messages) /\ q.message <= MaxMessages)
      BY <2>1 DEF Current
    <3> QED BY <1>16, <3>1, <3>2, <3>7, <3>8, <3>9, <3>10, <3>11 DEF Current
  <2> QED BY <2>5, <2>6
<1> QED BY <1>1, <1>2, <1>15, <1>17, MemoryStep DEF Local, Inv

LEMMA AppendAssistantMemory ==
    ASSUME Inv, MemoryInv, NEW r \in Requests, AppendAssistant(r) PROVE MemoryInv'
<1>1. PICK q : q = req[r]
  OBVIOUS
<1>2. q \in Request /\ q.pc = "answer"
  BY <1>1 DEF Inv, AppendAssistant, At
<1>3. PICK said : said = Append(q.said, AssistantMessage(q.message))
  OBVIOUS
<1>4. PICK next : next = [q EXCEPT !.pc = "save", !.locks = Locked(r), !.said = said]
  OBVIOUS
<1>5. req' = [req EXCEPT ![r] = next] /\ Local
  BY <1>1, <1>3, <1>4 DEF AppendAssistant, Step, AssistantMessage
<1>6. next.pc = "save" /\ next.made = q.made /\ next.generation = q.generation /\ next.post = q.post
      /\ next.message = q.message /\ next.seen = q.seen /\ next.context = q.context /\ next.stated = q.stated
  BY <1>2, <1>4 DEF Request
<1>7. Upcoming(next) = Upcoming(q)
  BY <1>6 DEF Upcoming
<1>8. Current(q) => Current(next)
  BY <1>2, <1>6, <1>7 DEF Current, Decided, Answered
<1> QED BY <1>1, <1>2, <1>5, <1>8, MemoryStep DEF Local, Inv

LEMMA SavingMemory ==
    ASSUME Inv, MemoryInv, NEW r \in Requests, req[r].pc = "save" \/ req[r].pc = "insert", Local,
           NEW pc, NEW locks, NEW saved, pc = "insert" \/ (pc = "commit" /\ saved = TRUE),
           NEW next, next = [req[r] EXCEPT !.pc = pc, !.locks = locks, !.saved = saved],
           req' = [req EXCEPT ![r] = next]
    PROVE  MemoryInv'
<1>1. PICK q : q = req[r]
  OBVIOUS
<1>2. q \in Request /\ q.pc \in {"save", "insert"}
  BY <1>1 DEF Inv
<1>3. next.pc = pc /\ next.made = q.made /\ next.generation = q.generation /\ next.post = q.post
      /\ next.message = q.message /\ next.seen = q.seen /\ next.context = q.context /\ next.stated = q.stated
      /\ next.saved = saved
  BY <1>1, <1>2 DEF Request
<1>4. Upcoming(next) = Upcoming(q)
  BY <1>3 DEF Upcoming
<1>5. Current(q) => Current(next)
  BY <1>2, <1>3, <1>4 DEF Current, Decided, Answered
<1> QED BY <1>1, <1>2, <1>5, MemoryStep DEF Local, Inv

LEMMA SaveContextMemory ==
    ASSUME Inv, MemoryInv, NEW r \in Requests, SaveContext(r) PROVE MemoryInv'
<1>1. req[r].pc = "save" /\ req[r] \in Request
  BY DEF SaveContext, At, Inv
<1>2. CASE context = None
  <2>1. PICK saved : saved = req[r].saved
    OBVIOUS
  <2>2. PICK locks : locks = req[r].locks
    OBVIOUS
  <2>3. PICK next : next = [req[r] EXCEPT !.pc = "insert", !.locks = locks, !.saved = saved]
    OBVIOUS
  <2>4. next = [req[r] EXCEPT !.pc = "insert"]
    BY <1>1, <2>1, <2>2, <2>3 DEF Request
  <2>5. req' = [req EXCEPT ![r] = next] /\ Local
    BY <1>2, <2>4 DEF SaveContext, Step
  <2> QED BY <1>1, <2>3, <2>5, SavingMemory
<1>3. CASE context # None
  <2>1. PICK locks : locks = Locked(r)
    OBVIOUS
  <2>2. PICK saved : saved = TRUE
    OBVIOUS
  <2>3. PICK next : next = [req[r] EXCEPT !.pc = "commit", !.locks = locks, !.saved = saved]
    OBVIOUS
  <2>4. req' = [req EXCEPT ![r] = next] /\ Local
    BY <1>3, <2>1, <2>2, <2>3 DEF SaveContext, Step
  <2> QED BY <1>1, <2>2, <2>3, <2>4, SavingMemory
<1> QED BY <1>2, <1>3

LEMMA InsertContextMemory ==
    ASSUME Inv, MemoryInv, NEW r \in Requests, InsertContext(r) PROVE MemoryInv'
<1>1. req[r].pc = "insert"
  BY DEF InsertContext, At
<1>2. CASE context # None
  BY <1>1, <1>2, RollbackMemory DEF InsertContext
<1>3. CASE context = None
  <2>1. PICK locks : locks = Locked(r)
    OBVIOUS
  <2>2. PICK saved : saved = TRUE
    OBVIOUS
  <2>3. PICK next : next = [req[r] EXCEPT !.pc = "commit", !.locks = locks, !.saved = saved]
    OBVIOUS
  <2>4. req' = [req EXCEPT ![r] = next] /\ Local
    BY <1>3, <2>1, <2>2, <2>3 DEF InsertContext, Step
  <2> QED BY <1>1, <2>2, <2>3, <2>4, SavingMemory
<1> QED BY <1>2, <1>3

----------------------------------------------------------------------------
(* What is committed next. *)

LEMMA StoreMessageMemory ==
    ASSUME PageSuffices, Inv, MemoryInv, NEW text \in Texts, StoreMessage(text) PROVE MemoryInv'
<1>1. PICK new : new = [role |-> "user", text |-> text, answers |-> 0, alone |-> TRUE]
  OBVIOUS
<1>2. messages \in Seq(Message) /\ messages' = Append(messages, new) /\ new \in Message /\ new.answers = 0
  BY <1>1 DEF Inv, Committed, StoreMessage, Message
<1>3. /\ Len(messages) \in Nat /\ Len(messages') = Len(messages) + 1 /\ DOMAIN messages' = 1 .. Len(messages) + 1
      /\ (\A i \in 1 .. Len(messages) : messages'[i] = messages[i]) /\ messages'[Len(messages) + 1] = new
  BY <1>2
<1>4. UNCHANGED <<context, posts, req, told>> /\ overlapped' = (overlapped \/ InFlight # {})
      /\ Len(messages) < MaxMessages
  BY DEF StoreMessage
<1>5. AnswersEarlier'
  <2>1. \A i \in 1 .. Len(messages) : messages[i].answers < i
    BY <1>2, <1>3 DEF MemoryInv, AnswersEarlier
  <2> QED BY <1>2, <1>3, <2>1 DEF AnswersEarlier
<1>6. ASSUME ~ overlapped'
      PROVE  /\ Remembering'
             /\ \A p \in Requests : req'[p].pc # "idle" =>
                  Current(req[p])' /\ \A s \in Requests \ {p} : req'[s].pc = "idle"
  <2>1. ~ overlapped /\ Remembering /\ \A p \in Requests : req[p].pc = "idle"
    BY <1>4, <1>6 DEF InFlight, At, MemoryInv
  <2>2. Len(messages') <= HistoryLimit
    BY <1>3, <1>4, ChatConstants DEF PageSuffices
  <2>3. AllGenerations' = AllGenerations /\ Remembered' = Remembered /\ (Keeps(context, told)' <=> Keeps(context, told))
        /\ (InSequence(context.generated_posts)' <=> InSequence(context.generated_posts))
    BY <1>4 DEF AllGenerations, Remembered, Keeps, InSequence
  <2>4. Remembering'
    BY <1>4, <2>1, <2>2, <2>3 DEF Remembering
  <2> QED BY <1>4, <2>1, <2>4
<1> QED BY <1>5, <1>6 DEF MemoryInv

\* What a commit adds to the conversation, and how many messages there are then.
LEMMA CommittedAnswers ==
    ASSUME Inv, AnswersEarlier, NEW r \in Requests, NEW q, q = req[r], q.pc = "commit", NEW ms, ms = messages \o q.said
    PROVE  /\ \A i \in DOMAIN ms : ms[i].answers < i
           /\ q.message = 0 => ms = messages
           /\ q.message > 0 /\ q.message >= Len(messages) => Len(ms) = q.message + 1
<1>1. messages \in Seq(Message) /\ Len(messages) \in Nat /\ DOMAIN messages = 1 .. Len(messages)
  BY DEF Inv, Committed
<1>2. Spoken(q) /\ q \in Request /\ q.said \in Seq(Message) /\ q.message \in Nat /\ q.text \in {None} \cup Texts
  BY DEF Inv, RequestInv, Request
<1>3. q.pc \in Answered
  BY DEF Answered
<1>4. \A i \in 1 .. Len(messages) : messages[i].answers < i
  BY <1>1 DEF AnswersEarlier
<1>8. AssistantMessage(q.message) \in Message /\ AssistantMessage(q.message).answers = q.message
  BY <1>2 DEF AssistantMessage, Message
<1>5. CASE q.message = 0
  <2>1. q.said = <<>>
    BY <1>2, <1>5 DEF Spoken
  <2>2. ms = messages
    BY <1>1, <2>1
  <2> QED BY <1>1, <1>4, <1>5, <2>2
<1>6. CASE q.message > 0 /\ NewTurn(q)
  <2>1. PICK u \in Message : u = UserMessage(q.text) /\ u.answers = 0
    <3>1. q.text \in Texts
      BY <1>2, <1>6 DEF Spoken
    <3>2. UserMessage(q.text) \in Message /\ UserMessage(q.text).answers = 0
      BY <3>1 DEF UserMessage, Message
    <3> QED BY <3>2
  <2>2. PICK a \in Message : a = AssistantMessage(q.message) /\ a.answers = q.message
    BY <1>8
  <2>3. ms = messages \o <<u, a>> /\ q.message = Len(messages) + 1
    BY <1>3, <1>6, <2>1, <2>2 DEF NewTurn
  <2>4. PICK n \in Nat : n = Len(messages)
    BY <1>1
  <2>5. Len(ms) = n + 2 /\ DOMAIN ms = 1 .. n + 2 /\ (\A i \in 1 .. n : ms[i] = messages[i])
        /\ ms[n + 1] = u /\ ms[n + 2] = a
    BY <1>1, <2>3, <2>4
  <2>6. \A i \in DOMAIN ms : ms[i].answers < i
    BY <1>4, <2>1, <2>2, <2>3, <2>4, <2>5
  <2> QED BY <1>6, <2>3, <2>4, <2>5, <2>6
<1>7. CASE q.message > 0 /\ StoredTurn(q)
  <2>1. PICK a \in Message : a = AssistantMessage(q.message) /\ a.answers = q.message
    BY <1>8
  <2>2. ms = messages \o <<a>> /\ q.message \in 1 .. Len(messages)
    BY <1>3, <1>7, <2>1 DEF StoredTurn
  <2>3. PICK n \in Nat : n = Len(messages)
    BY <1>1
  <2>4. Len(ms) = n + 1 /\ DOMAIN ms = 1 .. n + 1 /\ (\A i \in 1 .. n : ms[i] = messages[i]) /\ ms[n + 1] = a
    BY <1>1, <2>2, <2>3
  <2>5. \A i \in DOMAIN ms : ms[i].answers < i
    BY <1>4, <2>1, <2>2, <2>3, <2>4
  <2> QED BY <1>7, <2>2, <2>3, <2>4, <2>5
<1> QED BY <1>2, <1>5, <1>6, <1>7 DEF Spoken

\* A commit adds the request's generation and no other, in the one post there is.
LEMMA CommittedGenerations ==
    ASSUME Inv, NEW r \in Requests, NEW q, q = req[r], q.pc = "commit", NEW ps \in Published(r),
           Len(posts) <= 1, q.made => posts = <<>>
    PROVE  /\ Len(ps) <= 1
           /\ \A g : g \in UNION {{ps[l].id} \X DOMAIN ps[l].generations : l \in DOMAIN ps} =>
                g \in AllGenerations \cup Upcoming(q)
<1>1. /\ ps \in Seq(Post) /\ \A k, l \in DOMAIN ps : ps[k].id = ps[l].id => k = l
      /\ \A l \in DOMAIN ps :
           \/ \E k \in DOMAIN posts :
                 ps[l] = posts[k] /\ (q.generation # None => posts[k].id # q.post)
           \/ q.generation # None /\ ps[l] = Extended(q)
  BY PublishedFacts
<1>2. posts \in Seq(Post) /\ DistinctPosts /\ Posted(r, q) /\ Queued(q) /\ q \in Request
  BY DEF Inv, Committed, RequestInv
<1>3. Len(ps) <= 1
  <2>1. SUFFICES ASSUME Len(ps) > 1 PROVE FALSE
    BY <1>1
  <2>2. 1 \in DOMAIN ps /\ 2 \in DOMAIN ps
    BY <1>1, <2>1
  <2>3. \A k \in DOMAIN posts : k = 1
    BY <1>2
  <2>4. ps[1].id # ps[2].id
    BY <1>1, <2>2
  <2>5. Extended(q).id = q.post
    BY DEF Extended
  <2>6. q.generation # None /\ \E k \in DOMAIN posts : posts[k].id # q.post
    BY <1>1, <2>2, <2>3, <2>4, <2>5
  <2>7. ~ q.made
    BY <2>6
  <2>8. q.post # None
    BY <1>2, <2>6 DEF Queued
  <2>9. \E k \in DOMAIN posts : posts[k].id = q.post
    BY <1>2, <2>7, <2>8 DEF Posted, Unnamed
  <2> QED BY <2>3, <2>6, <2>9
<1>4. ASSUME NEW l \in DOMAIN ps, NEW g \in {ps[l].id} \X DOMAIN ps[l].generations
      PROVE  g \in AllGenerations \cup Upcoming(q)
  <2>1. CASE \E k \in DOMAIN posts : ps[l] = posts[k]
    BY <1>4, <2>1, InAllGenerations
  <2>2. CASE q.generation # None /\ ps[l] = Extended(q)
    <3>1. PICK attempts \in Seq(Generation) : attempts = Attempts(q.post)
      BY <1>2, AttemptsType
    <3>2. q.generation \in Generation
      BY <1>2, <2>2 DEF Request
    <3>3. ps[l].id = q.post /\ ps[l].generations = Append(attempts, q.generation)
      BY <2>2, <3>1 DEF Extended
    <3>4. DOMAIN ps[l].generations = 1 .. Len(attempts) + 1
      BY <3>1, <3>2, <3>3
    <3>5. PICK n \in 1 .. Len(attempts) + 1 : g = <<q.post, n>>
      BY <1>4, <3>3, <3>4
    <3>6. CASE n = Len(attempts) + 1
      BY <2>2, <3>1, <3>5, <3>6 DEF Upcoming
    <3>7. CASE n # Len(attempts) + 1
      <4>1. n \in DOMAIN attempts
        BY <3>1, <3>5, <3>7
      <4>2. ~ Unnamed(q.post)
        BY <3>1, <4>1, AttemptsOfNone
      <4> QED BY <1>2, <3>1, <3>5, <4>1, <4>2, GenerationIsListed
    <3> QED BY <3>6, <3>7
  <2> QED BY <1>1, <2>1, <2>2
<1>5. ASSUME NEW g \in UNION {{ps[l].id} \X DOMAIN ps[l].generations : l \in DOMAIN ps}
      PROVE  g \in AllGenerations \cup Upcoming(q)
  <2>1. PICK l \in DOMAIN ps : g \in {ps[l].id} \X DOMAIN ps[l].generations
    BY <1>5
  <2> QED BY <1>4, <2>1
<1> QED BY <1>3, <1>5

LEMMA CommitMemory ==
    ASSUME PageSuffices, Inv, MemoryInv, NEW r \in Requests, Commit(r) PROVE MemoryInv'
<1>1. PICK q : q = req[r]
  OBVIOUS
<1>2. q \in Request /\ q.pc = "commit" /\ q.context \in Context(Ref) /\ q.context # None /\ q.message \in Nat
  BY <1>1, HistoriesAssumption DEF Inv, RequestInv, Commit, At, Decided, Answered, Request
<1>3. PICK ms : ms = messages \o q.said
  OBVIOUS
<1>4. PICK ps \in Published(r) : ps = posts'
  BY DEF Commit
<1>5. /\ messages' = ms /\ context' = (IF q.saved THEN q.context ELSE context)
      /\ told' = (IF q.message > 0 THEN q.stated ELSE told) /\ overlapped' = overlapped
      /\ req' = [req EXCEPT ![r] = Idle] /\ DOMAIN req = Requests
  BY <1>1, <1>3 DEF Commit, Step, IsTurn, Inv
<1>6. /\ \A i \in DOMAIN ms : ms[i].answers < i
      /\ q.message = 0 => ms = messages
      /\ q.message > 0 /\ q.message >= Len(messages) => Len(ms) = q.message + 1
  BY <1>1, <1>2, <1>3, CommittedAnswers DEF MemoryInv
<1>7. AnswersEarlier'
  BY <1>5, <1>6 DEF AnswersEarlier
<1>8. ASSUME ~ overlapped
      PROVE  /\ Remembering'
             /\ \A p \in Requests : req'[p].pc # "idle" =>
                  Current(req[p])' /\ \A s \in Requests \ {p} : req'[s].pc = "idle"
  <2>1. Remembering /\ Current(q) /\ \A p \in Requests \ {r} : req[p].pc = "idle"
    BY <1>1, <1>2, <1>8 DEF MemoryInv
  <2>2. \A p \in Requests : req'[p].pc = "idle"
    BY <1>5, <2>1 DEF Idle
  <2>3. Len(messages') <= HistoryLimit
    <3>1. CASE q.message = 0
      BY <1>5, <1>6, <2>1, <3>1 DEF Remembering
    <3>2. CASE q.message > 0
      <4>1. Len(ms) = q.message + 1 /\ q.message <= MaxMessages
        BY <1>6, <2>1, <3>2 DEF Current
      <4> QED BY <1>2, <1>5, <4>1, ChatConstants DEF PageSuffices
    <3> QED BY <1>2, <3>1, <3>2
  <2>4. Len(posts') <= 1 /\ AllGenerations' \subseteq AllGenerations \cup Upcoming(q)
    <3>1. AllGenerations' = UNION {{ps[l].id} \X DOMAIN ps[l].generations : l \in DOMAIN ps}
      BY <1>4 DEF AllGenerations
    <3>2. Len(posts) <= 1 /\ (q.made => posts = <<>>)
      BY <2>1 DEF Remembering, Current
    <3>3. /\ Len(ps) <= 1
          /\ \A g : g \in UNION {{ps[l].id} \X DOMAIN ps[l].generations : l \in DOMAIN ps} =>
               g \in AllGenerations \cup Upcoming(q)
      BY <1>1, <1>2, <3>2, CommittedGenerations
    <3> QED BY <1>4, <3>1, <3>3
  <2>5. AllGenerations \cup Upcoming(q) \subseteq AllGenerations'
    BY <1>1, CommitKeepsGenerations
  <2>6. CASE q.saved
    <3>1. context' = q.context
      BY <1>5, <2>6
    <3>2. Keeps(q.context, told') /\ InSequence(q.context.generated_posts)
          /\ GenerationsOf(q.context.generated_posts) = AllGenerations \cup Upcoming(q)
      BY <1>2, <1>5, <2>1 DEF Current, Decided, Answered
    <3>3. Remembered' = AllGenerations'
      BY <1>2, <2>4, <2>5, <3>1, <3>2 DEF Remembered, GenerationsOf
    <3>4. context' # None => Keeps(context, told)' /\ InSequence(context.generated_posts)'
      BY <3>1, <3>2 DEF Keeps, InSequence
    <3> QED BY <1>2, <2>2, <2>3, <2>4, <3>1, <3>3, <3>4 DEF Remembering
  <2>7. CASE ~ q.saved
    <3>1. q.message = 0 /\ q.generation = None
      BY <1>2, <2>1, <2>7 DEF Current
    <3>2. context' = context /\ told' = told /\ Upcoming(q) = {}
      BY <1>5, <2>7, <3>1 DEF Upcoming
    <3>3. Remembered' = Remembered /\ (Keeps(context, told)' <=> Keeps(context, told))
          /\ (InSequence(context.generated_posts)' <=> InSequence(context.generated_posts))
      BY <3>2 DEF Remembered, Keeps, InSequence
    <3>4. AllGenerations' = AllGenerations
      BY <2>4, <2>5, <3>2
    <3> QED BY <2>1, <2>2, <2>3, <2>4, <3>2, <3>3, <3>4 DEF Remembering
  <2> QED BY <2>6, <2>7
<1> QED BY <1>5, <1>7, <1>8 DEF MemoryInv

----------------------------------------------------------------------------
LEMMA InitMemory == ASSUME PageSuffices, Init PROVE MemoryInv
<1>1. PICK h \in Histories : messages = h.messages /\ context = h.context
        /\ told = IF h.context = None THEN NoUpdate ELSE h.context.facts
  BY DEF Init
<1>2. posts = <<>> /\ req = [r \in Requests |-> Idle] /\ \A r \in Requests : req[r].pc = "idle"
  BY DEF Init, Idle
<1>3. AnswersEarlier
  BY <1>1, HistoriesAssumption DEF AnswersEarlier
<1>4. context # None => context.generated_posts = <<>> /\ told = context.facts
  BY <1>1, HistoriesAssumption
<1>5. AllGenerations = {}
  BY <1>2 DEF AllGenerations
<1>6. Remembered = {}
  BY <1>4 DEF Remembered
<1>7. context # None => Keeps(context, told) /\ InSequence(context.generated_posts)
  BY <1>4 DEF Keeps, InSequence
<1>8. Len(messages) <= HistoryLimit /\ Len(posts) <= 1 /\ (context = None => told = NoUpdate)
  BY <1>1, <1>2 DEF PageSuffices
<1> QED BY <1>2, <1>3, <1>5, <1>6, <1>7, <1>8 DEF MemoryInv, Remembering

LEMMA NextMemory == ASSUME PageSuffices, Inv, MemoryInv, [Next]_vars PROVE MemoryInv'
<1>1. ASSUME NEW text \in Texts, StoreMessage(text) PROVE MemoryInv'
  BY <1>1, StoreMessageMemory
<1>2. ASSUME NEW r \in Requests, NEW text \in Texts, StartTurn(r, text) PROVE MemoryInv'
  BY <1>2, StartTurnMemory
<1>3. ASSUME NEW r \in Requests, StartStoredTurn(r) PROVE MemoryInv'
  BY <1>3, StartStoredTurnMemory
<1>4. ASSUME NEW r \in Requests, StartCommand(r) PROVE MemoryInv'
  BY <1>4, StartCommandMemory
<1>5. ASSUME NEW r \in Requests, Acquire(r) PROVE MemoryInv'
  BY <1>5, AppendUserMemory, CreatePostMemory, RequestGenerationMemory, AppendAssistantMemory,
     SaveContextMemory, InsertContextMemory DEF Acquire
<1>6. ASSUME NEW r \in Requests, Proceed(r) PROVE MemoryInv'
  BY <1>6, UnderstandMemory, FindPostMemory, CommitMemory DEF Proceed
<1>7. ASSUME NEW r \in Requests, Fail(r) PROVE MemoryInv'
  BY <1>7, RollbackMemory DEF Fail, At
<1>8. ASSUME NEW r \in Requests, BreakDeadlock(r) PROVE MemoryInv'
  <2>1. Rollback(r) /\ \E q \in Requests : WaitsFor(r, q)
    BY <1>8 DEF BreakDeadlock
  <2>2. req[r].pc # "idle"
    BY <2>1 DEF WaitsFor, Wants, At
  <2> QED BY <2>1, <2>2, RollbackMemory
<1>9. CASE UNCHANGED vars
  <2>1. UNCHANGED <<messages, context, posts, told, overlapped, req>>
    BY <1>9 DEF vars
  <2>2. AnswersEarlier' /\ (Remembering => Remembering')
    BY <2>1, RememberingFrame DEF MemoryInv
  <2>3. ASSUME NEW p \in Requests, Current(req[p]) PROVE Current(req[p])'
    <3>1. PICK q : q = req[p]
      OBVIOUS
    <3>2. Current(q)'
      BY <2>1, <2>3, <3>1, CurrentFrame
    <3> QED BY <2>1, <3>1, <3>2
  <2> QED BY <2>1, <2>2, <2>3 DEF MemoryInv
<1> QED BY <1>1, <1>2, <1>3, <1>4, <1>5, <1>6, <1>7, <1>8, <1>9 DEF Next

----------------------------------------------------------------------------
\* A retried or doubled request never queues a post's work twice: the lookup of
\* the key and the insert of the generation share the post's lock.
THEOREM KeysUnique == Spec => []OneGenerationPerKey
<1>1. Inv => OneGenerationPerKey
  BY DEF Inv, Committed
<1> QED BY <1>1, Invariance, PTL

\* Whatever requests overlap, fail or deadlock, a turn is kept whole or not at
\* all, and the context remembers only generations that exist.
THEOREM ConversationWhole == Spec => []ConversationIsWhole
<1>1. Inv => ConversationIsWhole
  BY DEF Inv, Committed, ConversationIsWhole, TypeOK
<1> QED BY <1>1, Invariance, PTL

\* The workflow is given only what the client said: never the inferred goal, a
\* name that no message of the conversation contains, or a language that the
\* client did not write.
THEOREM BriefsStated == Spec => []BriefsAreStated
<1>1. Inv => BriefsAreStated
  BY DEF Inv, Committed
<1> QED BY <1>1, Invariance, PTL

\* Requests that follow one another forget neither a fact nor a generation, as
\* long as the page a request reads holds the whole conversation.
THEOREM NothingIsForgotten == ASSUME PageSuffices PROVE Spec => []NothingForgotten
<1>1. Init => Inv /\ MemoryInv
  BY InitInv, InitMemory
<1>2. Inv /\ MemoryInv /\ [Next]_vars => (Inv /\ MemoryInv)'
  BY NextInv, NextMemory
<1>3. Inv /\ MemoryInv => NothingForgotten
  <2>1. SUFFICES ASSUME Inv, MemoryInv PROVE FactsKept /\ WorkRemembered
    BY DEF NothingForgotten
  <2>2. FactsKept
    BY <2>1 DEF MemoryInv, Remembering, Keeps, FactsKept
  <2>3. WorkRemembered
    BY <2>1 DEF MemoryInv, Remembering, InSequence, WorkRemembered
  <2> QED BY <2>2, <2>3
<1> QED BY <1>1, <1>2, <1>3, PTL DEF Spec
=============================================================================
