--------------------------- MODULE WorkflowStore ----------------------------
(***************************************************************************)
(* The versioned workflow state of one generation in PostgreSQL, under the  *)
(* three operations that write it: the generic section write and the        *)
(* contract creation of PostsService, and the checkpoint store's            *)
(* write_section, all through update_workflow_state.                        *)
(*                                                                          *)
(* An operation is one READ COMMITTED transaction.  Its reads see the       *)
(* latest committed row; its UPDATE ... WHERE version = expected waits for   *)
(* the row lock, tests the committed version and then holds the lock until  *)
(* the commit that publishes the new row and its snapshot.                  *)
(***************************************************************************)
EXTENDS Integers, Sequences

CONSTANTS
    Sections, Contract, Values, Empty,
    Clients,      \* concurrent requests and executors
    Patchable,    \* sections the generic API write accepts
    NoClient,
    MaxVersion    \* bound: accepted writes

ASSUME StoreConstants ==
    /\ Contract \in Sections /\ Empty \notin Values
    /\ Patchable \subseteq Sections \ {Contract}
    /\ NoClient \notin Clients
    /\ MaxVersion \in Nat \ {0}

VARIABLES
    row,      \* the committed row of post_generation_states
    log,      \* post_generation_state_versions, by version
    holder,   \* the client whose transaction holds the row lock
    client    \* where every client's operation is

storeVars == <<row, log, holder, client>>

Document == [Sections -> Values \cup {Empty}]
Blank == [x \in Sections |-> Empty]
Operations == {"patch", "create", "checkpoint"}
Answers == {"none", "ok", "existing", "conflict", "hard_fail", "failed"}

\* pc: idle; begun; selected after the repository's SELECT; updated while the
\* lock is held; lost after a failed compare-and-swap; answered.
ClientState ==
    [pc: {"idle", "begun", "selected", "updated", "lost", "answered"},
     op: Operations, section: Sections, value: Values \cup {Empty}, expected: Nat,
     seen: Document, answer: Answers]

Fresh(op, x, v, n) ==
    [pc |-> "begun", op |-> op, section |-> x, value |-> v, expected |-> n,
     seen |-> Blank, answer |-> "none"]

StoreInit ==
    /\ row = [version |-> 1, doc |-> Blank]
    /\ log = << [section |-> Contract, doc |-> Blank] >>
    /\ holder = NoClient
    /\ client = [c \in Clients |->
                   [Fresh("patch", Contract, Empty, 1) EXCEPT !.pc = "idle"]]

----------------------------------------------------------------------------
Answer(c, answer) ==
    client' = [client EXCEPT ![c].pc = "answered", ![c].answer = answer, ![c].seen = Blank]

Begin(c, op, x, v, n) ==
    /\ client[c].pc \in {"idle", "answered"}
    /\ n \in 1..row.version                        \* a version the caller has read
    /\ client' = [client EXCEPT ![c] = Fresh(op, x, v, n)]
    /\ UNCHANGED <<row, log, holder>>

\* write_workflow_section: any section but the contract and the checkpoint.
BeginPatch(c) == \E x \in Patchable, v \in Values \cup {Empty}, n \in 1..row.version :
    Begin(c, "patch", x, v, n)

\* create_semantic_contract
BeginCreate(c) == \E v \in Values, n \in 1..row.version : Begin(c, "create", Contract, v, n)

\* Mutant: the executor does not look at the contract it holds.
CheckpointAllowed(x, v, n) == TRUE

\* _persist_stage_outputs refuses to replace the contract in the state it holds,
\* which is the snapshot of the version it will compare with.
MayCheckpoint(x, v, n) == x = Contract => log[n].doc[Contract] \in {Empty, v}

BeginCheckpoint(c) ==
    \E x \in Sections, v \in Values \cup {Empty}, n \in 1..row.version :
        /\ x = Contract => v # Empty
        /\ MayCheckpoint(x, v, n)
        /\ Begin(c, "checkpoint", x, v, n)

----------------------------------------------------------------------------
(* update_workflow_state *)

\* The contract in the row read by create_semantic_contract, before its write
\* and again after a lost one, decides the answer.
Judge(c) ==
    Answer(c, CASE row.doc[Contract] = client[c].value -> "existing"
                [] row.doc[Contract] = Empty -> "conflict"
                [] OTHER -> "hard_fail")

\* create_semantic_contract's own read, with its two early returns, and the
\* repository's read right after it; the other operations have only the latter.
Select(c) ==
    /\ client[c].pc = "begun"
    /\ LET exists == client[c].op = "create" /\ row.doc[Contract] # Empty
           current == row.version = client[c].expected
       IN \/ exists /\ Judge(c)
          \/ ~exists /\ ~current /\ Answer(c, "conflict")
          \/ /\ ~exists /\ current
             /\ client' = [client EXCEPT ![c].pc = "selected", ![c].seen = row.doc]
    /\ UNCHANGED <<row, log, holder>>

\* Mutant: UPDATE ... WHERE generation_id only.
UpdateUnconditionally(c) ==
    /\ client[c].pc = "selected" /\ holder = NoClient /\ row.version < MaxVersion
    /\ client' = [client EXCEPT ![c].pc = "updated"] /\ holder' = c
    /\ UNCHANGED <<row, log>>

\* The UPDATE waits for the lock and matches the row only at that version.
Update(c) ==
    /\ client[c].pc = "selected" /\ holder = NoClient
    /\ IF row.version = client[c].expected
       THEN /\ row.version < MaxVersion
            /\ client' = [client EXCEPT ![c].pc = "updated"] /\ holder' = c
       ELSE /\ IF client[c].op = "create"
               THEN client' = [client EXCEPT ![c].pc = "lost"]
               ELSE Answer(c, "conflict")
            /\ UNCHANGED holder
    /\ UNCHANGED <<row, log>>

\* Mutant: any contract found after a lost race is taken for the caller's.
JudgeAnyContract(c) ==
    /\ client[c].pc = "lost"
    /\ Answer(c, IF row.doc[Contract] = Empty THEN "conflict" ELSE "existing")
    /\ UNCHANGED <<row, log, holder>>

\* create_semantic_contract reads again after it lost the race.
Reread(c) ==
    /\ client[c].pc = "lost"
    /\ Judge(c)
    /\ UNCHANGED <<row, log, holder>>

\* Mutant: the section's value is stored as the whole document.
WrittenAlone(c) == [x \in {client[c].section} |-> client[c].value]

\* The whole document is rewritten from the one the SELECT returned.
Written(c) == [client[c].seen EXCEPT ![client[c].section] = client[c].value]

\* Mutant: the snapshot keeps the document as it was read.
CommitOldSnapshot(c) ==
    /\ client[c].pc = "updated"
    /\ row' = [version |-> client[c].expected + 1, doc |-> Written(c)]
    /\ log' = Append(log, [section |-> client[c].section, doc |-> client[c].seen])
    /\ holder' = NoClient
    /\ Answer(c, "ok")

Commit(c) ==
    /\ client[c].pc = "updated"
    /\ row' = [version |-> client[c].expected + 1, doc |-> Written(c)]
    /\ log' = Append(log, [section |-> client[c].section, doc |-> Written(c)])
    /\ holder' = NoClient
    /\ Answer(c, "ok")

\* The process dies or the database fails the transaction: it rolls back.
Rollback(c) ==
    /\ client[c].pc \in {"begun", "selected", "updated", "lost"}
    /\ holder' = IF holder = c THEN NoClient ELSE holder
    /\ Answer(c, "failed")
    /\ UNCHANGED <<row, log>>

Request(c) == BeginPatch(c) \/ BeginCreate(c) \/ BeginCheckpoint(c)
Work(c) == Select(c) \/ Update(c) \/ Reread(c) \/ Commit(c)

StoreNext == \E c \in Clients : Request(c) \/ Work(c) \/ Rollback(c)

StoreSpec == StoreInit /\ [][StoreNext]_storeVars

----------------------------------------------------------------------------
(* Properties *)

StoreTypeOK ==
    /\ row \in [version: 1..MaxVersion, doc: Document]
    /\ log \in Seq([section: Sections, doc: Document])
    /\ holder \in Clients \cup {NoClient}
    /\ client \in [Clients -> ClientState]

\* The snapshots are the row's whole past: the last one is the row, and each
\* differs from the one before only in the section it names.  An accepted write
\* never undoes another one although it rewrites the whole document.
SnapshotChain ==
    /\ Len(log) = row.version /\ log[row.version].doc = row.doc
    /\ \A n \in 2..row.version : \A x \in Sections \ {log[n].section} :
         log[n].doc[x] = log[n - 1].doc[x]

\* Once there is a contract, no operation replaces or removes it.
ContractWriteOnce ==
    [][row.doc[Contract] # Empty => row'.doc[Contract] = row.doc[Contract]]_storeVars

\* What a caller is told is true: an accepted write is the version after the one
\* it named, and a creation reported as done or as already there left exactly
\* the caller's contract in the document.
HonestTo(c) ==
    /\ client[c].answer = "ok" =>
         /\ client[c].expected < row.version
         /\ log[client[c].expected + 1].section = client[c].section
         /\ log[client[c].expected + 1].doc[client[c].section] = client[c].value
    /\ client[c].op = "create" /\ client[c].answer \in {"ok", "existing"}
         => row.doc[Contract] = client[c].value
HonestAnswers == \A c \in Clients : HonestTo(c)

\* The store implements the versioned document.
Documents == [n \in 1..Len(log) |-> log[n].doc]
Abstract == INSTANCE VersionedDocument WITH versions <- Documents
Implements == Abstract!Spec
=============================================================================
