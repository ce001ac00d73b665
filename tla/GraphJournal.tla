---------------------------- MODULE GraphJournal ----------------------------
(***************************************************************************)
(* The transactional journal (journal.py): an append-only, hash-chained    *)
(* table of decision records shared by several connections, each with its  *)
(* own cached fold, idempotency index and verification cursor.             *)
(*                                                                         *)
(* A decision runs inside one BEGIN IMMEDIATE transaction, so it is one    *)
(* action; a read and recover() are not, and take two.  A COMMIT may fail  *)
(* (MayFail) and a crash may leave the last record torn (MayTear).  A      *)
(* record's hash is its payload: SHA-256 is taken to be injective.         *)
(***************************************************************************)
EXTENDS GraphSemantics

CONSTANTS
    Envelopes,     \* the envelopes proposers may submit
    Connections,   \* open GraphJournal objects, each in a process of its own
    Recoverers,    \* those whose process may run recover()
    MayFail,       \* a COMMIT can fail, the process going on
    MayTear,       \* a crash can leave a torn last record
    MaxRows        \* bound on journal_seq

ASSUME JournalAssumption ==
    /\ Envelopes \subseteq Envelope
    /\ Recoverers \subseteq Connections
    /\ {MayFail, MayTear} \subseteq BOOLEAN
    /\ MaxRows \in Nat

VARIABLES
    log,      \* graph_events: rows in journal_seq order
    nextSeq,  \* the AUTOINCREMENT counter, not reset by DELETE
    conn,     \* in-memory state of each connection
    acks      \* acceptances answered to proposers (history variable)

vars == <<log, nextSeq, conn, acks>>

-----------------------------------------------------------------------------
(* Rows.  A torn row keeps the hash stored with it; its payload no longer  *)
(* has that hash.  after stands for audit_state_hash.                      *)

InitEvent(id) == [type |-> "init", graph |-> id]
Accepted(env, next) == [type |-> "accepted", env |-> env, after |-> next]
Rejected(env, revision) ==
    [type |-> "rejected", env |-> env, revision |-> revision]
Checkpoint(g) == [type |-> "snapshot", graph |-> g]

Row(payload, sound) == [seq |-> nextSeq, payload |-> payload, sound |-> sound]

MaxSeq == IF log = <<>> THEN 0 ELSE log[Len(log)].seq

HasInit == \E i \in DOMAIN log : log[i].payload.type = "init"

-----------------------------------------------------------------------------
(* _fold from genesis: the graph, the idempotency index, and whether it    *)
(* raised (an unparseable record, or a checkpoint that disagrees with its  *)
(* own prefix).                                                            *)

Entry(env, seq, revision) == [env |-> env, seq |-> seq, revision |-> revision]

Reindex(index, entry) ==
    {e \in index : e.env.key # entry.env.key} \cup {entry}

NoFold == [ok |-> TRUE, graph |-> EmptyGraph(Nil), index |-> {}]

FoldAccepted(f, row) ==
    LET next == Result(f.graph, row.payload.env) IN
    [f EXCEPT !.graph = next,
              !.index = Reindex(@, Entry(row.payload.env, row.seq,
                                         next.revision))]

FoldRow(f, row) ==
    LET p == row.payload IN
    CASE p.type = "rejected" -> f
      [] p.type # "rejected" /\ ~row.sound -> [f EXCEPT !.ok = FALSE]
      [] p.type = "init" /\ row.sound ->
             [f EXCEPT !.graph = EmptyGraph(p.graph)]
      [] p.type = "accepted" /\ row.sound ->
             IF f.graph.id = Nil THEN [f EXCEPT !.ok = FALSE]
             ELSE FoldAccepted(f, row)
      [] p.type = "snapshot" /\ row.sound ->
             IF f.graph.id = Nil \/ p.graph = f.graph
             THEN [f EXCEPT !.graph = p.graph]
             ELSE [f EXCEPT !.ok = FALSE]

(* Nothing is folded after a record that raised.                           *)
FoldStep(f, row) == IF f.ok THEN FoldRow(f, row) ELSE f

FoldOf(rows) ==
    LET f[i \in 0..Len(rows)] ==
            IF i = 0 THEN NoFold ELSE FoldStep(f[i-1], rows[i])
    IN  f[Len(rows)]

-----------------------------------------------------------------------------
(* A connection.  seq is _cached_seq; scan is recover()'s first_bad once   *)
(* it has read the table; load is a read's current_max between its two     *)
(* statements.                                                             *)

Closed ==
    [state |-> Nil, seq |-> 0, index |-> {}, validated |-> FALSE,
     vseq |-> 0, vhash |-> Nil, broken |-> FALSE, scan |-> 0, load |-> Nil]

(* A connection is single-threaded: it starts an operation only when no    *)
(* other one of its own is between two steps.                              *)
Idle(c) == conn[c].scan = 0 /\ conn[c].load = Nil

(* Room for one more row, within the bound of the model.                   *)
MayWrite(c) == Idle(c) /\ nextSeq <= MaxRows

(* Mutant: the cursor is cleared to nothing.                               *)
InvalidatedToNil(k) ==
    [k EXCEPT !.state = Nil, !.seq = Nil, !.index = {}, !.validated = FALSE]

Invalidated(k) ==
    [k EXCEPT !.state = Nil, !.seq = 0, !.index = {}, !.validated = FALSE]

(* _ensure_verified: walk the rows after the cursor; a link that does not  *)
(* fit or a hash that does not match is a sticky chain error.              *)
PreviousHash(i) == IF i = 1 THEN Nil ELSE log[i-1].payload

Unverified(k) == {i \in DOMAIN log : log[i].seq > k.vseq}

BadRows(k) ==
    {i \in Unverified(k) :
        \/ ~log[i].sound
        \/ /\ \A j \in Unverified(k) : i <= j
           /\ PreviousHash(i) # k.vhash}

Verified(k) ==
    LET good == {i \in Unverified(k) : \A j \in BadRows(k) : i < j}
        last == CHOOSE i \in good : \A j \in good : j <= i
    IN  [k EXCEPT !.broken = BadRows(k) # {},
                  !.vseq = IF good = {} THEN @ ELSE log[last].seq,
                  !.vhash = IF good = {} THEN @ ELSE log[last].payload]

(* The cached fold is used as long as no record follows the one it stands  *)
(* for.                                                                    *)
CacheHit(k) == k.state # Nil /\ k.seq = MaxSeq

Loaded(k, seq) ==
    LET f == FoldOf(log) IN
    [k EXCEPT !.state = f.graph, !.seq = seq, !.index = f.index]

(* Mutant: a fold once made is used for good.                              *)
FoldedOnce(k) ==
    IF k.broken \/ Verified(k).broken THEN {}
    ELSE IF k.state # Nil THEN {Verified(k)}
    ELSE IF FoldOf(log).ok THEN {Loaded(Verified(k), MaxSeq)}
    ELSE {}

(* _fold inside a write transaction, as a set: empty when it raises.       *)
Folded(k) ==
    IF k.broken \/ Verified(k).broken THEN {}
    ELSE IF CacheHit(k) THEN {Verified(k)}
    ELSE IF FoldOf(log).ok THEN {Loaded(Verified(k), MaxSeq)}
    ELSE {}

(* What a connection is left with when _fold raises.                       *)
Raised(k) == IF k.broken THEN k ELSE Verified(k)

(* _advance_cache past the record just written.                            *)
Advanced(k) == IF k.state = Nil THEN k ELSE [k EXCEPT !.seq = nextSeq]

-----------------------------------------------------------------------------

Init ==
    /\ log = <<>>
    /\ nextSeq = 1
    /\ conn = [c \in Connections |-> Closed]
    /\ acks = {}

(* The end of a write transaction that inserted a record and left the      *)
(* connection's memory as k.  A failed COMMIT rolls the table back, and    *)
(* not the memory; a torn write takes the process down with it.            *)
Commits(c, payload, k, answer) ==
    /\ log' = Append(log, Row(payload, TRUE))
    /\ nextSeq' = nextSeq + 1
    /\ conn' = [conn EXCEPT ![c] = k]
    /\ acks' = acks \cup answer

CommitFails(c, k) ==
    /\ MayFail
    /\ conn' = [conn EXCEPT ![c] = k]
    /\ UNCHANGED <<log, nextSeq, acks>>

Tears(c, payload) ==
    /\ MayTear
    /\ log' = Append(log, Row(payload, FALSE))
    /\ nextSeq' = nextSeq + 1
    /\ conn' = [conn EXCEPT ![c] = Closed]
    /\ UNCHANGED acks

Write(c, payload, k, answer) ==
    \/ Commits(c, payload, k, answer)
    \/ CommitFails(c, k)
    \/ Tears(c, payload)

(* init_graph looks for an init record and for nothing else.               *)
InitGraph(c, id) ==
    /\ MayWrite(c)
    /\ ~HasInit
    /\ Write(c, InitEvent(id), Invalidated(conn[c]), {})

(* propose, reject or snapshot when _fold raises: nothing is written.      *)
FoldRaises(c) ==
    /\ Idle(c)
    /\ Folded(conn[c]) = {}
    /\ conn' = [conn EXCEPT ![c] = Raised(@)]
    /\ UNCHANGED <<log, nextSeq, acks>>

Prior(k, env) == {e \in k.index : e.env.key = env.key}

(* validate_mutation, whose look at the graph itself is skipped once this  *)
(* connection has validated one.                                           *)
ValidFor(k, env) ==
    /\ k.validated \/ (SnapshotValid(k.state) /\ ShapeValid(k.state))
    /\ MutationValid(k.state, env)

Accepts(k, env) ==
    /\ k.state.id # Nil
    /\ Prior(k, env) = {}
    /\ ValidFor(k, env)
    /\ Admissible(k.state, env)

(* propose: an envelope that passes is appended and becomes the new fold.  *)
ProposeAccepted(c, env) ==
    /\ MayWrite(c)
    /\ \E k \in Folded(conn[c]) :
          LET next == Result(k.state, env)
              entry == Entry(env, nextSeq, next.revision)
          IN  /\ Accepts(k, env)
              /\ Write(c, Accepted(env, next),
                       [k EXCEPT !.state = next, !.seq = nextSeq,
                                 !.index = Reindex(@, entry),
                                 !.validated = TRUE],
                       {entry})

(* propose: the same envelope under a key already in the index is answered *)
(* with the original decision.                                             *)
ProposeRepeated(c, env) ==
    /\ Idle(c)
    /\ \E k \in Folded(conn[c]) :
          /\ k.state.id # Nil
          /\ \E e \in Prior(k, env) :
                /\ e.env = env
                /\ acks' = acks \cup {e}
          /\ conn' = [conn EXCEPT ![c] = k]
    /\ UNCHANGED <<log, nextSeq>>

(* propose: everything else is journaled as a rejection.                   *)
ProposeRejected(c, env) ==
    /\ MayWrite(c)
    /\ \E k \in Folded(conn[c]) :
          /\ ~Accepts(k, env)
          /\ k.state.id = Nil \/ \A e \in Prior(k, env) : e.env # env
          /\ Write(c, Rejected(env, k.state.revision),
                   [Advanced(k) EXCEPT !.validated =
                        \/ @
                        \/ /\ k.state.id # Nil
                           /\ Prior(k, env) = {}
                           /\ ValidFor(k, env)],
                   {})

(* Mutant: a rejection is recorded without reading what it follows.        *)
RefuseUnread(c, env) ==
    /\ MayWrite(c)
    /\ Write(c, Rejected(env, 0), Advanced(conn[c]), {})

(* reject(), and propose() of an envelope that fails its JSON Schema: the  *)
(* rejection is journaled, without a fold while there is no init record.   *)
Refuse(c, env) ==
    /\ MayWrite(c)
    /\ \/ /\ HasInit
          /\ \E k \in Folded(conn[c]) :
                Write(c, Rejected(env, k.state.revision), Advanced(k), {})
       \/ /\ ~HasInit
          /\ Write(c, Rejected(env, 0), Advanced(conn[c]), {})

(* Mutant: the checkpoint is of the cache, read before the lock is held.   *)
SnapshotOfCache(c) ==
    /\ MayWrite(c)
    /\ conn[c].state # Nil
    /\ conn[c].state.id # Nil
    /\ Write(c, Checkpoint(conn[c].state), Advanced(conn[c]), {})

(* snapshot() embeds the fold, cached or not, in a checkpoint record.      *)
Snapshot(c) ==
    /\ MayWrite(c)
    /\ \E k \in Folded(conn[c]) :
          /\ k.state.id # Nil
          /\ Write(c, Checkpoint(k.state), Advanced(k), {})

(* replay, hash, ready_set, graph_revision: no transaction.  The rows are  *)
(* verified and MAX(journal_seq) is read first, the records afterwards.    *)
ReadBegins(c) ==
    /\ Idle(c)
    /\ ~conn[c].broken
    /\ LET k == Verified(conn[c]) IN
       conn' = [conn EXCEPT ![c] =
                   IF k.broken \/ CacheHit(k) THEN k
                   ELSE [k EXCEPT !.load = MaxSeq]]
    /\ UNCHANGED <<log, nextSeq, acks>>

ReadEnds(c) ==
    /\ conn[c].load # Nil
    /\ conn' = [conn EXCEPT ![c] =
                   LET k == [@ EXCEPT !.load = Nil] IN
                   IF FoldOf(log).ok THEN Loaded(k, @.load) ELSE k]
    /\ UNCHANGED <<log, nextSeq, acks>>

(* verify(): from genesis again.                                           *)
Verify(c) ==
    /\ Idle(c)
    /\ conn' = [conn EXCEPT ![c] =
                   Verified([@ EXCEPT !.vseq = 0, !.vhash = Nil])]
    /\ UNCHANGED <<log, nextSeq, acks>>

(* recover(): the rows are read outside the transaction that deletes.      *)
FirstBad(i) == ~log[i].sound /\ \A j \in 1..(i-1) : log[j].sound

Refused(i) == \E j \in (i+1)..Len(log) : log[j].sound

RecoverScans(c) ==
    /\ c \in Recoverers
    /\ Idle(c)
    /\ \E i \in DOMAIN log :
          /\ FirstBad(i)
          /\ ~Refused(i)
          /\ conn' = [conn EXCEPT ![c].scan = log[i].seq]
    /\ UNCHANGED <<log, nextSeq, acks>>

(* The rows a DELETE from a sequence number on leaves.                     *)
RowsBelow(seq) == [i \in {i \in DOMAIN log : log[i].seq < seq} |-> log[i]]

(* Mutant: one record too many is deleted.                                 *)
RecoverTruncatesMore(c) ==
    /\ conn[c].scan # 0
    /\ log' = RowsBelow(conn[c].scan - 1)
    /\ conn' = [conn EXCEPT ![c] =
                   [Invalidated(@) EXCEPT !.vseq = 0, !.vhash = Nil,
                                          !.broken = FALSE, !.scan = 0]]
    /\ UNCHANGED <<nextSeq, acks>>

RecoverTruncates(c) ==
    /\ conn[c].scan # 0
    /\ log' = RowsBelow(conn[c].scan)
    /\ conn' = [conn EXCEPT ![c] =
                   [Invalidated(@) EXCEPT !.vseq = 0, !.vhash = Nil,
                                          !.broken = FALSE, !.scan = 0]]
    /\ UNCHANGED <<nextSeq, acks>>

(* A process dies, or closes its journal, and opens it again.              *)
Reopen(c) ==
    /\ conn' = [conn EXCEPT ![c] = Closed]
    /\ UNCHANGED <<log, nextSeq, acks>>

Acts(c) ==
    \/ \E id \in GraphIds : InitGraph(c, id)
    \/ \E env \in Envelopes :
          \/ ProposeAccepted(c, env)
          \/ ProposeRepeated(c, env)
          \/ ProposeRejected(c, env)
          \/ Refuse(c, env)
    \/ FoldRaises(c)
    \/ Snapshot(c)
    \/ ReadBegins(c)
    \/ ReadEnds(c)
    \/ Verify(c)
    \/ RecoverScans(c)
    \/ RecoverTruncates(c)
    \/ Reopen(c)

Next == \E c \in Connections : Acts(c)

Spec == Init /\ [][Next]_vars

(* Two steps the code leaves open and its documents do not speak of, each  *)
(* of them with consequences the proofs have to except.  A row is added    *)
(* while a recovery is between the read of the table and its DELETE ...    *)
Races == nextSeq' # nextSeq /\ \E c \in Connections : conn[c].scan # 0

(* ... or under the number of a row that a failed COMMIT rolled back, and  *)
(* that is still in the memory of another connection.                      *)
Renumbers ==
    /\ nextSeq' # nextSeq
    /\ \E c, d \in Connections :
          /\ c # d
          /\ conn[d].state # Nil
          /\ conn[d].seq = nextSeq
          /\ Acts(c)

Apart == ~Races /\ ~Renumbers

-----------------------------------------------------------------------------

Payload ==
    [type : {"init"}, graph : GraphIds]
        \cup
    [type : {"accepted"}, env : Envelope, after : Graph]
        \cup
    [type : {"rejected"}, env : Envelope, revision : Nat]
        \cup
    [type : {"snapshot"}, graph : Graph]

JournalRow == [seq : Nat, payload : Payload, sound : BOOLEAN]

EntryType == [env : Envelope, seq : Nat, revision : Nat]

ConnType ==
    [state : Graph \cup {Nil}, seq : Nat, index : SUBSET EntryType,
     validated : BOOLEAN, vseq : Nat, vhash : Payload \cup {Nil},
     broken : BOOLEAN, scan : Nat, load : Nat \cup {Nil}]

TypeOK ==
    /\ log \in Seq(JournalRow)
    /\ nextSeq \in 1..(MaxRows + 1)
    /\ \A i \in DOMAIN log : log[i].seq \in 1..(nextSeq - 1)
    /\ conn \in [Connections -> ConnType]
    /\ acks \subseteq EntryType

(* The rows a crash has not torn, in front of the first torn one.          *)
Intact(rows) ==
    LET torn == {i \in DOMAIN rows : ~rows[i].sound} IN
    SubSeq(rows, 1, IF torn = {} THEN Len(rows)
                    ELSE (CHOOSE i \in torn : \A j \in torn : i <= j) - 1)

Committed == Intact(log)

Graph0 == FoldOf(Committed).graph

Ledger == INSTANCE GraphLedger
            WITH graph <- Graph0, MaxRevision <- MaxRows

(* The journal implements the ledger: the graph its committed records fold *)
(* to is created once and then changes only by an admissible envelope      *)
(* decided against the revision it has, whichever connection, with         *)
(* whatever cache, decides it.  A step that leaves the log alone leaves    *)
(* the graph alone: saying so first spares TLC the search for an envelope. *)
LedgerSpec == Ledger!Init /\ [][UNCHANGED log \/ Ledger!Next]_Graph0

(* An acceptance a proposer was given is durable and true: the record is   *)
(* in the log under the sequence number it was told, with the envelope it  *)
(* sent, whatever crashed, was recovered or was retried since (docs        *)
(* INV-dag-002: "Only an uncommitted partial tail may be discarded").      *)
AcksDurable ==
    \A e \in acks :
        \E i \in DOMAIN log :
            /\ log[i].sound
            /\ log[i].seq = e.seq
            /\ log[i].payload.type = "accepted"
            /\ log[i].payload.env = e.env
            /\ log[i].payload.after.revision = e.revision

(* A cache that would be used is the fold it stands for, index included:   *)
(* no connection decides on a graph that the log does not say.             *)
CacheCoherent ==
    \A c \in Connections :
        CacheHit(conn[c]) /\ ~Verified(conn[c]).broken =>
            /\ FoldOf(log).ok
            /\ conn[c].state = FoldOf(log).graph
            /\ conn[c].index = FoldOf(log).index

(* A journal without a torn record replays, and every acceptance recorded  *)
(* the state its own replay gives (docs INV-dag-004): no checkpoint ever   *)
(* disagrees with its prefix, which would stop every connection for good.  *)
ReplayReproduces ==
    /\ FoldOf(Committed).ok
    /\ \A i \in DOMAIN Committed :
          log[i].payload.type = "accepted" =>
              log[i].payload.after = FoldOf(SubSeq(log, 1, i)).graph
=============================================================================
