------------------------------- MODULE WriteBack -------------------------------
(***************************************************************************)
(* What a write-back does to a row, and what the row's triggers then do:   *)
(* the UPDATE of a source row, the UPSERT into a separate table, and the   *)
(* jobs that either enqueues if the target is watched itself.              *)
(*                                                                         *)
(* All rows of one id are followed, one per table.  A value is the version *)
(* of the client's text it derives from.  Per mapping, one worker with     *)
(* batch_size 1 writes jobs back in the order of their ids; JobQueue and   *)
(* WatchedTables have batches, lost replies and changing mappings.         *)
(***************************************************************************)
EXTENDS Integers, Sequences, FiniteSets

CONSTANTS
  Cells,         \* <<table, column>>
  Registries,    \* watches that may be in force: sets of triggers
  MaxChanges     \* bound: statements of clients

Null   == -1     \* SQL's NULL; 0 is the text of a row older than its watches
Tables == {c[1] : c \in Cells}
Edges  == UNION {tr.jobs : tr \in UNION Registries}

\* The registered column of a mapping is <<source_table, source_column>> or
\* <<target_table, target_column>>.  A trigger belongs to the table it is `on'.
ASSUME WriteBackAssumption ==
  /\ MaxChanges \in Nat
  /\ IsFiniteSet(Edges)
  /\ \A tr \in UNION Registries :
       /\ tr.on \subseteq Cells /\ tr.jobs \subseteq [from : Cells, to : Cells]
       /\ \A e \in tr.jobs : e.from \in tr.on
       /\ \A c, d \in tr.on : c[1] = d[1]

\* Does a write-back of e enqueue a job of f, a mapping of trigger tr?
Feeds(e, f, tr) ==
  /\ f \in tr.jobs /\ f.from[1] = e.to[1]
  /\ e.to \in tr.on \/ e.to[1] # e.from[1]

Mappings(r)     == UNION {tr.jobs : tr \in r}
FedBy(e, f, r) == \E tr \in r : Feeds(e, f, tr)

\* No mapping feeds itself, directly or through others: they can be listed so
\* that each feeds later ones only.  Nothing in watch() or watch_generate()
\* refuses one that does.
ASSUME Acyclic ==
  \A r \in Registries : \E order \in [1 .. Cardinality(Edges) -> Edges] :
    /\ \A e \in Edges : \E i \in DOMAIN order : order[i] = e
    /\ \A i, j \in DOMAIN order :
         order[i] \in Mappings(r) /\ FedBy(order[i], order[j], r) => i < j

VARIABLES
  triggers,      \* the registry in force
  exists,        \* the tables in which the row exists
  value,         \* its columns; Null where there is no row
  queue,         \* per mapping, input_text of its pending jobs
  failed,        \* mappings whose last job ended in error
  changes,       \* statements so far
  deleted,       \* history: tables from which a client has deleted the row
  older          \* history: tables whose row is older than its watches

writeVars == <<triggers, exists, value, queue, failed, changes, deleted, older>>

WriteTypeOK ==
  /\ triggers \in Registries
  /\ exists \subseteq Tables /\ deleted \subseteq Tables /\ older \subseteq Tables
  /\ value \in [Cells -> Nat \cup {Null}]
  /\ queue \in [Edges -> Seq(Nat)]
  /\ failed \subseteq Edges
  /\ changes \in 0 .. MaxChanges

WriteInit ==
  /\ triggers \in Registries
  /\ exists \in SUBSET Tables
  /\ value \in [Cells -> {Null, 0}]
  /\ \A c \in Cells : c[1] \notin exists => value[c] = Null
  /\ queue = [e \in Edges |-> <<>>]
  /\ failed = {} /\ changes = 0 /\ deleted = {} /\ older = exists

-----------------------------------------------------------------------------
CellsOf(t) == {c \in Cells : c[1] = t}

\* Mutant: AFTER INSERT OR UPDATE, of any column.
FiresAlways(tr, t, set, inserted) == \E c \in tr.on : c[1] = t

\* AFTER INSERT OR UPDATE OF the watched columns.
Fires(tr, t, set, inserted) ==
  /\ \E c \in tr.on : c[1] = t
  /\ inserted \/ set \cap tr.on # {}

\* The mappings whose job a statement enqueues.
Fired(t, set, inserted) ==
  UNION {tr.jobs : tr \in {x \in triggers : Fires(x, t, set, inserted)}}

\* Mutant: the statement replaces the row, it sets no single columns.
WrittenWhole(set, v) ==
  [c \in Cells |-> IF c \in set THEN v
                   ELSE IF \E d \in set : d[1] = c[1] THEN Null ELSE value[c]]

Written(set, v) == [c \in Cells |-> IF c \in set THEN v ELSE value[c]]

\* jobs.input_text is NOT NULL: a trigger that reads NULL raises, and with it
\* fails the whole statement.
Refused(new, fired) == \E e \in fired : new[e.from] = Null

Enqueued(q, new, fired) ==
  [e \in Edges |-> IF e \in fired THEN Append(q[e], new[e.from]) ELSE q[e]]

\* A statement that sets the cells `set' of table t, and its triggers.
Statement(t, set, v, q) ==
  LET new   == Written(set, v)
      fired == Fired(t, set, t \notin exists)
  IN  /\ ~Refused(new, fired)
      /\ value' = new
      /\ queue' = Enqueued(q, new, fired)
      /\ exists' = exists \cup {t}

\* Clients write inputs, and may empty them; a row they insert may have an
\* output of another mapping filled in, but no UPDATE of theirs touches one.
Inputs  == {e.from : e \in Edges}
Outputs == {e.to : e \in Edges}

Change(t) == changes < MaxChanges /\ changes' = changes + 1 /\ UNCHANGED <<triggers, failed>>

Insert(t, set) ==
  /\ t \notin exists /\ Change(t)
  /\ Statement(t, set, changes + 1, queue)
  /\ UNCHANGED <<deleted, older>>

Update(t, set) ==
  /\ t \in exists /\ Change(t)
  /\ \E v \in {changes + 1, Null} : Statement(t, set, v, queue)
  /\ UNCHANGED <<deleted, older>>

\* A DELETE fires no trigger and leaves the jobs of the row alone.
Delete(t) ==
  /\ t \in exists /\ Change(t)
  /\ exists' = exists \ {t} /\ deleted' = deleted \cup {t} /\ older' = older \ {t}
  /\ value' = Written(CellsOf(t), Null)
  /\ UNCHANGED queue

-----------------------------------------------------------------------------
\* Mutant: newest job first.
Newest(q) == [input |-> q[Len(q)], left |-> SubSeq(q, 1, Len(q) - 1)]

\* The job a worker claims first, and those it leaves: ORDER BY id.
Oldest(q) == [input |-> Head(q), left |-> Tail(q)]

\* TableMapping::same_table: build_update_sql, or else build_upsert_sql.
SameTable(e) == e.to[1] = e.from[1]

\* write_back or write_back_text, and mark_done or mark_error.  An UPDATE that
\* finds no row is a success.  Any statement may fail, for a trigger that reads
\* NULL or a constraint, a type or a width of the table it writes.
WriteBackJob(e) ==
  LET t    == e.to[1]
      job  == Oldest(queue[e])
      left == [queue EXCEPT ![e] = job.left]
  IN  /\ queue[e] # <<>>
      /\ \/ /\ SameTable(e) /\ t \notin exists
            /\ failed' = failed \ {e} /\ queue' = left /\ UNCHANGED <<value, exists>>
         \/ /\ ~SameTable(e) \/ t \in exists
            /\ Statement(t, {e.to}, job.input, left)
            /\ failed' = failed \ {e}
         \/ failed' = failed \cup {e} /\ queue' = left /\ UNCHANGED <<value, exists>>
      /\ UNCHANGED <<triggers, changes, deleted, older>>

WriteNext ==
  \/ \E t \in Tables :
       \/ \E set \in SUBSET (Inputs \cap CellsOf(t)) : Insert(t, set)
       \/ \E set \in SUBSET ((Inputs \ Outputs) \cap CellsOf(t)) : Update(t, set)
       \/ Delete(t)
  \/ \E e \in Edges : WriteBackJob(e)

WriteSpec == WriteInit /\ [][WriteNext]_writeVars

\* As PendingIsClaimed of JobQueue has it, for a worker that stays healthy.
FairWriteSpec == WriteSpec /\ WF_writeVars(\E e \in Edges : WriteBackJob(e))

-----------------------------------------------------------------------------
\* Write-backs that fire triggers come to an end: each statement of a client
\* costs finitely many jobs.
AtRest == \A e \in Edges : queue[e] = <<>>

Settles == []<>AtRest

\* The safety half of Settles: a write-back takes a job from its own mapping
\* and adds some to mappings it feeds, and to no others.  For registrations
\* without a cycle there is no endless chain of such steps (WriteBackProofs).
Queues   == [Edges -> Seq(Nat)]
Drains(r) ==
  {s \in Queues \X Queues : \E e \in Mappings(r) :
     /\ Len(s[1][e]) < Len(s[2][e])
     /\ \A f \in Edges \ {e} : s[1][f] # s[2][f] => FedBy(e, f, r)}
WriteBacksDrain ==
  [][(\E e \in Edges : WriteBackJob(e)) => <<queue', queue>> \in Drains(triggers)]_writeVars

\* At rest every output derives from the newest text of its input, along chains
\* of mappings too, unless its last job failed or a client deleted its row from
\* a separate target table, which nothing fills again.
MayBeStale(e) == e \in failed \/ (~SameTable(e) /\ e.to[1] \in deleted)

RestIsFresh ==
  AtRest =>
    \A e \in Mappings(triggers) :
      value[e.from] >= 1 /\ ~MayBeStale(e) => value[e.to] = value[e.from]

\* A row that appears under its watches, one that a worker's upsert creates or
\* brings back included, has a text in every watched column, since a statement
\* that leaves or makes one NULL is refused as a whole; and at rest all of its
\* outputs derive from those texts, also from one written before the watches.
NewRow(t) == t \in exists \ older

NewRowsAreFilled ==
  \A e \in Mappings(triggers) :
    NewRow(e.from[1]) =>
      /\ value[e.from] # Null
      /\ AtRest /\ ~MayBeStale(e) => value[e.to] = value[e.from]

\* The text of e's column, if it is one to write back, is on its way or has
\* arrived.
Current(e) ==
  value[e.from] >= 1 \/ NewRow(e.from[1]) =>
    /\ value[e.from] # Null
    /\ IF queue[e] # <<>> THEN queue[e][Len(queue[e])] = value[e.from]
                          ELSE MayBeStale(e) \/ value[e.to] = value[e.from]

\* The inductive invariant behind both, for registrations in which no two
\* mappings have the same target.
FreshInv ==
  /\ \A c \in Cells : c[1] \notin exists => value[c] = Null
  /\ \A e \in Edges : queue[e] # <<>> => e \in Mappings(triggers)
  /\ \A e \in Mappings(triggers) : Current(e)
===============================================================================
