---------------------------- MODULE WriteBackProofs ----------------------------
(***************************************************************************)
(* Theorems about WriteBack, for all tables, columns and acyclic watches.  *)
(***************************************************************************)
EXTENDS WriteBack, SequenceTheorems, FiniteSetTheorems, WellFoundedInduction, TLAPS

\* A mapping's trigger is on the mapping's source table, with its column.
LEMMA MappingOfTrigger ==
  ASSUME NEW r \in Registries, NEW tr \in r, NEW f \in tr.jobs
  PROVE  /\ f \in Edges /\ f.from \in Cells /\ f.to \in Cells
         /\ f.from \in tr.on /\ \A c \in tr.on : c[1] = f.from[1]
<1>1. tr \in UNION Registries
  OBVIOUS
<1>2. /\ tr.jobs \subseteq [from : Cells, to : Cells]
      /\ \A e \in tr.jobs : e.from \in tr.on
      /\ \A c, d \in tr.on : c[1] = d[1]
  BY <1>1, WriteBackAssumption
<1> QED BY <1>1, <1>2 DEF Edges

\* A mapping that a statement on t enqueues a job of.
LEMMA FiredMapping ==
  ASSUME WriteTypeOK, NEW t, NEW set, NEW f \in Fired(t, set, t \notin exists)
  PROVE  /\ f \in Edges /\ f.from \in Cells
         /\ \E tr \in triggers :
              f \in tr.jobs /\ f.from[1] = t /\ (t \notin exists \/ set \cap tr.on # {})
<1>1. PICK tr \in triggers : Fires(tr, t, set, t \notin exists) /\ f \in tr.jobs
  BY DEF Fired
<1>2. f.from[1] = t
  BY <1>1, MappingOfTrigger DEF Fires, WriteTypeOK
<1> QED BY <1>1, <1>2, MappingOfTrigger DEF Fires, WriteTypeOK

\* The job just enqueued is the last.
LEMMA LastOfAppend ==
  ASSUME NEW s \in Seq(Nat), NEW x \in Nat
  PROVE  Append(s, x) # <<>> /\ Append(s, x)[Len(Append(s, x))] = x
<1>1. Len(Append(s, x)) = Len(s) + 1 /\ Append(s, x)[Len(s) + 1] = x /\ Append(s, x) # <<>>
  BY AppendProperties
<1> QED BY <1>1

LEMMA EdgeCells == ASSUME NEW e \in Edges PROVE e.from \in Cells /\ e.to \in Cells
BY WriteBackAssumption DEF Edges

\* A statement keeps the types, and no job's text is NULL.
LEMMA StatementType ==
  ASSUME WriteTypeOK, NEW t \in Tables, NEW set, NEW v \in Nat \cup {Null},
         NEW q \in [Edges -> Seq(Nat)], Statement(t, set, v, q)
  PROVE  /\ value' \in [Cells -> Nat \cup {Null}] /\ queue' \in [Edges -> Seq(Nat)]
         /\ exists' \subseteq Tables
<1> DEFINE new == Written(set, v)
           fired == Fired(t, set, t \notin exists)
<1>1. new \in [Cells -> Nat \cup {Null}]
  BY DEF Written, WriteTypeOK
<1>2. value' = new /\ queue' = Enqueued(q, new, fired) /\ exists' = exists \cup {t}
      /\ ~Refused(new, fired)
  BY DEF Statement
<1>3. ASSUME NEW e \in fired PROVE e \in Edges /\ e.from \in Cells /\ new[e.from] # Null
  BY <1>2, <1>3, FiredMapping DEF Refused
<1> HIDE DEF new, fired
<1>4. \A e \in fired : new[e.from] \in Nat
  BY <1>1, <1>3 DEF Null
<1>5. ASSUME NEW e \in Edges
      PROVE  (IF e \in fired THEN Append(q[e], new[e.from]) ELSE q[e]) \in Seq(Nat)
  BY <1>4
<1>6. Enqueued(q, new, fired) \in [Edges -> Seq(Nat)]
  BY <1>5 DEF Enqueued
<1> QED BY <1>1, <1>2, <1>6 DEF WriteTypeOK

\* What a client's INSERT or UPDATE writes.
LEMMA ClientStatement ==
  ASSUME WriteTypeOK, NEW t, NEW set, Insert(t, set) \/ Update(t, set)
  PROVE  /\ \E v \in Nat \cup {Null} : Statement(t, set, v, queue)
         /\ t \notin exists => Insert(t, set)
         /\ triggers' = triggers /\ failed' = failed /\ changes' \in 0 .. MaxChanges
         /\ deleted' = deleted /\ older' = older
<1>1. /\ changes + 1 \in Nat
      /\ changes < MaxChanges => changes + 1 \in 0 .. MaxChanges
  BY WriteBackAssumption DEF WriteTypeOK
<1>2. \E v \in {changes + 1, Null} : Statement(t, set, v, queue)
  <2>1. Insert(t, set) => Statement(t, set, changes + 1, queue)
    BY DEF Insert
  <2>2. Update(t, set) => \E v \in {changes + 1, Null} : Statement(t, set, v, queue)
    BY DEF Update
  <2> QED BY <2>1, <2>2
<1>3. /\ t \notin exists => Insert(t, set)
      /\ triggers' = triggers /\ failed' = failed /\ changes < MaxChanges /\ changes' = changes + 1
      /\ deleted' = deleted /\ older' = older
  BY DEF Insert, Update, Change
<1> QED BY <1>1, <1>2, <1>3

\* Clients.
LEMMA ClientKeepsType ==
  ASSUME WriteTypeOK, NEW t \in Tables, NEW set,
         Insert(t, set) \/ Update(t, set) \/ Delete(t)
  PROVE  WriteTypeOK'
<1>1. CASE Insert(t, set) \/ Update(t, set)
  <2>1. PICK v \in Nat \cup {Null} : Statement(t, set, v, queue)
    BY <1>1, ClientStatement
  <2>2. queue \in [Edges -> Seq(Nat)]
    BY DEF WriteTypeOK
  <2>3. /\ value' \in [Cells -> Nat \cup {Null}] /\ queue' \in [Edges -> Seq(Nat)]
        /\ exists' \subseteq Tables
    BY <2>1, <2>2, StatementType
  <2>4. /\ triggers' = triggers /\ failed' = failed /\ changes' \in 0 .. MaxChanges
        /\ deleted' = deleted /\ older' = older
    BY <1>1, ClientStatement
  <2> QED BY <2>3, <2>4 DEF WriteTypeOK
<1>2. CASE Delete(t)
  <2>1. value' \in [Cells -> Nat \cup {Null}] /\ queue' = queue /\ exists' \subseteq Tables
    BY <1>2 DEF Delete, Written, WriteTypeOK
  <2>2. /\ triggers' = triggers /\ failed' = failed /\ changes' \in 0 .. MaxChanges
        /\ deleted' \subseteq Tables /\ older' \subseteq Tables
    BY <1>2, WriteBackAssumption DEF Delete, Change, WriteTypeOK
  <2> QED BY <2>1, <2>2 DEF WriteTypeOK
<1> QED BY <1>1, <1>2

\* The worker.
LEMMA JobKeepsType == ASSUME WriteTypeOK, NEW e \in Edges, WriteBackJob(e) PROVE WriteTypeOK'
<1> DEFINE t    == e.to[1]
           job  == Oldest(queue[e])
           left == [queue EXCEPT ![e] = job.left]
<1>1. queue[e] # <<>> /\ queue[e] \in Seq(Nat)
  BY DEF WriteBackJob, WriteTypeOK
<1>2. job.input \in Nat /\ job.left \in Seq(Nat)
  BY <1>1 DEF Oldest
<1>3. left \in [Edges -> Seq(Nat)]
  BY <1>2 DEF WriteTypeOK
<1>4. t \in Tables
  BY EdgeCells DEF Tables
<1>5. /\ triggers' = triggers /\ changes' = changes /\ deleted' = deleted /\ older' = older
      /\ failed' \in {failed \ {e}, failed \cup {e}}
  BY DEF WriteBackJob
<1>6. \/ queue' = left /\ UNCHANGED <<value, exists>>
      \/ Statement(t, {e.to}, job.input, left)
  BY DEF WriteBackJob
<1> HIDE DEF job, left, t
<1>7. CASE queue' = left /\ UNCHANGED <<value, exists>>
  BY <1>3, <1>5, <1>7 DEF WriteTypeOK
<1>8. CASE Statement(t, {e.to}, job.input, left)
  BY <1>2, <1>3, <1>4, <1>5, <1>8, StatementType DEF WriteTypeOK
<1> QED BY <1>6, <1>7, <1>8

\* Type correctness; no text enqueued is NULL.
THEOREM WriteBackTypes == WriteSpec => []WriteTypeOK
<1>1. WriteInit => WriteTypeOK
  BY WriteBackAssumption DEF WriteInit, WriteTypeOK, Null
<1>2. WriteTypeOK /\ [WriteNext]_writeVars => WriteTypeOK'
  <2> SUFFICES ASSUME WriteTypeOK, [WriteNext]_writeVars PROVE WriteTypeOK'
    OBVIOUS
  <2>1. CASE UNCHANGED writeVars
    BY <2>1 DEF writeVars, WriteTypeOK
  <2> QED BY <2>1, ClientKeepsType, JobKeepsType DEF WriteNext
<1> QED BY <1>1, <1>2, PTL DEF WriteSpec

-----------------------------------------------------------------------------
\* No two mappings of a registry share a target.  Without it two outputs
\* overwrite each other, and neither is fresh.
OneWriter == \A r \in Registries : \A e, f \in Mappings(r) : e.to = f.to => e = f

LEMMA MappingFacts ==
  ASSUME WriteTypeOK, NEW e \in Mappings(triggers)
  PROVE  /\ e \in Edges /\ e.from \in Cells /\ e.to \in Cells
         /\ e.from[1] \in Tables /\ e.to[1] \in Tables
         /\ \E tr \in triggers : e \in tr.jobs /\ e.from \in tr.on
<1>1. PICK tr \in triggers : e \in tr.jobs
  BY DEF Mappings
<1>2. triggers \in Registries
  BY DEF WriteTypeOK
<1> QED BY <1>1, <1>2, MappingOfTrigger DEF Tables

\* A statement has enqueued the text of e.
Enlisted(e) ==
  queue'[e] # <<>> /\ value'[e.from] # Null /\ queue'[e][Len(queue'[e])] = value'[e.from]

\* What a statement does for each mapping: it enqueues the new text of those
\* whose text it may have changed, and leaves the text of the others alone.
LEMMA StatementPerMapping ==
  ASSUME WriteTypeOK, NEW t \in Tables, NEW set \in SUBSET CellsOf(t), NEW v \in Nat \cup {Null},
         NEW q \in [Edges -> Seq(Nat)], Statement(t, set, v, q),
         NEW e \in Mappings(triggers)
  PROVE  /\ value'[e.to] = IF e.to \in set THEN v ELSE value[e.to]
         /\ \/ Enlisted(e)
            \/ /\ queue'[e] = q[e] /\ value'[e.from] = value[e.from]
               /\ e.from[1] # t \/ t \in exists
<1> DEFINE fired == Fired(t, set, t \notin exists)
           new == Written(set, v)
<1>1. /\ e \in Edges /\ e.from \in Cells /\ e.to \in Cells
      /\ \E tr \in triggers : e \in tr.jobs /\ e.from \in tr.on
  BY MappingFacts
<1>2. value' = new /\ queue' = Enqueued(q, new, fired) /\ ~Refused(new, fired)
  BY DEF Statement
<1>3. \A c \in Cells : new[c] = IF c \in set THEN v ELSE value[c]
  BY DEF Written
<1>4. queue'[e] = IF e \in fired THEN Append(q[e], new[e.from]) ELSE q[e]
  BY <1>1, <1>2 DEF Enqueued
<1>5. CASE e \in fired
  <2>1. new[e.from] # Null /\ new[e.from] \in Nat \cup {Null}
    BY <1>1, <1>2, <1>3, <1>5 DEF Refused, WriteTypeOK
  <2>2. q[e] \in Seq(Nat) /\ new[e.from] \in Nat
    BY <1>1, <2>1
  <2> HIDE DEF new, fired
  <2>3. queue'[e] = Append(q[e], new[e.from])
    BY <1>4, <1>5
  <2>4. queue'[e] # <<>> /\ queue'[e][Len(queue'[e])] = new[e.from]
    BY <2>2, <2>3, LastOfAppend, Zenon
  <2>5. value'[e.from] = new[e.from]
    BY <1>2
  <2>6. Enlisted(e)
    BY <2>1, <2>4, <2>5, Zenon DEF Enlisted
  <2> QED BY <1>1, <1>2, <1>3, <2>6
<1>6. CASE e \notin fired
  <2>1. PICK tr \in triggers : e \in tr.jobs /\ e.from \in tr.on
    BY <1>1
  <2>2. ~Fires(tr, t, set, t \notin exists)
    BY <1>6, <2>1 DEF Fired
  <2>3. e.from \notin set
    BY <1>1, <2>1, <2>2 DEF Fires, CellsOf
  <2>4. e.from[1] # t \/ t \in exists
    BY <2>1, <2>2 DEF Fires
  <2> QED BY <1>1, <1>2, <1>3, <1>4, <1>6, <2>3, <2>4
<1> QED BY <1>5, <1>6

\* A statement writes into its own table, and enqueues for registered mappings.
LEMMA StatementFrame ==
  ASSUME WriteTypeOK, FreshInv, NEW t \in Tables, NEW set \in SUBSET CellsOf(t),
         NEW v \in Nat \cup {Null}, NEW q \in [Edges -> Seq(Nat)], Statement(t, set, v, q),
         triggers' = triggers, \A e \in Edges : q[e] # <<>> => e \in Mappings(triggers)
  PROVE  /\ (\A c \in Cells : c[1] \notin exists => value[c] = Null)'
         /\ (\A e \in Edges : queue[e] # <<>> => e \in Mappings(triggers))'
<1>1. /\ value' = Written(set, v) /\ exists' = exists \cup {t}
      /\ queue' = Enqueued(q, Written(set, v), Fired(t, set, t \notin exists))
  BY DEF Statement
<1>2. ASSUME NEW c \in Cells, c[1] \notin exists' PROVE value'[c] = Null
  <2>1. c \notin set /\ c[1] \notin exists
    BY <1>1, <1>2 DEF CellsOf
  <2> QED BY <1>1, <2>1 DEF Written, FreshInv
<1>3. ASSUME NEW e \in Edges, queue'[e] # <<>> PROVE e \in Mappings(triggers)
  <2>1. e \in Fired(t, set, t \notin exists) \/ queue'[e] = q[e]
    BY <1>1 DEF Enqueued
  <2>2. Fired(t, set, t \notin exists) \subseteq Mappings(triggers)
    BY DEF Fired, Mappings
  <2> QED BY <1>3, <2>1, <2>2
<1> QED BY <1>2, <1>3

\* A client's INSERT or UPDATE.
LEMMA ClientStatementKeepsFresh ==
  ASSUME WriteTypeOK, FreshInv, NEW t \in Tables, NEW set \in SUBSET CellsOf(t),
         Insert(t, set) \/ (Update(t, set) /\ set \cap Outputs = {})
  PROVE  FreshInv'
<1>1. PICK v \in Nat \cup {Null} : Statement(t, set, v, queue)
  BY ClientStatement
<1>2. /\ queue \in [Edges -> Seq(Nat)]
      /\ triggers' = triggers /\ failed' = failed /\ deleted' = deleted /\ older' = older
      /\ exists' = exists \cup {t}
      /\ t \in exists => set \cap Outputs = {}
  BY <1>1, ClientStatement DEF Insert, Statement, WriteTypeOK
<1>3. /\ (\A c \in Cells : c[1] \notin exists => value[c] = Null)'
      /\ (\A e \in Edges : queue[e] # <<>> => e \in Mappings(triggers))'
  BY <1>1, <1>2, StatementFrame DEF FreshInv
<1>4. ASSUME NEW e \in Mappings(triggers) PROVE Current(e)'
  <2>1. /\ e \in Edges /\ e.to \in Cells /\ e.to[1] \in Tables
    BY MappingFacts
  <2>2. /\ value'[e.to] = IF e.to \in set THEN v ELSE value[e.to]
        /\ \/ Enlisted(e)
           \/ /\ queue'[e] = queue[e] /\ value'[e.from] = value[e.from]
              /\ e.from[1] # t \/ t \in exists
    BY <1>1, <1>2, StatementPerMapping, Zenon
  <2>3. MayBeStale(e)' <=> MayBeStale(e)
    BY <1>2 DEF MayBeStale, SameTable
  <2>4. Current(e)
    BY DEF FreshInv
  <2>5. CASE Enlisted(e)
    BY <2>5 DEF Current, Enlisted
  <2>6. CASE /\ queue'[e] = queue[e] /\ value'[e.from] = value[e.from]
             /\ e.from[1] # t \/ t \in exists
    <3>1. NewRow(e.from[1])' => NewRow(e.from[1])
      BY <1>2, <2>6 DEF NewRow
    <3>2. CASE e.to \notin set
      BY <2>2, <2>3, <2>4, <2>6, <3>1, <3>2 DEF Current
    <3>3. CASE e.to \in set
      \* Only the insertion of a new row fills in an output of a mapping.
      <4>1. e.to \in Outputs /\ t \notin exists /\ e.to[1] = t
        BY <1>2, <2>1, <3>3 DEF Outputs, CellsOf
      <4>2. value[e.to] = Null /\ ~(Null >= 1)
        BY <2>1, <4>1 DEF FreshInv, Null
      <4> QED BY <2>3, <2>4, <2>6, <3>1, <4>2 DEF Current
    <3> QED BY <3>2, <3>3
  <2> QED BY <2>2, <2>5, <2>6
<1> QED BY <1>2, <1>3, <1>4 DEF FreshInv

\* A client's DELETE.
LEMMA DeleteKeepsFresh ==
  ASSUME WriteTypeOK, FreshInv, NEW t \in Tables, Delete(t) PROVE FreshInv'
<1>1. /\ triggers' = triggers /\ failed' = failed /\ deleted' = deleted \cup {t}
      /\ queue' = queue /\ exists' = exists \ {t} /\ older' = older \ {t}
      /\ \A c \in Cells : value'[c] = IF c[1] = t THEN Null ELSE value[c]
  BY DEF Delete, Change, Written, CellsOf
<1>2. ASSUME NEW e \in Mappings(triggers) PROVE Current(e)'
  <2>1. e.from \in Cells /\ e.to \in Cells /\ e \in Edges
    BY MappingFacts
  <2>2. Current(e) /\ ~(Null >= 1)
    BY DEF FreshInv, Null
  <2>3. CASE e.from[1] = t
    BY <1>1, <2>1, <2>2, <2>3 DEF Current, NewRow
  <2>4. CASE e.from[1] # t /\ e.to[1] = t
    BY <1>1, <2>1, <2>2, <2>4 DEF Current, NewRow, MayBeStale, SameTable
  <2>5. CASE e.from[1] # t /\ e.to[1] # t
    BY <1>1, <2>1, <2>2, <2>5 DEF Current, NewRow, MayBeStale, SameTable
  <2> QED BY <2>3, <2>4, <2>5
<1> QED BY <1>1, <1>2 DEF FreshInv

\* The queue of a mapping after its oldest job is taken.
LEMMA OldestFacts ==
  ASSUME NEW q \in Seq(Nat), q # <<>>
  PROVE  /\ Oldest(q).input \in Nat /\ Oldest(q).left \in Seq(Nat)
         /\ Len(Oldest(q).left) = Len(q) - 1 /\ Len(q) \in Nat \ {0}
         /\ Oldest(q).left # <<>> => Oldest(q).left[Len(Oldest(q).left)] = q[Len(q)]
         /\ Oldest(q).left = <<>> => Oldest(q).input = q[Len(q)]
<1>1. /\ Head(q) \in Nat /\ Tail(q) \in Seq(Nat) /\ Len(Tail(q)) = Len(q) - 1
      /\ Len(q) \in Nat \ {0} /\ Head(q) = q[1]
      /\ \A i \in 1 .. Len(q) - 1 : Tail(q)[i] = q[i + 1]
  OBVIOUS
<1>2. Tail(q) # <<>> => Len(q) - 1 \in 1 .. Len(q) - 1
  BY <1>1, EmptySeq
<1>3. Tail(q) = <<>> => Len(q) = 1
  <2> SUFFICES ASSUME Tail(q) = <<>> PROVE Len(q) = 1
    OBVIOUS
  <2>1. Len(<<>>) = 0
    BY EmptySeq
  <2>2. Len(Tail(q)) = Len(<<>>)
    BY Zenon
  <2>3. Len(q) \in Nat /\ Len(q) - 1 = 0
    BY <1>1, <2>1, <2>2
  <2> QED BY <2>3
<1> QED BY <1>1, <1>2, <1>3 DEF Oldest

\* The worker.
LEMMA JobKeepsFresh ==
  ASSUME OneWriter, WriteTypeOK, FreshInv, NEW d \in Edges, WriteBackJob(d)
  PROVE  FreshInv'
<1> DEFINE t    == d.to[1]
           set  == {d.to}
           job  == Oldest(queue[d])
           left == [queue EXCEPT ![d] = job.left]
           fired == Fired(t, set, t \notin exists)
<1>1. queue[d] # <<>> /\ queue[d] \in Seq(Nat) /\ queue \in [Edges -> Seq(Nat)]
  BY DEF WriteBackJob, WriteTypeOK
<1>2. /\ job.input \in Nat /\ job.left \in Seq(Nat)
      /\ job.left # <<>> => job.left[Len(job.left)] = queue[d][Len(queue[d])]
      /\ job.left = <<>> => job.input = queue[d][Len(queue[d])]
  BY <1>1, OldestFacts
<1>3. /\ left \in [Edges -> Seq(Nat)] /\ left[d] = job.left
      /\ \A e \in Edges \ {d} : left[e] = queue[e]
  BY <1>1, <1>2
<1>4. d \in Mappings(triggers) /\ t \in Tables /\ set \in SUBSET CellsOf(t)
  BY <1>1, EdgeCells DEF FreshInv, Tables, CellsOf
<1>5. triggers' = triggers /\ deleted' = deleted /\ older' = older
  BY DEF WriteBackJob
<1>6. \/ /\ SameTable(d) /\ t \notin exists
         /\ failed' = failed \ {d} /\ queue' = left /\ UNCHANGED <<value, exists>>
      \/ /\ ~SameTable(d) \/ t \in exists
         /\ Statement(t, set, job.input, left) /\ failed' = failed \ {d}
      \/ failed' = failed \cup {d} /\ queue' = left /\ UNCHANGED <<value, exists>>
  BY DEF WriteBackJob
<1>7. \A e \in Edges : left[e] # <<>> => e \in Mappings(triggers)
  BY <1>3, <1>4 DEF FreshInv
<1>8. \A e \in Mappings(triggers) : Current(e) /\ e \in Edges
  BY MappingFacts DEF FreshInv
<1> HIDE DEF job, left
<1>9. CASE queue' = left /\ UNCHANGED <<value, exists>>
           /\ (failed' = failed \cup {d} \/ (failed' = failed \ {d} /\ SameTable(d) /\ t \notin exists))
  <2>1. Current(d)'
    <3>1. CASE failed' = failed \cup {d}
      BY <1>1, <1>2, <1>3, <1>4, <1>5, <1>8, <1>9, <3>1 DEF Current, NewRow, MayBeStale
    <3>2. CASE SameTable(d) /\ t \notin exists
      <4>1. value'[d.from] = Null /\ ~(Null >= 1)
        BY <1>9, <3>2, EdgeCells DEF FreshInv, SameTable, Null
      <4>2. ~NewRow(d.from[1])'
        BY <1>9, <3>2 DEF NewRow, SameTable
      <4> QED BY <4>1, <4>2 DEF Current
    <3> QED BY <1>9, <3>1, <3>2
  <2>2. ASSUME NEW e \in Mappings(triggers), e # d PROVE Current(e)'
    <3>1. queue'[e] = queue[e] /\ (e \in failed' <=> e \in failed)
      BY <1>3, <1>8, <1>9, <2>2
    <3> QED BY <1>5, <1>8, <1>9, <3>1 DEF Current, NewRow, MayBeStale, SameTable
  <2> QED BY <1>5, <1>7, <1>9, <2>1, <2>2 DEF FreshInv
<1>10. CASE /\ ~SameTable(d) \/ t \in exists
            /\ Statement(t, set, job.input, left) /\ failed' = failed \ {d}
  <2> HIDE DEF t, set
  <2>1. /\ (\A c \in Cells : c[1] \notin exists => value[c] = Null)'
        /\ (\A e \in Edges : queue[e] # <<>> => e \in Mappings(triggers))'
    BY <1>2, <1>3, <1>4, <1>5, <1>7, <1>10, StatementFrame
  <2>2. ASSUME NEW e \in Mappings(triggers)
        PROVE  /\ value'[e.to] = IF e.to \in set THEN job.input ELSE value[e.to]
               /\ \/ Enlisted(e)
                  \/ /\ queue'[e] = left[e] /\ value'[e.from] = value[e.from]
                     /\ e.from[1] # t \/ t \in exists
    <3> DEFINE v == job.input
    <3>1. v \in Nat \cup {Null} /\ left \in [Edges -> Seq(Nat)] /\ Statement(t, set, v, left)
          /\ t \in Tables /\ set \in SUBSET CellsOf(t)
      BY <1>2, <1>3, <1>4, <1>10
    <3> HIDE DEF v
    <3>2. /\ value'[e.to] = IF e.to \in set THEN v ELSE value[e.to]
          /\ \/ Enlisted(e)
             \/ /\ queue'[e] = left[e] /\ value'[e.from] = value[e.from]
                /\ e.from[1] # t \/ t \in exists
      BY <3>1, StatementPerMapping, Zenon
    <3> QED BY <3>2 DEF v
  <2>3. ASSUME NEW e \in Mappings(triggers), e.from[1] # t \/ t \in exists, NewRow(e.from[1])'
        PROVE  NewRow(e.from[1])
    <3>1. exists' = exists \cup {t}
      BY <1>10 DEF Statement
    <3> QED BY <1>5, <2>3, <3>1 DEF NewRow
  <2>4. Current(d)'
    <3>1. CASE Enlisted(d)
      BY <3>1 DEF Current, Enlisted
    <3>2. CASE /\ queue'[d] = left[d] /\ value'[d.from] = value[d.from]
               /\ d.from[1] # t \/ t \in exists
      <4>1. value'[d.to] = job.input
        BY <1>4, <2>2 DEF set
      <4>2. value[d.from] >= 1 \/ NewRow(d.from[1]) =>
              value[d.from] # Null /\ queue[d][Len(queue[d])] = value[d.from]
        BY <1>1, <1>4, <1>8 DEF Current
      <4>3. NewRow(d.from[1])' => NewRow(d.from[1])
        BY <1>4, <2>3, <3>2
      <4> QED BY <1>2, <1>3, <3>2, <4>1, <4>2, <4>3 DEF Current
    <3> QED BY <1>4, <2>2, <3>1, <3>2
  <2>5. ASSUME NEW e \in Mappings(triggers), e # d PROVE Current(e)'
    <3>1. e.to # d.to
      BY <1>4, <2>5 DEF OneWriter, WriteTypeOK
    <3>2. value'[e.to] = value[e.to] /\ (e \in failed' <=> e \in failed) /\ left[e] = queue[e]
      BY <1>3, <1>8, <1>10, <2>2, <2>5, <3>1 DEF set
    <3>3. CASE Enlisted(e)
      BY <3>3 DEF Current, Enlisted
    <3>4. CASE /\ queue'[e] = left[e] /\ value'[e.from] = value[e.from]
               /\ e.from[1] # t \/ t \in exists
      <4>1. NewRow(e.from[1])' => NewRow(e.from[1])
        BY <2>3, <3>4
      <4> QED BY <1>5, <1>8, <3>2, <3>4, <4>1 DEF Current, MayBeStale, SameTable
    <3> QED BY <2>2, <3>3, <3>4
  <2> QED BY <1>5, <2>1, <2>4, <2>5 DEF FreshInv
<1> QED BY <1>6, <1>9, <1>10

LEMMA FreshAlways == ASSUME OneWriter PROVE WriteSpec => []FreshInv
<1>1. WriteInit => FreshInv
  <2> SUFFICES ASSUME WriteInit PROVE FreshInv
    OBVIOUS
  <2>1. WriteTypeOK
    BY WriteBackAssumption DEF WriteInit, WriteTypeOK, Null
  <2>2. \A e \in Mappings(triggers) : ~(value[e.from] >= 1) /\ ~NewRow(e.from[1])
    BY <2>1, MappingFacts DEF WriteInit, NewRow, Null
  <2> QED BY <2>2 DEF WriteInit, FreshInv, Current
<1>2. WriteTypeOK /\ FreshInv /\ [WriteNext]_writeVars => FreshInv'
  <2> SUFFICES ASSUME WriteTypeOK, FreshInv, [WriteNext]_writeVars PROVE FreshInv'
    OBVIOUS
  <2>1. CASE UNCHANGED writeVars
    BY <2>1 DEF writeVars, FreshInv, Current, NewRow, MayBeStale
  <2>2. ASSUME NEW t \in Tables, NEW set \in SUBSET (Inputs \cap CellsOf(t)), Insert(t, set)
        PROVE  FreshInv'
    BY <2>2, ClientStatementKeepsFresh
  <2>3. ASSUME NEW t \in Tables, NEW set \in SUBSET ((Inputs \ Outputs) \cap CellsOf(t)),
               Update(t, set)
        PROVE  FreshInv'
    <3>1. set \in SUBSET CellsOf(t) /\ set \cap Outputs = {}
      OBVIOUS
    <3> QED BY <2>3, <3>1, ClientStatementKeepsFresh
  <2> QED BY <2>1, <2>2, <2>3, DeleteKeepsFresh, JobKeepsFresh DEF WriteNext
<1> QED BY <1>1, <1>2, WriteBackTypes, PTL DEF WriteSpec

\* With one writer per target, every output derives from the newest text when
\* the queues are empty, whatever failed, was deleted or was inserted before.
THEOREM FreshAtRest ==
  ASSUME OneWriter PROVE WriteSpec => []RestIsFresh
<1>1. WriteTypeOK /\ FreshInv => RestIsFresh
  BY MappingFacts DEF RestIsFresh, AtRest, FreshInv, Current
<1> QED BY <1>1, FreshAlways, WriteBackTypes, PTL

\* A row that appears under its watches has a text in every watched column,
\* whichever client or worker created it, and its outputs derive from them.
THEOREM FilledWhenNew ==
  ASSUME OneWriter PROVE WriteSpec => []NewRowsAreFilled
<1>1. WriteTypeOK /\ FreshInv => NewRowsAreFilled
  BY MappingFacts DEF NewRowsAreFilled, AtRest, FreshInv, Current
<1> QED BY <1>1, FreshAlways, WriteBackTypes, PTL

-----------------------------------------------------------------------------
LEMMA NotItself ==
  ASSUME NEW r \in Registries, NEW e \in Mappings(r) PROVE e \in Edges /\ ~FedBy(e, e, r)
<1>1. e \in Edges
  BY DEF Mappings, Edges
<1>2. Cardinality(Edges) \in Nat
  BY WriteBackAssumption, FS_CardinalityType
<1>3. PICK order \in [1 .. Cardinality(Edges) -> Edges] :
        /\ \A f \in Edges : \E i \in DOMAIN order : order[i] = f
        /\ \A i, j \in DOMAIN order :
             order[i] \in Mappings(r) /\ FedBy(order[i], order[j], r) => i < j
  BY Acyclic
<1>4. PICK i \in DOMAIN order : order[i] = e
  BY <1>1, <1>3
<1>5. i \in Int
  BY <1>2, <1>3, <1>4
<1> QED BY <1>1, <1>3, <1>4, <1>5

\* Only registered mappings have jobs: the registry does not change here.
OnlyRegistered == \A e \in Edges : queue[e] # <<>> => e \in Mappings(triggers)

LEMMA RegisteredOnly == WriteSpec => []OnlyRegistered
<1>1. ASSUME WriteTypeOK, NEW t, NEW set PROVE Fired(t, set, t \notin exists) \subseteq Mappings(triggers)
  BY DEF Fired, Mappings
<1>2. ASSUME WriteTypeOK, OnlyRegistered, NEW t, NEW set, Insert(t, set) \/ Update(t, set) \/ Delete(t)
      PROVE  OnlyRegistered'
  <2>1. triggers' = triggers
    BY <1>2 DEF Insert, Update, Delete, Change
  <2>2. CASE Delete(t)
    BY <1>2, <2>1, <2>2 DEF Delete, OnlyRegistered
  <2>3. CASE Insert(t, set) \/ Update(t, set)
    <3>1. \A e \in Edges : e \in Fired(t, set, t \notin exists) \/ queue'[e] = queue[e]
      BY <2>3 DEF Insert, Update, Statement, Enqueued
    <3> QED BY <1>1, <1>2, <2>1, <3>1 DEF OnlyRegistered
  <2> QED BY <1>2, <2>2, <2>3
<1>3. ASSUME WriteTypeOK, OnlyRegistered, NEW d \in Edges, WriteBackJob(d) PROVE OnlyRegistered'
  <2> DEFINE left == [queue EXCEPT ![d] = Oldest(queue[d]).left]
             fired == Fired(d.to[1], {d.to}, d.to[1] \notin exists)
  <2>1. triggers' = triggers /\ d \in Mappings(triggers)
    BY <1>3 DEF WriteBackJob, OnlyRegistered
  <2>2. \A e \in Edges : e \in fired \/ queue'[e] = left[e]
    BY <1>3 DEF WriteBackJob, Statement, Enqueued
  <2>3. \A e \in Edges \ {d} : left[e] = queue[e]
    BY <1>3 DEF WriteTypeOK
  <2>4. fired \subseteq Mappings(triggers)
    BY <1>1, <1>3
  <2> HIDE DEF left, fired
  <2> QED BY <1>3, <2>1, <2>2, <2>3, <2>4 DEF OnlyRegistered
<1>4. WriteInit => OnlyRegistered
  BY DEF WriteInit, OnlyRegistered
<1>5. WriteTypeOK /\ OnlyRegistered /\ [WriteNext]_writeVars => OnlyRegistered'
  <2> SUFFICES ASSUME WriteTypeOK, OnlyRegistered, [WriteNext]_writeVars PROVE OnlyRegistered'
    OBVIOUS
  <2>1. CASE UNCHANGED writeVars
    BY <2>1 DEF writeVars, OnlyRegistered
  <2> QED BY <2>1, <1>2, <1>3 DEF WriteNext
<1> QED BY <1>4, <1>5, WriteBackTypes, PTL DEF WriteSpec

\* A write-back shortens the queue of its mapping by a job, and lengthens only
\* those of the mappings it feeds.
LEMMA JobDrains ==
  ASSUME WriteTypeOK, OnlyRegistered, NEW d \in Edges, WriteBackJob(d)
  PROVE  <<queue', queue>> \in Drains(triggers)
<1> DEFINE t    == d.to[1]
           set  == {d.to}
           left == [queue EXCEPT ![d] = Oldest(queue[d]).left]
           fired == Fired(t, set, t \notin exists)
<1>1. /\ queue[d] # <<>> /\ queue[d] \in Seq(Nat) /\ queue \in [Edges -> Seq(Nat)]
      /\ d \in Mappings(triggers) /\ triggers \in Registries /\ triggers' = triggers
  BY DEF WriteBackJob, WriteTypeOK, OnlyRegistered
<1>2. /\ Len(left[d]) = Len(queue[d]) - 1 /\ Len(queue[d]) \in Nat
      /\ \A f \in Edges \ {d} : left[f] = queue[f]
  BY <1>1, OldestFacts
<1>3. \/ queue' = left
      \/ /\ ~SameTable(d) \/ t \in exists
         /\ \E new : queue' = Enqueued(left, new, fired)
  BY DEF WriteBackJob, Statement
<1>4. queue' \in Queues
  <2>1. left \in [Edges -> Seq(Nat)] /\ Oldest(queue[d]).input \in Nat /\ t \in Tables
    BY <1>1, OldestFacts, EdgeCells DEF Tables
  <2>2. queue' = left \/ Statement(t, {d.to}, Oldest(queue[d]).input, left)
    BY DEF WriteBackJob
  <2> HIDE DEF left, t
  <2> QED BY <2>1, <2>2, StatementType DEF Queues
<1>5. ASSUME ~SameTable(d) \/ t \in exists, NEW f \in fired PROVE f \in Edges /\ FedBy(d, f, triggers)
  <2>1. PICK tr \in triggers : f \in tr.jobs /\ f.from[1] = t /\ (t \notin exists \/ set \cap tr.on # {})
    <3>1. f \in Fired(t, set, t \notin exists)
      BY <1>5
    <3> HIDE DEF t, set, fired
    <3> QED BY <3>1, FiredMapping
  <2>2. f \in Edges
    BY <1>1, <2>1, MappingOfTrigger
  <2> QED BY <1>5, <2>1, <2>2 DEF FedBy, Feeds, SameTable
<1>6. \A f \in Edges : queue'[f] = left[f] \/ FedBy(d, f, triggers)
  <2> HIDE DEF left, fired, t
  <2> QED BY <1>3, <1>5 DEF Enqueued
<1>7. queue'[d] = left[d]
  BY <1>1, <1>6, NotItself
<1> HIDE DEF left, fired, t, set
<1> QED
  <2>1. <<queue', queue>> \in Queues \X Queues
    BY <1>1, <1>4 DEF Queues
  <2>2. Len(queue'[d]) < Len(queue[d])
    BY <1>2, <1>7
  <2>3. \A f \in Edges \ {d} : queue'[f] # queue[f] => FedBy(d, f, triggers)
    BY <1>2, <1>6
  <2> QED BY <1>1, <2>1, <2>2, <2>3 DEF Drains

\* Each write-back makes the queues smaller in the sense of Drains.
THEOREM JobsDrain == WriteSpec => WriteBacksDrain
<1>1. WriteTypeOK /\ OnlyRegistered /\ [WriteNext]_writeVars =>
        [(\E e \in Edges : WriteBackJob(e)) => <<queue', queue>> \in Drains(triggers)]_writeVars
  BY JobDrains
<1> QED BY <1>1, WriteBackTypes, RegisteredOnly, PTL DEF WriteSpec, WriteBacksDrain

-----------------------------------------------------------------------------
\* An order in which each mapping of r feeds later ones only, without repetition.
LEMMA FeedingOrder ==
  ASSUME NEW r \in Registries
  PROVE  \E order \in [1 .. Cardinality(Edges) -> Edges] :
           /\ \A e \in Edges : \E i \in 1 .. Cardinality(Edges) : order[i] = e
           /\ \A i, j \in 1 .. Cardinality(Edges) :
                /\ order[i] = order[j] => i = j
                /\ order[i] \in Mappings(r) /\ FedBy(order[i], order[j], r) => i < j
<1> DEFINE n == Cardinality(Edges)
<1>1. IsFiniteSet(Edges) /\ n \in Nat
  BY WriteBackAssumption, FS_CardinalityType
<1>2. PICK order \in [1 .. n -> Edges] :
        /\ \A e \in Edges : \E i \in DOMAIN order : order[i] = e
        /\ \A i, j \in DOMAIN order :
             order[i] \in Mappings(r) /\ FedBy(order[i], order[j], r) => i < j
  BY Acyclic
<1>3. order \in Surjection(1 .. n, Edges)
  BY <1>2 DEF Surjection
<1>4. IsFiniteSet(1 .. n) /\ Cardinality(1 .. n) = n
  BY <1>1, FS_Interval
<1>5. order \in Injection(1 .. n, Edges)
  BY <1>3, <1>4, FS_SurjSameCardinalityImpliesInj
<1>6. \A i, j \in 1 .. n : order[i] = order[j] => i = j
  BY <1>5 DEF Injection, IsInjective
<1> QED BY <1>2, <1>6

\* No chain of write-backs is endless: listed in feeding order, the lengths of
\* the queues decrease lexicographically.
THEOREM DrainsIsWellFounded ==
  \A r \in Registries : IsWellFoundedOn(Drains(r), Queues)
<1> SUFFICES ASSUME NEW r \in Registries,
                    NEW q \in [Nat -> Queues], \A k \in Nat : <<q[k + 1], q[k]>> \in Drains(r)
             PROVE  FALSE
  BY DEF IsWellFoundedOn
<1> DEFINE n == Cardinality(Edges)
           less == OpToRel(<, Nat)
<1> HIDE DEF less
<1>1. n \in Nat
  BY WriteBackAssumption, FS_CardinalityType
<1>2. PICK order \in [1 .. n -> Edges] :
        /\ \A e \in Edges : \E i \in 1 .. n : order[i] = e
        /\ \A i, j \in 1 .. n :
             /\ order[i] = order[j] => i = j
             /\ order[i] \in Mappings(r) /\ FedBy(order[i], order[j], r) => i < j
  BY FeedingOrder
<1> HIDE DEF n
<1> DEFINE lengths == [k \in Nat |-> [i \in 1 .. n |-> Len(q[k][order[i]])]]
<1>3. lengths \in [Nat -> [1 .. n -> Nat]]
  <2>1. ASSUME NEW k \in Nat, NEW i \in 1 .. n PROVE Len(q[k][order[i]]) \in Nat
    <3>1. q[k] \in Queues /\ order[i] \in Edges
      OBVIOUS
    <3>2. q[k][order[i]] \in Seq(Nat)
      BY <3>1 DEF Queues
    <3> QED BY <3>2, LenProperties
  <2> QED BY <2>1
<1>4. ASSUME NEW k \in Nat
      PROVE  <<lengths[k + 1], lengths[k]>> \in LexProductOrdering(less, Nat, n)
  <2>1. k + 1 \in Nat
    OBVIOUS
  <2>2. PICK e \in Mappings(r) :
          /\ Len(q[k + 1][e]) < Len(q[k][e])
          /\ \A f \in Edges \ {e} : q[k + 1][f] # q[k][f] => FedBy(e, f, r)
    <3>1. <<q[k + 1], q[k]>> \in Drains(r)
      BY <2>1
    <3> QED BY <3>1 DEF Drains
  <2>3. e \in Edges
    BY DEF Mappings, Edges
  <2>4. PICK j \in 1 .. n : order[j] = e
    BY <1>2, <2>3
  <2>5. ASSUME NEW i \in 1 .. (j - 1) PROVE lengths[k + 1][i] = lengths[k][i]
    <3>1. i \in 1 .. n /\ i # j /\ ~(j < i)
      BY <1>1, <2>4
    <3>2. order[i] \in Edges \ {e}
      BY <1>2, <2>4, <3>1
    <3>3. ~FedBy(e, order[i], r)
      BY <1>2, <2>4, <3>1
    <3>4. q[k + 1][order[i]] = q[k][order[i]]
      BY <2>2, <3>2, <3>3
    <3> QED BY <2>1, <3>1, <3>4
  <2>6. <<lengths[k + 1][j], lengths[k][j]>> \in less
    <3>1. lengths[k + 1][j] < lengths[k][j]
      BY <2>1, <2>2, <2>4
    <3>2. lengths[k + 1][j] \in Nat /\ lengths[k][j] \in Nat
      BY <1>3, <2>1
    <3> HIDE DEF lengths
    <3> QED BY <3>1, <3>2, Zenon DEF less, OpToRel
  <2>7. lengths[k + 1] \in [1 .. n -> Nat] /\ lengths[k] \in [1 .. n -> Nat]
    BY <1>3, <2>1
  <2> HIDE DEF lengths
  <2> QED BY <2>4, <2>5, <2>6, <2>7 DEF LexProductOrdering
<1>5. IsWellFoundedOn(LexProductOrdering(less, Nat, n), [1 .. n -> Nat])
  <2>1. IsWellFoundedOn(less, Nat)
    BY NatLessThanWellFounded DEF less
  <2> QED BY <1>1, <2>1, WFLexProductOrdering
<1> HIDE DEF lengths
<1> QED BY <1>3, <1>4, <1>5 DEF IsWellFoundedOn
===============================================================================
