------------------------ MODULE ArtifactStoreProofs ------------------------
(***************************************************************************)
(* Proofs about the artifact directory of a source with a single writer,   *)
(* for any number of readers, names and changes: what the history names is *)
(* whole, can be replayed, is never touched again, and is what the readers *)
(* load next to a call that is writing or has broken off anywhere.         *)
(***************************************************************************)
EXTENDS ArtifactStore, SequenceTheorems, FiniteSetTheorems, TLAPS

\* generate and baseline of one source do not run next to each other: nothing in
\* the code excludes it, and two of them may take the same id.
SingleWriter == \A t, u \in Writers : t = u

-----------------------------------------------------------------------------
(* Sequences of entries *)

LEMMA KindsAre ==
  /\ Range(Kinds) = {"migrations", "rollbacks", "snapshots"}
  /\ \A i \in 1..3 : Kinds[i] \in Range(Kinds)
  /\ \A k \in Range(Kinds) : \E i \in 1..3 : k = Kinds[i]
  /\ \A i, j \in 1..3 : Kinds[i] = Kinds[j] => i = j
  <1>1. DOMAIN Kinds = 1..3
    BY DEF Kinds
  <1>2. Kinds[1] = "migrations" /\ Kinds[2] = "rollbacks" /\ Kinds[3] = "snapshots"
    BY DEF Kinds
  <1>3. \A i \in 1..3 : i = 1 \/ i = 2 \/ i = 3
    OBVIOUS
  <1> QED BY <1>1, <1>2, <1>3 DEF Range

LEMMA HistoriesAre ==
  Histories = {h \in Seq(Entries) : Len(h) <= MaxChanges}
  <1>1. ASSUME NEW h \in Seq(Entries), Len(h) <= MaxChanges PROVE h \in Histories
    <2>1. Len(h) \in 0..MaxChanges /\ h \in [1..Len(h) -> Entries]
      BY <1>1, MaxChangesAssumption
    <2> QED BY <2>1 DEF Histories, BoundedSeq, SeqOf
  <1>2. ASSUME NEW h \in Histories PROVE h \in Seq(Entries) /\ Len(h) <= MaxChanges
    <2>1. PICK m \in 0..MaxChanges : h \in [1..m -> Entries]
      BY DEF Histories, BoundedSeq, SeqOf
    <2> QED BY <2>1, MaxChangesAssumption
  <1> QED BY <1>1, <1>2

LEMMA EntryAppended ==
  ASSUME NEW h \in Seq(Entries), NEW e \in Entries
  PROVE  /\ Append(h, e) \in Seq(Entries) /\ Append(h, e) # <<>>
         /\ Len(Append(h, e)) = Len(h) + 1 /\ Last(Append(h, e)) = e
         /\ \A i \in 1..Len(h) : Append(h, e)[i] = h[i]
         /\ Append(h, e)[Len(h) + 1] = e
         /\ Range(Append(h, e)) = Range(h) \cup {e}
  <1>1. /\ Append(h, e) \in Seq(Entries) /\ Len(Append(h, e)) = Len(h) + 1 /\ Len(h) \in Nat
        /\ \A i \in 1..Len(h) : Append(h, e)[i] = h[i]
        /\ Append(h, e)[Len(h) + 1] = e
    OBVIOUS
  <1>2. DOMAIN Append(h, e) = 1..(Len(h) + 1) /\ DOMAIN h = 1..Len(h)
    BY <1>1
  <1>3. 1..(Len(h) + 1) = 1..Len(h) \cup {Len(h) + 1}
    BY <1>1
  <1>4. Range(Append(h, e)) = Range(h) \cup {e}
    BY <1>1, <1>2, <1>3 DEF Range
  <1>5. Append(h, e) # <<>>
    BY <1>1
  <1> QED BY <1>1, <1>4, <1>5 DEF Last

LEMMA SequenceRange ==
  ASSUME NEW S, NEW h \in Seq(S)
  PROVE  /\ Range(h) = {h[i] : i \in 1..Len(h)}
         /\ h # <<>> => Len(h) >= 1 /\ Last(h) = h[Len(h)] /\ Last(h) \in Range(h) /\ Last(h) \in S
         /\ h = <<>> => Len(h) = 0
  <1>1. DOMAIN h = 1..Len(h) /\ Len(h) \in Nat /\ (h = <<>> <=> Len(h) = 0)
    OBVIOUS
  <1>2. Range(h) = {h[i] : i \in 1..Len(h)}
    BY <1>1 DEF Range
  <1> QED BY <1>1, <1>2 DEF Last

-----------------------------------------------------------------------------
(* The inductive invariant *)

Contents0 == 0..MaxChanges \cup {Torn}
Reads == [sql : Contents0, rollback : Contents0]
Jobs == [op : Origins \cup {"baseline", "load", "none"}, ready : BOOLEAN, history : Histories, at : Nat,
         from : 0..MaxChanges, change : Contents0, again : BOOLEAN, loaded : Seq(Reads)]

\* Ids count a history from 1.
Numbered(h) == \A i \in 1..Len(h) : h[i].id = i

\* Where a call is in the lists it goes through.
Placed(at, j) ==
    /\ Numbered(j.history)
    /\ at = "list" => j.history # <<>>
    /\ at \in {"list", "write", "rename"} => j.at \in 1..3
    /\ at \in {"snapshots", "read_sql", "read_rollback"} => j.at \in 1..Len(j.history)
    /\ at = "loaded" => j.at = Len(j.history) + 1
    /\ at \notin {"list", "write", "rename", "snapshots", "read_sql", "read_rollback", "loaded"} => j.at = 1

DiskTypes ==
    /\ DOMAIN files \subseteq Paths
    /\ \A f \in DOMAIN files : files[f] \in Changes \cup {Torn}
    /\ history \in Histories \cup {NoHistory}
    /\ temp \in Histories \cup {NoHistory, Torn}
    /\ base \in Seq(0..MaxChanges) /\ Len(base) <= MaxChanges
CallTypes ==
    /\ pc \in [Tasks -> PCs] /\ job \in [Tasks -> Jobs]
    /\ \A t \in Tasks : Placed(pc[t], job[t])
Types == DiskTypes /\ CallTypes

\* The three files of an entry are there, from one change.
Whole(e) ==
    /\ \A k \in Range(Kinds) : Exists(Path(k, e, FALSE)) /\ files[Path(k, e, FALSE)] = SqlOf(e)
    /\ SqlOf(e) \in 1..Len(base)
Ordered(h) == \A i \in 1..Len(h) : base[SqlOf(h[i])] = IF i = 1 THEN 0 ELSE SqlOf(h[i - 1])

DiskInv ==
    /\ Numbered(Recorded) /\ Len(Recorded) <= Len(base)
    /\ \A e \in Range(Recorded) : Whole(e)
    /\ Ordered(Recorded)

Inspecting == {"has_files", "history", "list", "snapshots", "read"}
Loading == {"read_sql", "read_rollback", "loaded"}
Writing == {"write", "write_history", "rename", "publish"}
New(j) == Last(j.history)
\* The change a new one starts from.
LastSql == IF Recorded = <<>> THEN 0 ELSE SqlOf(Last(Recorded))

\* The new files of the kinds from .. to are there, under temporary or final names.
HasFile(j, temporary, i) ==
    Exists(Path(Kinds[i], New(j), temporary)) /\ files[Path(Kinds[i], New(j), temporary)] = j.change
Has(j, temporary, from, to) == \A i \in from..to : HasFile(j, temporary, i)

\* What the writer holds: it works on the history that is there, and publishes what
\* it has written in full.
WriterHolds(at, j) ==
    /\ at \notin Loading /\ (at # "idle" => j.op \in Origins \cup {"baseline"})
    /\ at \in Inspecting => j.from = 0
    /\ at \in {"list", "snapshots"} => Recorded # <<>>
    /\ at = "read" => (j.ready <=> Recorded # <<>>) /\ (j.op = "baseline" => ~j.ready)
    /\ at \in {"diff", "check"} => j.history = Recorded
    /\ at = "diff" => IF j.ready THEN Recorded # <<>> ELSE j.from = LastSql
    /\ at \in {"check"} \cup Writing =>
          j.change \in 1..Len(base) /\ base[j.change] = LastSql /\ Len(Recorded) < Len(base)
    /\ at \in Writing =>
          New(j) \in Entries /\ New(j).id = Len(Recorded) + 1 /\ j.history = Append(Recorded, New(j))
    /\ at = "write" => Has(j, TRUE, 1, j.at - 1)
    /\ at = "write_history" => Has(j, TRUE, 1, 3)
    /\ at = "rename" => Has(j, FALSE, 1, j.at - 1) /\ Has(j, TRUE, j.at, 3)
    /\ at = "publish" => Has(j, FALSE, 1, 3)
    /\ at \in {"rename", "publish"} => temp = j.history

\* What a reader holds of its history has been published and stays so.
ReaderHolds(at, j) ==
    /\ at \in {"idle"} \cup Inspecting \cup Loading
    /\ at # "idle" => j.op = "load"
    /\ at \in Inspecting => j.loaded = <<>>
    /\ at \in {"list", "snapshots", "read"} => Recorded # <<>>
    /\ at \in Loading =>
          /\ j.history # <<>> /\ Len(j.history) <= Len(Recorded)
          /\ \A i \in 1..Len(j.history) : j.history[i] = Recorded[i]
          /\ j.at = Len(j.loaded) + 1
          /\ \A i \in 1..Len(j.loaded) :
                j.loaded[i].sql = SqlOf(j.history[i]) /\ j.loaded[i].rollback = SqlOf(j.history[i])
    /\ at = "read_rollback" => j.change = SqlOf(j.history[j.at])

CallInv(t) ==
    /\ t \in Writers => WriterHolds(pc[t], job[t])
    /\ t \in Readers => ReaderHolds(pc[t], job[t])
IInv == Types /\ DiskInv /\ \A t \in Tasks : CallInv(t)

LEMMA RecordedIs ==
  ASSUME Types
  PROVE  /\ Recorded \in Histories /\ Recorded \in Seq(Entries) /\ Len(Recorded) \in Nat
         /\ \A i \in 1..Len(Recorded) : Recorded[i] \in Range(Recorded) /\ Recorded[i] \in Entries
         /\ \A e \in Range(Recorded) : e \in Entries /\ \E i \in 1..Len(Recorded) : e = Recorded[i]
         /\ Recorded # <<>> => Last(Recorded) \in Range(Recorded) /\ Len(Recorded) >= 1
                               /\ Last(Recorded) = Recorded[Len(Recorded)]
  <1>1. <<>> \in Histories
    BY HistoriesAre, MaxChangesAssumption
  <1>2. Recorded \in Histories
    BY <1>1 DEF Types, DiskTypes, Recorded
  <1>3. Recorded \in Seq(Entries)
    BY <1>2, HistoriesAre
  <1> QED BY <1>2, <1>3, SequenceRange

LEMMA NoJobIsJob == NoJob \in Jobs /\ NoJob.at = 1 /\ Numbered(NoJob.history) /\ NoJob.loaded = <<>>
  <1>1. <<>> \in Histories /\ <<>> \in Seq(Reads)
    BY HistoriesAre, MaxChangesAssumption
  <1> QED BY <1>1, MaxChangesAssumption DEF NoJob, Jobs, Contents0, Numbered

-----------------------------------------------------------------------------
(* What a step leaves alone *)

\* The files the history names stay as they are, the history may get longer.
Kept ==
    /\ Recorded' = Recorded \/ \E e \in Entries : Recorded' = Append(Recorded, e)
    /\ \A e \in Range(Recorded), k \in Range(Kinds) :
          Exists(Path(k, e, FALSE))' /\ files'[Path(k, e, FALSE)] = files[Path(k, e, FALSE)]
Longer == Len(base) <= Len(base') /\ \A c \in 1..Len(base) : base'[c] = base[c]

Waits(t) == pc'[t] = pc[t] /\ job'[t] = job[t]

LEMMA KeptHistory ==
  ASSUME Types, Kept
  PROVE  /\ Len(Recorded) <= Len(Recorded') /\ \A i \in 1..Len(Recorded) : Recorded'[i] = Recorded[i]
         /\ Recorded # <<>> => Recorded' # <<>>
         /\ Recorded' \in Seq(Entries) /\ Len(Recorded') \in Nat
         /\ \A e \in Range(Recorded) : SqlOf(e)' = SqlOf(e)
  <1>1. Recorded \in Seq(Entries) /\ Len(Recorded) \in Nat
    BY RecordedIs
  <1>2. "migrations" \in Range(Kinds)
    BY KindsAre
  <1>3. \A e \in Range(Recorded) : SqlOf(e)' = SqlOf(e)
    BY <1>2 DEF Kept, SqlOf
  <1>4. CASE Recorded' = Recorded
    BY <1>1, <1>3, <1>4
  <1>5. CASE \E e \in Entries : Recorded' = Append(Recorded, e)
    <2>1. PICK e \in Entries : Recorded' = Append(Recorded, e)
      BY <1>5
    <2> DEFINE h == Recorded
               n == Recorded'
    <2>2. h \in Seq(Entries) /\ n = Append(h, e) /\ Len(h) \in Nat
      BY <1>1, <2>1
    <2> HIDE DEF h, n
    <2>3. /\ n \in Seq(Entries) /\ n # <<>> /\ Len(n) = Len(h) + 1
          /\ \A i \in 1..Len(h) : n[i] = h[i]
      BY <2>2, EntryAppended
    <2>4. Len(h) <= Len(n) /\ Len(n) \in Nat
      BY <2>2, <2>3
    <2> QED BY <1>3, <2>3, <2>4 DEF h, n
  <1> QED BY <1>4, <1>5 DEF Kept

LEMMA KeptDisk ==
  ASSUME Types, DiskInv, Kept, Longer, Recorded' = Recorded, Len(base') \in Nat
  PROVE  DiskInv'
  <1>1. \A e \in Range(Recorded) : SqlOf(e)' = SqlOf(e)
    BY KeptHistory
  <1>2. /\ Recorded \in Seq(Entries) /\ Len(Recorded) \in Nat
        /\ \A i \in 1..Len(Recorded) : Recorded[i] \in Range(Recorded)
    BY RecordedIs
  <1>3. Len(base) \in Nat
    BY DEF Types, DiskTypes
  <1>4. Numbered(Recorded)' /\ Len(Recorded') <= Len(base')
    BY <1>2, <1>3 DEF DiskInv, Numbered, Longer
  <1>5. ASSUME NEW e \in Range(Recorded) PROVE Whole(e)'
    <2>1. SqlOf(e) \in 1..Len(base) /\ SqlOf(e)' = SqlOf(e)
      BY <1>1 DEF DiskInv, Whole
    <2>2. SqlOf(e)' \in 1..Len(base')
      BY <1>3, <2>1 DEF Longer
    <2>3. \A k \in Range(Kinds) : files[Path(k, e, FALSE)] = SqlOf(e)
      BY DEF DiskInv, Whole
    <2>4. \A k \in Range(Kinds) :
            Exists(Path(k, e, FALSE))' /\ files'[Path(k, e, FALSE)] = files[Path(k, e, FALSE)]
      BY DEF Kept
    <2>5. \A k \in Range(Kinds) : files'[Path(k, e, FALSE)] = SqlOf(e)'
      BY <2>1, <2>3, <2>4
    <2> QED BY <2>2, <2>4, <2>5 DEF Whole
  <1>6. ASSUME NEW i \in 1..Len(Recorded)
        PROVE  base'[SqlOf(Recorded[i])'] = IF i = 1 THEN 0 ELSE SqlOf(Recorded[i - 1])'
    <2>1. SqlOf(Recorded[i])' = SqlOf(Recorded[i]) /\ SqlOf(Recorded[i]) \in 1..Len(base)
      BY <1>1, <1>2 DEF DiskInv, Whole
    <2>2. base'[SqlOf(Recorded[i])'] = base[SqlOf(Recorded[i])]
      BY <2>1 DEF Longer
    <2>3. base[SqlOf(Recorded[i])] = IF i = 1 THEN 0 ELSE SqlOf(Recorded[i - 1])
      BY DEF DiskInv, Ordered
    <2>4. i # 1 => i - 1 \in 1..Len(Recorded)
      BY <1>2
    <2>5. i # 1 => SqlOf(Recorded[i - 1])' = SqlOf(Recorded[i - 1])
      BY <1>1, <1>2, <2>4
    <2> QED BY <2>2, <2>3, <2>5
  <1>7. Ordered(Recorded)'
    BY <1>6 DEF Ordered
  <1> QED BY <1>4, <1>5, <1>7 DEF DiskInv

\* A reader that waits, whatever the writer does.
LEMMA ReaderWaits ==
  ASSUME Types, DiskInv, Kept, NEW t \in Readers, ReaderHolds(pc[t], job[t]), Waits(t)
  PROVE  ReaderHolds(pc[t], job[t])'
  <1>1. /\ Len(Recorded) <= Len(Recorded') /\ \A i \in 1..Len(Recorded) : Recorded'[i] = Recorded[i]
        /\ Recorded # <<>> => Recorded' # <<>>
        /\ \A e \in Range(Recorded) : SqlOf(e)' = SqlOf(e)
    BY KeptHistory
  <1>2. /\ Len(Recorded) \in Nat /\ Recorded' \in Seq(Entries) /\ Len(Recorded') \in Nat
        /\ \A i \in 1..Len(Recorded) : Recorded[i] \in Range(Recorded)
    BY RecordedIs, KeptHistory
  <1>3. CASE pc[t] \in Loading
    <2>1. /\ job[t].history # <<>> /\ Len(job[t].history) <= Len(Recorded)
          /\ \A i \in 1..Len(job[t].history) : job[t].history[i] = Recorded[i]
          /\ job[t].at = Len(job[t].loaded) + 1
          /\ \A i \in 1..Len(job[t].loaded) : /\ job[t].loaded[i].sql = SqlOf(job[t].history[i])
                                              /\ job[t].loaded[i].rollback = SqlOf(job[t].history[i])
          /\ pc[t] = "read_rollback" => job[t].change = SqlOf(job[t].history[job[t].at])
          /\ job[t].op = "load"
      BY <1>3 DEF ReaderHolds, Loading
    <2>2. job[t].history \in Seq(Entries) /\ Len(job[t].history) \in Nat /\ Len(job[t].loaded) \in Nat
      BY HistoriesAre DEF Types, CallTypes, Jobs, Tasks
    <2>3. \A i \in 1..Len(job[t].history) :
            SqlOf(job[t].history[i])' = SqlOf(job[t].history[i]) /\ i \in 1..Len(Recorded)
      <3>1. \A i \in 1..Len(job[t].history) : i \in 1..Len(Recorded) /\ job[t].history[i] \in Range(Recorded)
        BY <1>2, <2>1, <2>2
      <3> QED BY <1>1, <3>1 DEF SqlOf, Waits
    <2>4. Len(job[t].loaded) <= Len(job[t].history)
          /\ (pc[t] = "read_rollback" => job[t].at \in 1..Len(job[t].history))
      BY <1>3, <2>1, <2>2 DEF Types, CallTypes, Placed, Loading, Tasks
    <2> QED BY <1>1, <1>2, <1>3, <2>1, <2>2, <2>3, <2>4 DEF ReaderHolds, Waits, Loading, Inspecting
  <1>4. CASE pc[t] \notin Loading
    BY <1>1, <1>4 DEF ReaderHolds, Waits, Loading, Inspecting
  <1> QED BY <1>3, <1>4

\* A step that leaves the directory alone keeps it.
LEMMA QuietKept ==
  ASSUME Types, DiskInv, UNCHANGED OnDisk
  PROVE  Kept /\ Recorded' = Recorded
  BY DEF OnDisk, Kept, Recorded, DiskInv, Whole, Exists

\* What a call holds depends on the directory and the changes only.
LEMMA HoldsStill ==
  ASSUME UNCHANGED <<OnDisk, base>>, NEW at, NEW j
  PROVE  /\ WriterHolds(at, j) => WriterHolds(at, j)'
         /\ ReaderHolds(at, j) => ReaderHolds(at, j)'
  <1>1. files' = files /\ temp' = temp /\ base' = base /\ Recorded' = Recorded
    BY DEF OnDisk, Recorded
  <1>2. LastSql' = LastSql
    BY <1>1 DEF LastSql, SqlOf
  <1>3. WriterHolds(at, j) => WriterHolds(at, j)'
    BY <1>1, <1>2 DEF WriterHolds, Has, HasFile, Exists
  <1>4. ReaderHolds(at, j) => ReaderHolds(at, j)'
    BY <1>1 DEF ReaderHolds, SqlOf
  <1> QED BY <1>3, <1>4

\* One call goes on, the others wait.
LEMMA Entered ==
  ASSUME Types, NEW t \in Tasks, NEW at \in PCs, NEW j \in Jobs, Enter(t, at, j), Placed(at, j)
  PROVE  /\ CallTypes'
         /\ pc'[t] = at /\ job'[t] = j
         /\ \A u \in Tasks \ {t} : Waits(u)
  <1>1. /\ pc' \in [Tasks -> PCs] /\ job' \in [Tasks -> Jobs] /\ pc'[t] = at /\ job'[t] = j
        /\ \A u \in Tasks \ {t} : pc'[u] = pc[u] /\ job'[u] = job[u]
    BY DEF Types, CallTypes, Enter
  <1>2. \A u \in Tasks : Placed(pc'[u], job'[u])
    BY <1>1 DEF Types, CallTypes
  <1> QED BY <1>1, <1>2 DEF CallTypes, Waits

LEMMA IdleHolds == WriterHolds("idle", NoJob) /\ ReaderHolds("idle", NoJob) /\ Placed("idle", NoJob)
  BY NoJobIsJob DEF WriterHolds, ReaderHolds, Inspecting, Loading, Writing, Placed

LEMMA JobOf ==
  ASSUME IInv, NEW t \in Tasks
  PROVE  /\ pc[t] \in PCs /\ job[t] \in Jobs /\ Placed(pc[t], job[t])
         /\ t \in Writers => WriterHolds(pc[t], job[t])
         /\ t \in Readers => ReaderHolds(pc[t], job[t])
  BY DEF IInv, Types, CallTypes, CallInv

\* A step of one call that leaves the directory alone.
LEMMA QuietEnter ==
  ASSUME IInv, NEW t \in Tasks, NEW at \in PCs, NEW j \in Jobs, Enter(t, at, j), Placed(at, j),
         t \in Writers => WriterHolds(at, j), t \in Readers => ReaderHolds(at, j),
         UNCHANGED <<OnDisk, base>>
  PROVE  IInv' /\ Kept
  <1>1. CallTypes' /\ pc'[t] = at /\ job'[t] = j /\ \A u \in Tasks \ {t} : pc'[u] = pc[u] /\ job'[u] = job[u]
    BY Entered DEF IInv, Waits
  <1>2. Kept /\ Recorded' = Recorded
    BY QuietKept DEF IInv
  <1>3. DiskTypes' /\ Len(base') \in Nat /\ Longer
    BY DEF IInv, Types, DiskTypes, OnDisk, Longer
  <1>4. DiskInv'
    BY <1>2, <1>3, KeptDisk DEF IInv
  <1>5. ASSUME NEW u \in Tasks PROVE CallInv(u)'
    <2>1. PICK a, i : a = pc'[u] /\ i = job'[u]
      OBVIOUS
    <2>2. (u \in Writers => WriterHolds(a, i)) /\ (u \in Readers => ReaderHolds(a, i))
      BY <1>1, <2>1, JobOf
    <2>3. (u \in Writers => WriterHolds(a, i)') /\ (u \in Readers => ReaderHolds(a, i)')
      BY <2>2, HoldsStill
    <2> QED BY <2>1, <2>3 DEF CallInv
  <1> QED BY <1>1, <1>2, <1>3, <1>4, <1>5 DEF IInv, Types

LEMMA QuietReturn ==
  ASSUME IInv, NEW t \in Tasks, UNCHANGED <<OnDisk, base>>, Return(t)
  PROVE  IInv' /\ Kept
  BY IdleHolds, NoJobIsJob, QuietEnter DEF Return, PCs

-----------------------------------------------------------------------------
(* The steps of inspect_state and load *)

LEMMA CallStep == ASSUME IInv, NEW t \in Tasks, Call(t) PROVE IInv' /\ Kept
  <1>1. PICK op \in IF t \in Readers THEN {"load"} ELSE Origins \cup {"baseline"} :
          Enter(t, "has_files", [NoJob EXCEPT !.op = op])
    BY DEF Call
  <1> DEFINE j == [NoJob EXCEPT !.op = op]
  <1>2. j \in Jobs /\ j.at = 1 /\ j.history = NoJob.history /\ j.loaded = <<>> /\ j.op = op /\ j.from = 0
    BY <1>1, NoJobIsJob DEF Jobs, NoJob, Origins
  <1>3. Placed("has_files", j)
    BY <1>2, NoJobIsJob DEF Placed
  <1>4. t \in Writers => WriterHolds("has_files", j)
    BY <1>1, <1>2, TasksAssumption DEF WriterHolds, Inspecting, Loading, Writing
  <1>5. t \in Readers => ReaderHolds("has_files", j)
    BY <1>1, <1>2 DEF ReaderHolds, Inspecting, Loading
  <1>6. UNCHANGED <<OnDisk, base>>
    BY DEF Call
  <1> QED BY <1>1, <1>2, <1>3, <1>4, <1>5, <1>6, QuietEnter DEF PCs

LEMMA InspectFilesStep == ASSUME IInv, NEW t \in Tasks, InspectFiles(t) PROVE IInv' /\ Kept
  <1> DEFINE j == [job[t] EXCEPT !.ready = HasFiles("migrations") \/ HasFiles("snapshots")]
  <1>1. j \in Jobs /\ Placed("history", j)
    BY JobOf DEF Jobs, Placed, InspectFiles
  <1>2. t \in Writers => WriterHolds("history", j)
    BY JobOf DEF WriterHolds, Inspecting, Loading, Writing, InspectFiles, Jobs
  <1>3. t \in Readers => ReaderHolds("history", j)
    BY JobOf DEF ReaderHolds, Inspecting, Loading, InspectFiles, Jobs
  <1> QED BY <1>1, <1>2, <1>3, QuietEnter DEF InspectFiles, PCs

LEMMA InspectHistoryStep == ASSUME IInv, NEW t \in Tasks, InspectHistory(t) PROVE IInv' /\ Kept
  <1>1. pc[t] = "history" /\ UNCHANGED <<OnDisk, base>>
    BY DEF InspectHistory
  <1>2. CASE Recorded = <<>> /\ ~job[t].ready /\ Allows(job[t].op, FALSE) /\ Goto(t, "read")
    <2>1. Enter(t, "read", job[t]) /\ Placed("read", job[t])
      BY <1>1, <1>2, JobOf DEF Goto, Enter, IInv, Types, CallTypes, Placed
    <2>2. t \in Writers => WriterHolds("read", job[t])
      BY <1>1, <1>2, JobOf DEF WriterHolds, Inspecting, Loading, Writing
    <2>3. t \notin Readers
      BY <1>1, <1>2, JobOf DEF ReaderHolds, Allows
    <2> QED BY <1>1, <2>1, <2>2, <2>3, JobOf, QuietEnter DEF PCs
  <1>3. CASE Return(t)
    BY <1>1, <1>3, QuietReturn
  <1>4. CASE Recorded # <<>> /\ Enter(t, "list", [job[t] EXCEPT !.history = Recorded])
    <2> DEFINE j == [job[t] EXCEPT !.history = Recorded]
    <2>1. j \in Jobs
      BY JobOf, RecordedIs DEF Jobs, IInv
    <2>2. Placed("list", j)
      BY <1>1, <1>4, JobOf DEF Placed, Jobs, IInv, DiskInv
    <2>3. t \in Writers => WriterHolds("list", j)
      BY <1>1, <1>4, JobOf DEF WriterHolds, Inspecting, Loading, Writing, Jobs
    <2>4. t \in Readers => ReaderHolds("list", j)
      BY <1>1, <1>4, JobOf DEF ReaderHolds, Inspecting, Loading, Jobs
    <2> QED BY <1>1, <1>4, <2>1, <2>2, <2>3, <2>4, QuietEnter DEF PCs
  <1> QED BY <1>2, <1>3, <1>4 DEF InspectHistory

LEMMA InspectNamesStep == ASSUME IInv, NEW t \in Tasks, InspectNames(t) PROVE IInv' /\ Kept
  <1>1. pc[t] = "list" /\ UNCHANGED <<OnDisk, base>>
    BY DEF InspectNames
  <1>2. CASE job[t].at < 3 /\ Enter(t, "list", [job[t] EXCEPT !.at = @ + 1])
    <2> DEFINE j == [job[t] EXCEPT !.at = @ + 1]
    <2>1. j \in Jobs /\ Placed("list", j)
      BY <1>1, <1>2, JobOf DEF Jobs, Placed
    <2>2. t \in Writers => WriterHolds("list", j)
      BY <1>1, JobOf DEF WriterHolds, Inspecting, Loading, Writing, Jobs
    <2>3. t \in Readers => ReaderHolds("list", j)
      BY <1>1, JobOf DEF ReaderHolds, Inspecting, Loading, Jobs
    <2> QED BY <1>1, <1>2, <2>1, <2>2, <2>3, QuietEnter DEF PCs
  <1>3. CASE Enter(t, "snapshots", [job[t] EXCEPT !.at = 1])
    <2> DEFINE j == [job[t] EXCEPT !.at = 1]
    <2>1. j \in Jobs /\ j.at = 1 /\ j.history = job[t].history /\ Numbered(j.history) /\ j.history # <<>>
      BY <1>1, JobOf DEF Jobs, Placed
    <2>2. 1 \in 1..Len(j.history)
      BY <2>1, HistoriesAre, SequenceRange DEF Jobs
    <2>3. Placed("snapshots", j)
      BY <2>1, <2>2 DEF Placed
    <2>4. t \in Writers => WriterHolds("snapshots", j)
      BY <1>1, JobOf DEF WriterHolds, Inspecting, Loading, Writing, Jobs
    <2>5. t \in Readers => ReaderHolds("snapshots", j)
      BY <1>1, JobOf DEF ReaderHolds, Inspecting, Loading, Jobs
    <2> QED BY <1>1, <1>3, <2>1, <2>3, <2>4, <2>5, QuietEnter DEF PCs
  <1>4. CASE Return(t)
    BY <1>1, <1>4, QuietReturn
  <1> QED BY <1>2, <1>3, <1>4 DEF InspectNames

LEMMA InspectSnapshotsStep == ASSUME IInv, NEW t \in Tasks, InspectSnapshots(t) PROVE IInv' /\ Kept
  <1>1. pc[t] = "snapshots" /\ UNCHANGED <<OnDisk, base>>
    BY DEF InspectSnapshots
  <1>2. CASE job[t].at # Len(job[t].history) /\ Enter(t, "snapshots", [job[t] EXCEPT !.at = @ + 1])
    <2> DEFINE j == [job[t] EXCEPT !.at = @ + 1]
    <2>1. j \in Jobs
      BY JobOf DEF Jobs
    <2>2. Len(job[t].history) \in Nat /\ job[t].at \in 1..Len(job[t].history)
      BY <1>1, JobOf, HistoriesAre DEF Jobs, Placed
    <2>3. Placed("snapshots", j)
      BY <1>1, <1>2, <2>2, JobOf DEF Jobs, Placed
    <2>4. t \in Writers => WriterHolds("snapshots", j)
      BY <1>1, JobOf DEF WriterHolds, Inspecting, Loading, Writing, Jobs
    <2>5. t \in Readers => ReaderHolds("snapshots", j)
      BY <1>1, JobOf DEF ReaderHolds, Inspecting, Loading, Jobs
    <2> QED BY <1>1, <1>2, <2>1, <2>3, <2>4, <2>5, QuietEnter DEF PCs
  <1>3. CASE Allows(job[t].op, TRUE) /\ Enter(t, "read", [job[t] EXCEPT !.ready = TRUE, !.at = 1])
    <2> DEFINE j == [job[t] EXCEPT !.ready = TRUE, !.at = 1]
    <2>1. j \in Jobs /\ Placed("read", j)
      BY <1>1, JobOf DEF Jobs, Placed
    <2>2. j.op # "baseline"
      BY <1>3, JobOf DEF Jobs, Allows
    <2>3. t \in Writers => WriterHolds("read", j)
      BY <1>1, <2>2, JobOf DEF WriterHolds, Inspecting, Loading, Writing, Jobs
    <2>4. t \in Readers => ReaderHolds("read", j)
      BY <1>1, JobOf DEF ReaderHolds, Inspecting, Loading, Jobs
    <2> QED BY <1>1, <1>3, <2>1, <2>3, <2>4, QuietEnter DEF PCs
  <1>4. CASE Return(t)
    BY <1>1, <1>4, QuietReturn
  <1> QED BY <1>2, <1>3, <1>4 DEF InspectSnapshots

LEMMA ReadHistoryStep == ASSUME IInv, NEW t \in Tasks, ReadHistory(t) PROVE IInv' /\ Kept
  <1>1. pc[t] = "read" /\ UNCHANGED <<OnDisk, base>>
    BY DEF ReadHistory
  <1>2. PICK at, j : /\ at = (IF job[t].op # "load" THEN "diff" ELSE IF Recorded = <<>> THEN "loaded" ELSE "read_sql")
                     /\ j = [job[t] EXCEPT !.history = IF job[t].op = "baseline" THEN <<>> ELSE Recorded]
    OBVIOUS
  <1>3. Enter(t, at, j) /\ at \in PCs
    BY <1>2 DEF ReadHistory, PCs
  <1>4. <<>> \in Histories /\ Recorded \in Histories
    BY RecordedIs, HistoriesAre, MaxChangesAssumption DEF IInv
  <1>5. /\ j \in Jobs /\ j.at = 1 /\ j.op = job[t].op /\ j.ready = job[t].ready
        /\ j.from = job[t].from /\ j.loaded = job[t].loaded
        /\ j.history = IF job[t].op = "baseline" THEN <<>> ELSE Recorded
    BY <1>1, <1>2, <1>4, JobOf DEF Jobs, Placed
  <1>6. Numbered(j.history)
    BY <1>5 DEF IInv, DiskInv, Numbered
  <1>7. CASE t \in Writers
    <2>1. WriterHolds("read", job[t]) /\ t \notin Readers
      BY <1>1, <1>7, JobOf, TasksAssumption
    <2>2. at = "diff" /\ j.history = Recorded
      BY <1>2, <1>5, <2>1 DEF WriterHolds, Origins
    <2>3. Placed(at, j)
      BY <1>5, <1>6, <2>2 DEF Placed
    <2>4. LastSql = 0 \/ Recorded # <<>>
      BY DEF LastSql
    <2>5. WriterHolds(at, j)
      BY <1>5, <2>1, <2>2, <2>4 DEF WriterHolds, Loading, Writing, Inspecting
    <2> QED BY <1>1, <1>3, <1>5, <2>1, <2>3, <2>5, QuietEnter
  <1>8. CASE t \in Readers
    <2>1. ReaderHolds("read", job[t]) /\ t \notin Writers
      BY <1>1, <1>8, JobOf, TasksAssumption
    <2>2. at = "read_sql" /\ j.history = Recorded /\ Recorded # <<>> /\ j.loaded = <<>> /\ j.op = "load"
      BY <1>2, <1>5, <2>1 DEF ReaderHolds, Inspecting
    <2>3. Len(Recorded) \in Nat /\ Len(Recorded) >= 1
      BY <2>2, RecordedIs DEF IInv
    <2>4. Placed(at, j)
      BY <1>5, <1>6, <2>2, <2>3 DEF Placed
    <2>5. ReaderHolds(at, j)
      BY <1>5, <2>2, <2>3 DEF ReaderHolds, Loading, Inspecting
    <2> QED BY <1>1, <1>3, <1>5, <2>1, <2>4, <2>5, QuietEnter
  <1> QED BY <1>7, <1>8 DEF Tasks

LEMMA Changed == ASSUME IInv PROVE Len(base) \in Nat /\ Len(base) <= MaxChanges
  BY DEF IInv, Types, DiskTypes

\* A reader that has a history reads what is whole.
LEMMA Reading ==
  ASSUME IInv, NEW t \in Tasks, pc[t] \in {"read_sql", "read_rollback"}
  PROVE  /\ t \in Readers /\ t \notin Writers /\ ReaderHolds(pc[t], job[t])
         /\ job[t].at \in 1..Len(job[t].history) /\ Len(job[t].history) \in Nat
         /\ Whole(job[t].history[job[t].at])
  <1>1. t \in Readers /\ t \notin Writers
    BY JobOf, TasksAssumption DEF WriterHolds, Loading, Tasks
  <1>2. job[t].at \in 1..Len(job[t].history) /\ Len(job[t].history) \in Nat
    BY JobOf, HistoriesAre DEF Placed, Jobs
  <1>3. ReaderHolds(pc[t], job[t])
    BY <1>1, JobOf
  <1>4. job[t].history[job[t].at] = Recorded[job[t].at] /\ Len(job[t].history) <= Len(Recorded)
    BY <1>2, <1>3 DEF ReaderHolds, Loading
  <1>5. job[t].history[job[t].at] \in Range(Recorded)
    BY <1>2, <1>4, RecordedIs DEF IInv
  <1> QED BY <1>1, <1>2, <1>3, <1>5 DEF IInv, DiskInv

LEMMA ReadSqlStep == ASSUME IInv, NEW t \in Tasks, ReadSql(t) PROVE IInv' /\ Kept
  <1>1. pc[t] = "read_sql" /\ UNCHANGED <<OnDisk, base>>
    BY DEF ReadSql
  <1>2. PICK e : e = job[t].history[job[t].at]
    OBVIOUS
  <1> DEFINE j == [job[t] EXCEPT !.change = SqlOf(e)]
  <1>3. Enter(t, "read_rollback", j)
    BY <1>2 DEF ReadSql, SqlOf
  <1>4. Whole(e)
    BY <1>1, <1>2, Reading
  <1>5. SqlOf(e) \in 1..Len(base) /\ Len(base) <= MaxChanges /\ Len(base) \in Nat
    BY <1>4, Changed DEF Whole
  <1>6. j \in Jobs /\ Placed("read_rollback", j)
    BY <1>1, <1>5, JobOf, MaxChangesAssumption DEF Jobs, Contents0, Placed
  <1>7. ReaderHolds("read_rollback", j)
    BY <1>1, <1>2, Reading, JobOf DEF ReaderHolds, Jobs, Inspecting, Loading
  <1> QED BY <1>1, <1>3, <1>6, <1>7, Reading, QuietEnter DEF PCs

LEMMA ReadRollbackStep == ASSUME IInv, NEW t \in Tasks, ReadRollback(t) PROVE IInv' /\ Kept
  <1>1. pc[t] = "read_rollback" /\ UNCHANGED <<OnDisk, base>>
    BY DEF ReadRollback
  <1>2. PICK e : e = job[t].history[job[t].at]
    OBVIOUS
  <1>3. Whole(e) /\ job[t].change = SqlOf(e)
    BY <1>1, <1>2, Reading DEF ReaderHolds
  <1>4. Exists(Path("rollbacks", e, FALSE)) /\ files[Path("rollbacks", e, FALSE)] = SqlOf(e)
    BY <1>3, KindsAre DEF Whole
  <1>5. PICK r : r = [sql |-> SqlOf(e), rollback |-> SqlOf(e)]
    OBVIOUS
  <1>6. PICK at, j : /\ at = (IF job[t].at = Len(job[t].history) THEN "loaded" ELSE "read_sql")
                     /\ j = [job[t] EXCEPT !.loaded = Append(@, r), !.at = @ + 1]
    OBVIOUS
  <1>7. Enter(t, at, j) /\ at \in PCs
    BY <1>2, <1>3, <1>4, <1>5, <1>6 DEF ReadRollback, PCs
  <1>8. SqlOf(e) \in 1..Len(base) /\ Len(base) <= MaxChanges /\ Len(base) \in Nat
    BY <1>3, Changed DEF Whole
  <1>9. r \in Reads
    BY <1>5, <1>8, MaxChangesAssumption DEF Reads, Contents0
  <1>10. /\ j \in Jobs /\ j.at = job[t].at + 1 /\ j.history = job[t].history /\ j.op = job[t].op
         /\ j.loaded = Append(job[t].loaded, r) /\ job[t].loaded \in Seq(Reads)
    <2>1. job[t] \in Jobs /\ job[t].loaded \in Seq(Reads) /\ job[t].at + 1 \in Nat
      BY JobOf DEF Jobs
    <2>2. Append(job[t].loaded, r) \in Seq(Reads)
      BY <1>9, <2>1
    <2> QED BY <1>6, <2>1, <2>2 DEF Jobs
  <1>11. Placed(at, j)
    BY <1>1, <1>6, <1>10, Reading, JobOf DEF Placed
  <1>12. /\ Len(j.loaded) = Len(job[t].loaded) + 1 /\ Len(job[t].loaded) \in Nat /\ job[t].at = Len(job[t].loaded) + 1
         /\ \A i \in 1..Len(job[t].loaded) : j.loaded[i] = job[t].loaded[i]
         /\ j.loaded[job[t].at] = r
    BY <1>1, <1>10, Reading DEF ReaderHolds, Loading
  <1>13. \A i \in 1..Len(j.loaded) : j.loaded[i].sql = SqlOf(j.history[i]) /\ j.loaded[i].rollback = SqlOf(j.history[i])
    <2>1. \A i \in 1..Len(j.loaded) : i \in 1..Len(job[t].loaded) \/ i = job[t].at
      BY <1>12
    <2>2. \A i \in 1..Len(job[t].loaded) :
             job[t].loaded[i].sql = SqlOf(job[t].history[i]) /\ job[t].loaded[i].rollback = SqlOf(job[t].history[i])
      BY <1>1, Reading DEF ReaderHolds, Loading
    <2> QED BY <1>2, <1>5, <1>10, <1>12, <2>1, <2>2
  <1>14. ReaderHolds(at, j)
    BY <1>1, <1>6, <1>10, <1>12, <1>13, Reading DEF ReaderHolds, Loading, Inspecting
  <1> QED BY <1>1, <1>7, <1>10, <1>11, <1>14, Reading, QuietEnter

LEMMA CheckPathsStep == ASSUME IInv, NEW t \in Tasks, CheckPaths(t) PROVE IInv' /\ Kept
  <1>1. pc[t] = "check" /\ UNCHANGED <<OnDisk, base>>
    BY DEF CheckPaths
  <1>2. PICK slug \in Slugs \cup {BaselineSlug} :
          \/ Enter(t, "write", [job[t] EXCEPT !.history = Append(@, [id |-> NextId(job[t].history), slug |-> slug]), !.at = 1])
          \/ Return(t)
    BY DEF CheckPaths
  <1>3. CASE Return(t)
    BY <1>1, <1>3, QuietReturn
  <1>4. CASE ~Return(t)
    <2>1. WriterHolds("check", job[t]) /\ t \notin Readers
      BY <1>1, JobOf DEF ReaderHolds, Inspecting, Loading, Tasks
    <2>2. PICK h : h = Recorded
      OBVIOUS
    <2>3. job[t].history = h /\ h \in Seq(Entries) /\ Len(h) \in Nat /\ Len(h) < MaxChanges /\ Numbered(h)
      BY <2>1, <2>2, RecordedIs, MaxChangesAssumption DEF WriterHolds, IInv, DiskInv, Types, DiskTypes
    <2>4. NextId(h) = Len(h) + 1
      BY <2>3, SequenceRange DEF NextId, Numbered
    <2>5. PICK e : e = [id |-> Len(h) + 1, slug |-> slug]
      OBVIOUS
    <2>6. e \in Entries /\ e.id = Len(h) + 1
      BY <2>3, <2>5, MaxChangesAssumption DEF Entries
    <2>7. PICK n : n = Append(h, e)
      OBVIOUS
    <2>8. /\ n \in Seq(Entries) /\ n # <<>> /\ Len(n) = Len(h) + 1 /\ Last(n) = e
          /\ \A i \in 1..Len(h) : n[i] = h[i]
          /\ n[Len(h) + 1] = e
      BY <2>3, <2>6, <2>7, EntryAppended
    <2>9. n \in Histories /\ Numbered(n)
      BY <2>3, <2>6, <2>8, HistoriesAre, MaxChangesAssumption DEF Numbered
    <2>10. PICK j : j = [job[t] EXCEPT !.history = n, !.at = 1]
      OBVIOUS
    <2>11. Enter(t, "write", j)
      BY <1>2, <1>4, <2>3, <2>4, <2>5, <2>7, <2>10
    <2>12. /\ j \in Jobs /\ j.at = 1 /\ j.history = n /\ j.change = job[t].change /\ j.op = job[t].op
      BY <2>9, <2>10, JobOf DEF Jobs
    <2>13. Placed("write", j) /\ New(j) = e
      BY <2>8, <2>9, <2>12 DEF Placed, New
    <2>14. Has(j, TRUE, 1, j.at - 1)
      BY <2>12 DEF Has
    <2>15. WriterHolds("write", j)
      BY <2>1, <2>2, <2>6, <2>7, <2>12, <2>13, <2>14 DEF WriterHolds, Inspecting, Loading, Writing
    <2> QED BY <1>1, <2>1, <2>11, <2>12, <2>13, <2>15, QuietEnter DEF PCs
  <1> QED BY <1>3, <1>4

-----------------------------------------------------------------------------
(* The steps of generate and baseline *)

LEMMA WriterStep ==
  ASSUME IInv, SingleWriter, NEW t \in Writers, NEW at \in PCs, NEW j \in Jobs, Enter(t, at, j), Placed(at, j),
         WriterHolds(at, j)', Kept, DiskTypes', DiskInv'
  PROVE  IInv'
  <1>1. CallTypes' /\ pc'[t] = at /\ job'[t] = j /\ \A u \in Tasks \ {t} : Waits(u)
    BY Entered DEF IInv, Tasks
  <1>2. CallInv(t)'
    BY <1>1, TasksAssumption DEF CallInv
  <1>3. ASSUME NEW u \in Tasks \ {t} PROVE CallInv(u)'
    <2>1. u \in Readers /\ u \notin Writers
      BY DEF SingleWriter, Tasks
    <2>2. ReaderHolds(pc[u], job[u])'
      BY <1>1, <2>1, ReaderWaits, JobOf DEF IInv
    <2> QED BY <2>1, <2>2 DEF CallInv
  <1> QED BY <1>1, <1>2, <1>3 DEF IInv, Types

LEMMA WriterReturns ==
  ASSUME IInv, SingleWriter, NEW t \in Writers, Return(t), Kept, DiskTypes', DiskInv'
  PROVE  IInv'
  <1>1. WriterHolds("idle", NoJob)'
    BY DEF WriterHolds, Inspecting, Loading, Writing
  <1> QED BY <1>1, IdleHolds, NoJobIsJob, WriterStep DEF Return, PCs

\* Only a writer writes.
LEMMA WriterIs ==
  ASSUME IInv, NEW t \in Tasks, pc[t] \in {"diff", "check"} \cup Writing
  PROVE  t \in Writers /\ WriterHolds(pc[t], job[t])
  BY JobOf DEF ReaderHolds, Inspecting, Loading, Writing, Tasks

LEMMA DiffStep == ASSUME IInv, SingleWriter, NEW t \in Tasks, Diff(t) PROVE IInv' /\ Kept
  <1>1. pc[t] = "diff" /\ UNCHANGED OnDisk
    BY DEF Diff
  <1>2. CASE Return(t) /\ UNCHANGED base
    BY <1>1, <1>2, QuietReturn
  <1>3. CASE ~(Return(t) /\ UNCHANGED base)
    <2>1. t \in Writers /\ WriterHolds("diff", job[t])
      BY <1>1, WriterIs
    <2>2. job[t].history = Recorded /\ (IF job[t].ready THEN Recorded # <<>> ELSE job[t].from = LastSql)
      BY <2>1 DEF WriterHolds
    <2>3. Recorded # <<>> => Whole(Last(Recorded))
      BY RecordedIs DEF IInv, DiskInv
    <2>4. PICK from : from = IF job[t].ready THEN LatestSchema(t) ELSE job[t].from
      OBVIOUS
    <2>5. from = LastSql
      BY <2>2, <2>3, <2>4, KindsAre DEF LatestSchema, LastSql, Whole
    <2>6. from \in 0..MaxChanges
      <3>1. CASE Recorded = <<>>
        BY <2>5, <3>1, MaxChangesAssumption DEF LastSql
      <3>2. CASE Recorded # <<>>
        <4>1. from \in 1..Len(base)
          BY <2>3, <2>5, <3>2 DEF LastSql, Whole
        <4> QED BY <4>1, Changed, MaxChangesAssumption
      <3> QED BY <3>1, <3>2
    <2>7. PICK again \in BOOLEAN, c \in {Len(base) + 1} :
            /\ c = Len(base) + 1 /\ Len(base) < MaxChanges /\ base' = Append(base, from)
            /\ Enter(t, "check", [job[t] EXCEPT !.change = c, !.again = again])
      BY <1>3, <2>4 DEF Diff, NewChange
    <2>8. PICK j : j = [job[t] EXCEPT !.change = c, !.again = again]
      OBVIOUS
    <2>9. /\ base' \in Seq(0..MaxChanges) /\ Len(base') = Len(base) + 1 /\ Len(base') \in Nat /\ base'[c] = from
          /\ Len(base') <= MaxChanges /\ Longer
      BY <2>6, <2>7, MaxChangesAssumption DEF IInv, Types, DiskTypes, Longer
    <2>10. c \in 1..Len(base') /\ c \in Contents0
      BY <2>7, <2>9, MaxChangesAssumption, Changed DEF Contents0
    <2>11. /\ j \in Jobs /\ j.at = 1 /\ j.op = job[t].op /\ j.history = Recorded /\ j.change = c
           /\ Placed("check", j)
      BY <1>1, <2>2, <2>7, <2>8, <2>10, JobOf DEF Jobs, Placed
    <2>12. Kept /\ Recorded' = Recorded
      BY <1>1, QuietKept DEF IInv
    <2>13. DiskTypes' /\ DiskInv'
      BY <1>1, <2>9, <2>12, KeptDisk DEF IInv, Types, DiskTypes, OnDisk
    <2>14. LastSql' = LastSql
      BY <1>1, <2>12 DEF LastSql, SqlOf, OnDisk
    <2>15. Len(Recorded) < Len(base')
      BY <2>9, Changed, RecordedIs DEF IInv, DiskInv
    <2>16. WriterHolds("check", j)'
      BY <2>1, <2>5, <2>9, <2>10, <2>11, <2>12, <2>14, <2>15
         DEF WriterHolds, Inspecting, Loading, Writing
    <2> QED BY <2>1, <2>7, <2>8, <2>11, <2>12, <2>13, <2>16, WriterStep DEF PCs
  <1> QED BY <1>2, <1>3

\* The new migration is not in the history, and its files have names of their own.
LEMMA NewIsNew ==
  ASSUME IInv, NEW t \in Tasks, pc[t] \in Writing
  PROVE  /\ t \in Writers /\ New(job[t]) \in Entries /\ New(job[t]) \notin Range(Recorded)
         /\ job[t].change \in Changes
  <1>1. t \in Writers /\ WriterHolds(pc[t], job[t])
    BY WriterIs
  <1>2. New(job[t]) \in Entries /\ New(job[t]).id = Len(Recorded) + 1 /\ job[t].change \in 1..Len(base)
    BY <1>1 DEF WriterHolds
  <1>3. \A e \in Range(Recorded) : e.id \in 1..Len(Recorded)
    BY RecordedIs DEF IInv, DiskInv, Numbered
  <1> QED BY <1>1, <1>2, <1>3, RecordedIs, Changed, MaxChangesAssumption DEF IInv, Changes

\* The directory after the writing of a temporary file, and after its renaming.
LEMMA Stays ==
  ASSUME IInv, UNCHANGED <<history, base>>, temp' \in Histories \cup {NoHistory, Torn},
         DOMAIN files' \subseteq Paths, \A f \in DOMAIN files' : files'[f] \in Changes \cup {Torn},
         \A e \in Range(Recorded), k \in Range(Kinds) :
            Path(k, e, FALSE) \in DOMAIN files' /\ files'[Path(k, e, FALSE)] = files[Path(k, e, FALSE)]
  PROVE  Kept /\ DiskTypes' /\ DiskInv' /\ Recorded' = Recorded /\ LastSql' = LastSql
  <1>1. Recorded' = Recorded
    BY DEF Recorded
  <1>2. Kept
    BY <1>1 DEF Kept, Exists
  <1>3. DiskTypes' /\ Len(base') \in Nat /\ Longer
    BY DEF IInv, Types, DiskTypes, Longer
  <1>4. DiskInv'
    BY <1>1, <1>2, <1>3, KeptDisk DEF IInv
  <1>5. LastSql' = LastSql
    BY <1>1, RecordedIs, KindsAre DEF LastSql, SqlOf, IInv
  <1> QED BY <1>1, <1>2, <1>3, <1>4, <1>5

\* The calls that leave the list of the three kinds, or go on in it.
LEMMA Stepped ==
  ASSUME IInv, NEW t \in Tasks, NEW next \in PCs, pc[t] \in {"write", "rename"}, Step(t, next), next \in {"write_history", "publish"}
  PROVE  \E at \in PCs, j \in Jobs :
            /\ Enter(t, at, j) /\ Placed(at, j)
            /\ j = [job[t] EXCEPT !.at = j.at]
            /\ \/ job[t].at < 3 /\ at = pc[t] /\ j.at = job[t].at + 1
               \/ job[t].at = 3 /\ at = next /\ j.at = 1
  <1>1. job[t] \in Jobs /\ job[t].at \in 1..3 /\ Numbered(job[t].history) /\ pc[t] \in PCs
    BY JobOf DEF Placed
  <1>2. CASE job[t].at < 3
    <2>1. PICK j : j = [job[t] EXCEPT !.at = job[t].at + 1]
      OBVIOUS
    <2>2. j \in Jobs /\ j.at = job[t].at + 1 /\ j.history = job[t].history
      BY <1>1, <2>1 DEF Jobs
    <2>3. Enter(t, pc[t], j) /\ j = [job[t] EXCEPT !.at = j.at]
      BY <1>2, <2>1, <2>2 DEF Step
    <2>4. Placed(pc[t], j)
      BY <1>1, <1>2, <2>2 DEF Placed
    <2> QED BY <1>1, <1>2, <2>2, <2>3, <2>4
  <1>3. CASE job[t].at = 3
    <2>1. PICK j : j = [job[t] EXCEPT !.at = 1]
      OBVIOUS
    <2>2. j \in Jobs /\ j.at = 1 /\ j.history = job[t].history
      BY <1>1, <2>1 DEF Jobs
    <2>3. Enter(t, next, j) /\ j = [job[t] EXCEPT !.at = j.at]
      BY <1>3, <2>1, <2>2 DEF Step
    <2>4. Placed(next, j)
      BY <1>1, <2>2 DEF Placed
    <2> QED BY <1>3, <2>2, <2>3, <2>4
  <1> QED BY <1>1, <1>2, <1>3

LEMMA WriteStep == ASSUME IInv, SingleWriter, NEW t \in Tasks, Write(t) PROVE IInv' /\ Kept
  <1>1. pc[t] = "write" /\ UNCHANGED <<history, temp, base>>
    BY DEF Write
  <1>2. PICK e, k, i : e = New(job[t]) /\ i = job[t].at /\ k = Kinds[i]
    OBVIOUS
  <1>3. t \in Writers /\ e \in Entries /\ e \notin Range(Recorded) /\ job[t].change \in Changes
    BY <1>1, <1>2, NewIsNew DEF Writing
  <1>4. WriterHolds("write", job[t]) /\ i \in 1..3 /\ k \in Range(Kinds) /\ job[t] \in Jobs
    BY <1>1, <1>2, WriterIs, JobOf, KindsAre DEF Placed, Writing
  <1>5. PICK f : f = Path(k, e, TRUE)
    OBVIOUS
  <1>6. /\ f \in Paths /\ \A k2, e2, b2 : f = Path(k2, e2, b2) => k = k2 /\ e = e2
        /\ \A k2, e2 : f # Path(k2, e2, FALSE)
    BY <1>3, <1>4, <1>5 DEF Path, Paths
  <1>7. NewFile(t) = f
    BY <1>2, <1>5 DEF NewFile, New
  <1>8. ASSUME NEW c \in Changes \cup {Torn}, files' = Put(f, c)
        PROVE  /\ DOMAIN files' = DOMAIN files \cup {f} /\ files'[f] = c
               /\ \A g \in DOMAIN files : g # f => files'[g] = files[g]
               /\ Kept /\ DiskTypes' /\ DiskInv' /\ Recorded' = Recorded /\ LastSql' = LastSql
    <2>1. /\ DOMAIN files' = DOMAIN files \cup {f} /\ files'[f] = c
          /\ \A g \in DOMAIN files : g # f => files'[g] = files[g]
      BY <1>8 DEF Put
    <2>2. /\ DOMAIN files' \subseteq Paths /\ \A g \in DOMAIN files' : files'[g] \in Changes \cup {Torn}
          /\ temp' \in Histories \cup {NoHistory, Torn}
      BY <1>1, <1>6, <2>1 DEF IInv, Types, DiskTypes
    <2>3. \A x \in Range(Recorded), y \in Range(Kinds) :
             Path(y, x, FALSE) \in DOMAIN files' /\ files'[Path(y, x, FALSE)] = files[Path(y, x, FALSE)]
      BY <1>6, <2>1 DEF IInv, DiskInv, Whole, Exists
    <2> QED BY <1>1, <2>1, <2>2, <2>3, Stays
  <1>9. CASE files' = Put(NewFile(t), Torn) /\ Return(t)
    BY <1>3, <1>7, <1>8, <1>9, WriterReturns
  <1>10. CASE files' = Put(NewFile(t), job[t].change) /\ Step(t, "write_history")
    <2>1. PICK at \in PCs, j \in Jobs :
            /\ Enter(t, at, j) /\ Placed(at, j)
            /\ j = [job[t] EXCEPT !.at = j.at]
            /\ \/ i < 3 /\ at = "write" /\ j.at = i + 1
               \/ i = 3 /\ at = "write_history" /\ j.at = 1
      BY <1>1, <1>2, <1>10, Stepped DEF PCs
    <2>2. j.op = job[t].op /\ j.history = job[t].history /\ j.change = job[t].change /\ New(j) = e
      BY <1>2, <1>4, <2>1 DEF Jobs, New
    <2>3. /\ DOMAIN files' = DOMAIN files \cup {f} /\ files'[f] = j.change
          /\ \A g \in DOMAIN files : g # f => files'[g] = files[g]
          /\ Kept /\ DiskTypes' /\ DiskInv' /\ Recorded' = Recorded /\ LastSql' = LastSql
      BY <1>3, <1>7, <1>8, <1>10, <2>2
    <2>4. \A m \in 1..i : HasFile(j, TRUE, m)'
      <3>1. ASSUME NEW m \in 1..i PROVE HasFile(j, TRUE, m)'
        <4>1. CASE m = i
          BY <1>2, <1>5, <2>2, <2>3, <4>1 DEF HasFile, Exists
        <4>2. CASE m # i
          <5>1. m \in 1..(i - 1) /\ m \in 1..3 /\ Kinds[m] # k
            BY <1>2, <1>4, <4>2, KindsAre
          <5>2. HasFile(job[t], TRUE, m)
            BY <1>2, <1>4, <5>1 DEF WriterHolds, Has
          <5>3. Path(Kinds[m], e, TRUE) \in DOMAIN files /\ files[Path(Kinds[m], e, TRUE)] = j.change
            BY <1>2, <2>2, <5>2 DEF HasFile, Exists
          <5>4. Path(Kinds[m], e, TRUE) # f
            BY <1>6, <5>1
          <5> QED BY <2>2, <2>3, <5>3, <5>4 DEF HasFile, Exists
        <4> QED BY <4>1, <4>2
      <3> QED BY <3>1
    <2>5. WriterHolds(at, j)'
      <3>1. at = "write" => Has(j, TRUE, 1, j.at - 1)'
        <4>1. at = "write" => 1..(j.at - 1) = 1..i
          BY <1>4, <2>1
        <4> QED BY <2>4, <4>1 DEF Has
      <3>2. at = "write_history" => Has(j, TRUE, 1, 3)'
        BY <1>4, <2>1, <2>4 DEF Has
      <3>3. at \in Writing
        BY <2>1 DEF Writing
      <3> QED BY <1>1, <1>2, <1>4, <2>1, <2>2, <2>3, <3>1, <3>2, <3>3
              DEF WriterHolds, Inspecting, Loading, Writing
    <2> QED BY <1>3, <2>1, <2>3, <2>5, WriterStep
  <1> QED BY <1>9, <1>10 DEF Write

LEMMA WriteHistoryStep == ASSUME IInv, SingleWriter, NEW t \in Tasks, WriteHistory(t) PROVE IInv' /\ Kept
  <1>1. pc[t] = "write_history" /\ UNCHANGED <<files, history, base>>
    BY DEF WriteHistory
  <1>2. t \in Writers /\ WriterHolds("write_history", job[t]) /\ job[t] \in Jobs
    BY <1>1, WriterIs, JobOf DEF Writing
  <1>3. ASSUME temp' \in Histories \cup {Torn}
        PROVE  Kept /\ DiskTypes' /\ DiskInv' /\ Recorded' = Recorded /\ LastSql' = LastSql
    <2>1. DOMAIN files \subseteq Paths /\ \A f \in DOMAIN files : files[f] \in Changes \cup {Torn}
      BY DEF IInv, Types, DiskTypes
    <2>2. \A x \in Range(Recorded), y \in Range(Kinds) : Path(y, x, FALSE) \in DOMAIN files
      BY DEF IInv, DiskInv, Whole, Exists
    <2> QED BY <1>1, <1>3, <2>1, <2>2, Stays
  <1>4. CASE temp' = Torn /\ Return(t)
    BY <1>2, <1>3, <1>4, WriterReturns
  <1>5. CASE temp' = job[t].history /\ Goto(t, "rename")
    <2>1. PICK j : j = job[t]
      OBVIOUS
    <2>2. j \in Jobs /\ Enter(t, "rename", j)
      BY <1>2, <1>5, <2>1 DEF Goto, Enter, IInv, Types, CallTypes
    <2>3. Placed("rename", j) /\ j.at = 1
      BY <1>1, <2>1, JobOf DEF Placed
    <2>4. Kept /\ DiskTypes' /\ DiskInv' /\ Recorded' = Recorded /\ LastSql' = LastSql
      BY <1>2, <1>3, <1>5 DEF Jobs
    <2>5. Has(j, TRUE, 1, 3)
      BY <1>2, <2>1 DEF WriterHolds
    <2>6. Has(j, TRUE, j.at, 3)' /\ Has(j, FALSE, 1, j.at - 1)'
      <3>1. j.at..3 = 1..3 /\ 1..(j.at - 1) = {}
        BY <2>3
      <3>2. \A m \in 1..3 : HasFile(j, TRUE, m)'
        BY <1>1, <2>5 DEF Has, HasFile, Exists
      <3> QED BY <3>1, <3>2 DEF Has
    <2>7. WriterHolds("rename", j)'
      BY <1>1, <1>2, <1>5, <2>1, <2>4, <2>6 DEF WriterHolds, Inspecting, Loading, Writing
    <2> QED BY <1>2, <2>2, <2>3, <2>4, <2>7, WriterStep DEF PCs
  <1> QED BY <1>4, <1>5 DEF WriteHistory

LEMMA FinalPath ==
  ASSUME NEW k \in Range(Kinds), NEW e \in Entries
  PROVE  [Path(k, e, TRUE) EXCEPT !.temp = FALSE] = Path(k, e, FALSE)
  <1> DEFINE f == [Path(k, e, TRUE) EXCEPT !.temp = FALSE]
             to == Path(k, e, FALSE)
  <1>1. f.kind = k /\ f.entry = e /\ f.temp = FALSE
    BY DEF Path
  <1>2. to.kind = k /\ to.entry = e /\ to.temp = FALSE
    BY DEF Path
  <1>3. f \in Paths /\ to \in Paths
    BY DEF Path, Paths
  <1> QED BY <1>1, <1>2, <1>3 DEF Paths

LEMMA RenameStep == ASSUME IInv, SingleWriter, NEW t \in Tasks, Rename(t) PROVE IInv' /\ Kept
  <1>1. pc[t] = "rename" /\ UNCHANGED <<history, temp, base>> /\ Step(t, "publish")
    BY DEF Rename
  <1>2. PICK e, k, i : e = New(job[t]) /\ i = job[t].at /\ k = Kinds[i]
    OBVIOUS
  <1>3. t \in Writers /\ e \in Entries /\ e \notin Range(Recorded) /\ job[t].change \in Changes
    BY <1>1, <1>2, NewIsNew DEF Writing
  <1>4. WriterHolds("rename", job[t]) /\ i \in 1..3 /\ k \in Range(Kinds) /\ job[t] \in Jobs
    BY <1>1, <1>2, WriterIs, JobOf, KindsAre DEF Placed, Writing
  <1>5. PICK f, to : f = Path(k, e, TRUE) /\ to = Path(k, e, FALSE)
    OBVIOUS
  <1>6. /\ to \in Paths /\ to = [f EXCEPT !.temp = FALSE]
        /\ \A k2, e2 : f # Path(k2, e2, FALSE) /\ to # Path(k2, e2, TRUE)
        /\ \A k2, e2, b2 : f = Path(k2, e2, b2) => k = k2 /\ e = e2
        /\ \A k2, e2, b2 : to = Path(k2, e2, b2) => k = k2 /\ e = e2
    <2>1. to \in Paths
      BY <1>3, <1>4, <1>5 DEF Path, Paths
    <2>2. to = [f EXCEPT !.temp = FALSE]
      BY <1>3, <1>4, <1>5, FinalPath
    <2>3. \A k2, e2 : f # Path(k2, e2, FALSE) /\ to # Path(k2, e2, TRUE)
      BY <1>5 DEF Path
    <2>4. \A k2, e2, b2 : f = Path(k2, e2, b2) => k = k2 /\ e = e2
      BY <1>5 DEF Path
    <2>5. \A k2, e2, b2 : to = Path(k2, e2, b2) => k = k2 /\ e = e2
      BY <1>5 DEF Path
    <2> QED BY <2>1, <2>2, <2>3, <2>4, <2>5
  <1>7. files' = Renamed(f) /\ HasFile(job[t], TRUE, i)
    <2>1. files' = Renamed(f)
      BY <1>2, <1>5 DEF Rename, NewFile, New
    <2>2. i \in i..3
      BY <1>4
    <2> QED BY <1>2, <1>4, <2>1, <2>2 DEF WriterHolds, Has
  <1>8. /\ DOMAIN files' = (DOMAIN files \ {f}) \cup {to} /\ files'[to] = job[t].change
        /\ \A g \in DOMAIN files : g # f /\ g # to => files'[g] = files[g]
    <2>1. files[f] = job[t].change
      BY <1>2, <1>5, <1>7 DEF HasFile
    <2> QED BY <1>6, <1>7, <2>1 DEF Renamed
  <1>9. Kept /\ DiskTypes' /\ DiskInv' /\ Recorded' = Recorded /\ LastSql' = LastSql
    <2>1. /\ DOMAIN files' \subseteq Paths /\ \A g \in DOMAIN files' : files'[g] \in Changes \cup {Torn}
          /\ temp' \in Histories \cup {NoHistory, Torn}
      BY <1>1, <1>3, <1>6, <1>8 DEF IInv, Types, DiskTypes
    <2>2. \A x \in Range(Recorded), y \in Range(Kinds) :
             /\ Path(y, x, FALSE) \in DOMAIN files /\ Path(y, x, FALSE) # f /\ Path(y, x, FALSE) # to
      BY <1>3, <1>6 DEF IInv, DiskInv, Whole, Exists
    <2>3. \A x \in Range(Recorded), y \in Range(Kinds) :
             Path(y, x, FALSE) \in DOMAIN files' /\ files'[Path(y, x, FALSE)] = files[Path(y, x, FALSE)]
      BY <1>8, <2>2
    <2> QED BY <1>1, <2>1, <2>3, Stays
  <1>10. PICK at \in PCs, j \in Jobs :
            /\ Enter(t, at, j) /\ Placed(at, j)
            /\ j = [job[t] EXCEPT !.at = j.at]
            /\ \/ i < 3 /\ at = "rename" /\ j.at = i + 1
               \/ i = 3 /\ at = "publish" /\ j.at = 1
    BY <1>1, <1>2, Stepped DEF PCs
  <1>11. j.op = job[t].op /\ j.history = job[t].history /\ j.change = job[t].change /\ New(j) = e
    BY <1>2, <1>4, <1>10 DEF Jobs, New
  <1>12. ASSUME NEW m \in 1..3, m # i, NEW b \in BOOLEAN, HasFile(job[t], b, m) PROVE HasFile(j, b, m)'
    <2>1. Kinds[m] # k
      BY <1>2, <1>4, <1>12, KindsAre
    <2>2. Path(Kinds[m], e, b) # f /\ Path(Kinds[m], e, b) # to
      BY <1>6, <2>1
    <2>3. Path(Kinds[m], e, b) \in DOMAIN files /\ files[Path(Kinds[m], e, b)] = j.change
      BY <1>2, <1>11, <1>12 DEF HasFile, Exists
    <2> QED BY <1>8, <1>11, <2>2, <2>3 DEF HasFile, Exists
  <1>13. HasFile(j, FALSE, i)'
    BY <1>2, <1>5, <1>8, <1>11 DEF HasFile, Exists
  <1>14. \A m \in 1..i : HasFile(j, FALSE, m)'
    <2>1. ASSUME NEW m \in 1..i, m # i PROVE HasFile(j, FALSE, m)'
      <3>1. m \in 1..(i - 1) /\ m \in 1..3
        BY <1>4, <2>1
      <3>2. HasFile(job[t], FALSE, m)
        BY <1>2, <1>4, <3>1 DEF WriterHolds, Has
      <3> QED BY <1>12, <2>1, <3>1, <3>2
    <2> QED BY <1>13, <2>1
  <1>15. \A m \in (i + 1)..3 : HasFile(j, TRUE, m)'
    <2>1. ASSUME NEW m \in (i + 1)..3 PROVE HasFile(j, TRUE, m)'
      <3>1. m \in i..3 /\ m \in 1..3 /\ m # i
        BY <1>4
      <3>2. HasFile(job[t], TRUE, m)
        BY <1>2, <1>4, <3>1 DEF WriterHolds, Has
      <3> QED BY <1>12, <3>1, <3>2
    <2> QED BY <2>1
  <1>16. WriterHolds(at, j)'
    <2>1. at = "rename" => Has(j, FALSE, 1, j.at - 1)' /\ Has(j, TRUE, j.at, 3)'
      <3>1. at = "rename" => 1..(j.at - 1) = 1..i /\ j.at..3 = (i + 1)..3
        BY <1>4, <1>10
      <3> QED BY <1>14, <1>15, <3>1 DEF Has
    <2>2. at = "publish" => Has(j, FALSE, 1, 3)'
      BY <1>4, <1>10, <1>14 DEF Has
    <2>3. at \in {"rename", "publish"} /\ at \in Writing
      BY <1>10 DEF Writing
    <2> QED BY <1>1, <1>2, <1>4, <1>9, <1>10, <1>11, <2>1, <2>2, <2>3
            DEF WriterHolds, Inspecting, Loading, Writing
  <1> QED BY <1>3, <1>9, <1>10, <1>16, WriterStep

\* The history takes in the new migration once all its files are in place.
LEMMA PublishStep ==
  ASSUME IInv, SingleWriter, NEW t \in Tasks, Publish(t)
  PROVE  IInv' /\ Kept /\ \E e \in Entries : history' = Append(Recorded, e)
  <1>1. pc[t] = "publish" /\ UNCHANGED <<files, base>> /\ history' = temp /\ temp' = NoHistory
    BY DEF Publish
  <1>2. PICK e, h, n, c : e = New(job[t]) /\ h = Recorded /\ n = job[t].history /\ c = job[t].change
    OBVIOUS
  <1>3. t \in Writers /\ e \in Entries /\ e \notin Range(Recorded)
    BY <1>1, <1>2, NewIsNew DEF Writing
  <1>4. WriterHolds("publish", job[t]) /\ job[t] \in Jobs /\ Numbered(n)
    BY <1>1, <1>2, WriterIs, JobOf DEF Writing, Placed
  <1>5. /\ n = temp /\ n = Append(h, e) /\ e.id = Len(h) + 1 /\ Len(h) < Len(base) /\ n \in Histories
        /\ c \in 1..Len(base) /\ base[c] = LastSql /\ job[t].op \in Origins \cup {"baseline"}
    BY <1>2, <1>4 DEF WriterHolds, Writing, Jobs
  <1>6. h \in Seq(Entries) /\ Len(h) \in Nat
    BY <1>2, RecordedIs DEF IInv
  <1>7. /\ n \in Seq(Entries) /\ n # <<>> /\ Len(n) = Len(h) + 1 /\ Last(n) = e
        /\ \A i \in 1..Len(h) : n[i] = h[i]
        /\ n[Len(h) + 1] = e /\ Range(n) = Range(h) \cup {e}
    BY <1>3, <1>5, <1>6, EntryAppended
  <1>8. Recorded' = n /\ history' = n
    BY <1>1, <1>5, MarksAssumption DEF Recorded
  <1>9. Kept
    <2>1. \A x \in Range(Recorded), k \in Range(Kinds) : Exists(Path(k, x, FALSE))
      BY DEF IInv, DiskInv, Whole
    <2> QED BY <1>1, <1>2, <1>3, <1>5, <1>8, <2>1 DEF Kept, Exists
  <1>10. DiskTypes'
    BY <1>1, <1>5, <1>8 DEF IInv, Types, DiskTypes
  <1>11. SqlOf(e) = c /\ Whole(e)
    <2>1. \A i \in 1..3 : HasFile(job[t], FALSE, i)
      BY <1>4 DEF WriterHolds, Has
    <2>2. \A k \in Range(Kinds) : Exists(Path(k, e, FALSE)) /\ files[Path(k, e, FALSE)] = c
      <3>1. ASSUME NEW k \in Range(Kinds)
            PROVE  Exists(Path(k, e, FALSE)) /\ files[Path(k, e, FALSE)] = c
        <4>1. PICK i \in 1..3 : k = Kinds[i]
          BY KindsAre
        <4> QED BY <1>2, <2>1, <4>1 DEF HasFile
      <3> QED BY <3>1
    <2>3. SqlOf(e) = c
      BY <2>2, KindsAre DEF SqlOf
    <2> QED BY <1>5, <2>2, <2>3 DEF Whole
  <1>12. \A x \in Range(n) : Whole(x)'
    <2>1. \A x \in Range(n) : Whole(x)
      BY <1>2, <1>7, <1>11 DEF IInv, DiskInv
    <2> QED BY <1>1, <2>1 DEF Whole, SqlOf, Exists
  <1>13. \A i \in 1..Len(n) : base[SqlOf(n[i])] = IF i = 1 THEN 0 ELSE SqlOf(n[i - 1])
    <2>1. ASSUME NEW i \in 1..Len(h)
          PROVE  base[SqlOf(n[i])] = IF i = 1 THEN 0 ELSE SqlOf(n[i - 1])
      <3>1. n[i] = h[i] /\ (i # 1 => n[i - 1] = h[i - 1])
        BY <1>6, <1>7
      <3> QED BY <1>2, <3>1 DEF IInv, DiskInv, Ordered
    <2>2. base[SqlOf(e)] = IF Len(h) + 1 = 1 THEN 0 ELSE SqlOf(n[Len(h)])
      <3>1. CASE h = <<>>
        BY <1>2, <1>5, <1>11, <3>1 DEF LastSql
      <3>2. CASE h # <<>>
        <4>1. Len(h) >= 1 /\ Last(h) = n[Len(h)]
          BY <1>6, <1>7, <3>2, SequenceRange
        <4> QED BY <1>2, <1>5, <1>6, <1>11, <3>2, <4>1 DEF LastSql
      <3> QED BY <3>1, <3>2
    <2>3. \A i \in 1..Len(n) : i \in 1..Len(h) \/ i = Len(h) + 1
      BY <1>6, <1>7
    <2>4. (Len(h) + 1) - 1 = Len(h)
      BY <1>6
    <2> QED BY <1>7, <2>1, <2>2, <2>3, <2>4
  <1>14. DiskInv'
    <2>1. Numbered(Recorded)' /\ Len(Recorded') <= Len(base')
      BY <1>1, <1>4, <1>5, <1>6, <1>7, <1>8, Changed DEF Numbered
    <2>2. Ordered(Recorded)'
      BY <1>1, <1>8, <1>13 DEF Ordered, SqlOf
    <2>3. \A x \in Range(Recorded') : Whole(x)'
      BY <1>8, <1>12
    <2> QED BY <2>1, <2>2, <2>3 DEF DiskInv
  <1>15. LastSql' = c
    BY <1>1, <1>7, <1>8, <1>11 DEF LastSql, SqlOf
  <1>16. CASE Return(t)
    BY <1>3, <1>5, <1>2, <1>8, <1>9, <1>10, <1>14, <1>16, WriterReturns
  <1>17. CASE Enter(t, "diff", [job[t] EXCEPT !.from = job[t].change, !.again = FALSE, !.op = "Auto"])
    <2>1. PICK j : j = [job[t] EXCEPT !.from = job[t].change, !.again = FALSE, !.op = "Auto"]
      OBVIOUS
    <2>2. c \in 0..MaxChanges
      BY <1>5, Changed, MaxChangesAssumption
    <2>3. j \in Jobs /\ j.from = c /\ j.history = n /\ j.op = "Auto" /\ j.at = job[t].at
      BY <1>2, <1>4, <2>1, <2>2 DEF Jobs, Origins
    <2>4. Placed("diff", j)
      BY <1>1, <1>4, <2>3, JobOf DEF Placed
    <2>5. WriterHolds("diff", j)'
      BY <1>7, <1>8, <1>15, <2>3 DEF WriterHolds, Inspecting, Loading, Writing, Origins
    <2>6. IInv'
      BY <1>3, <1>9, <1>10, <1>14, <1>17, <2>1, <2>3, <2>4, <2>5, WriterStep DEF PCs
    <2> QED BY <1>2, <1>3, <1>5, <1>8, <1>9, <2>6
  <1> QED BY <1>16, <1>17 DEF Publish

\* CleanUp spares what the history names.
LEMMA CleanUpStep == ASSUME IInv, CleanUp PROVE IInv' /\ Kept
  <1>1. PICK named : named = {f \in DOMAIN files : ~f.temp /\ f.entry \in Range(Recorded)}
    OBVIOUS
  <1>2. /\ \A t \in Writers : pc[t] = "idle"
        /\ files' = [f \in named |-> files[f]] /\ temp' = NoHistory
        /\ UNCHANGED <<history, base, pc, job>>
    BY <1>1 DEF CleanUp
  <1>3. DOMAIN files' \subseteq Paths /\ \A f \in DOMAIN files' : files'[f] \in Changes \cup {Torn}
    BY <1>1, <1>2 DEF IInv, Types, DiskTypes
  <1>4. \A e \in Range(Recorded), k \in Range(Kinds) : Path(k, e, FALSE) \in named
    BY <1>1 DEF IInv, DiskInv, Whole, Exists, Path
  <1>5. Kept /\ DiskTypes' /\ DiskInv' /\ Recorded' = Recorded
    BY <1>2, <1>3, <1>4, Stays
  <1>6. CallTypes'
    BY <1>2 DEF IInv, Types, CallTypes
  <1>7. ASSUME NEW t \in Tasks PROVE CallInv(t)'
    <2>1. t \in Writers => WriterHolds(pc[t], job[t])'
      <3>1. ASSUME t \in Writers PROVE pc'[t] = "idle"
        BY <1>2, <3>1
      <3> QED BY <3>1 DEF WriterHolds, Inspecting, Loading, Writing
    <2>2. t \in Readers => ReaderHolds(pc[t], job[t])'
      BY <1>2, <1>5, JobOf, ReaderWaits DEF IInv, Waits
    <2> QED BY <2>1, <2>2 DEF CallInv
  <1> QED BY <1>5, <1>6, <1>7 DEF IInv, Types

-----------------------------------------------------------------------------
(* The theorems *)

LEMMA IInvInit == Init => IInv
  <1> SUFFICES ASSUME Init PROVE IInv
    OBVIOUS
  <1>1. Recorded = <<>> /\ Range(Recorded) = {} /\ Len(Recorded) = 0
    BY SequenceRange DEF Init, Recorded, Range
  <1>2. Types
    <2>1. DiskTypes
      BY MaxChangesAssumption DEF Init, DiskTypes
    <2>2. CallTypes
      BY IdleHolds, NoJobIsJob DEF Init, CallTypes, PCs
    <2> QED BY <2>1, <2>2 DEF Types
  <1>3. DiskInv
    BY <1>1, MaxChangesAssumption DEF Init, DiskInv, Numbered, Ordered
  <1>4. \A t \in Tasks : CallInv(t)
    BY IdleHolds DEF Init, CallInv, Tasks
  <1> QED BY <1>2, <1>3, <1>4 DEF IInv

\* Every step keeps the invariant, and what has been published.
LEMMA StepKeeps ==
  ASSUME SingleWriter, IInv, [Next]_vars
  PROVE  /\ IInv' /\ Kept
         /\ history' = history \/ \E e \in Entries : history' = Append(Recorded, e)
  <1>1. CASE UNCHANGED vars
    <2>1. UNCHANGED OnDisk /\ UNCHANGED base /\ UNCHANGED pc /\ UNCHANGED job
      BY <1>1 DEF vars, OnDisk
    <2>2. Kept /\ Recorded' = Recorded /\ DiskTypes' /\ CallTypes' /\ Longer
      BY <2>1, QuietKept DEF IInv, Types, DiskTypes, CallTypes, OnDisk, Longer
    <2>3. DiskInv'
      BY <2>1, <2>2, Changed, KeptDisk DEF IInv
    <2>4. ASSUME NEW t \in Tasks PROVE CallInv(t)'
      <3>1. PICK a, i : a = pc[t] /\ i = job[t]
        OBVIOUS
      <3>2. (t \in Writers => WriterHolds(a, i)') /\ (t \in Readers => ReaderHolds(a, i)')
        BY <2>1, <3>1, JobOf, HoldsStill
      <3> QED BY <2>1, <3>1, <3>2 DEF CallInv
    <2> QED BY <2>1, <2>2, <2>3, <2>4 DEF IInv, Types, OnDisk
  <1>2. CASE CleanUp
    BY <1>2, CleanUpStep DEF CleanUp
  <1>3. ASSUME NEW t \in Tasks,
               \/ Call(t) \/ InspectFiles(t) \/ InspectHistory(t) \/ InspectNames(t) \/ InspectSnapshots(t)
               \/ ReadHistory(t) \/ ReadSql(t) \/ ReadRollback(t) \/ Loaded(t) \/ CheckPaths(t) \/ Stop(t)
        PROVE  IInv' /\ Kept /\ history' = history
    <2>1. UNCHANGED <<OnDisk, base>>
      BY <1>3 DEF Call, InspectFiles, InspectHistory, InspectNames, InspectSnapshots, ReadHistory, ReadSql,
                  ReadRollback, Loaded, CheckPaths, Stop
    <2>2. CASE Loaded(t) \/ Stop(t)
      BY <2>1, <2>2, QuietReturn DEF Loaded, Stop, OnDisk
    <2> QED BY <1>3, <2>1, <2>2, CallStep, InspectFilesStep, InspectHistoryStep, InspectNamesStep,
               InspectSnapshotsStep, ReadHistoryStep, ReadSqlStep, ReadRollbackStep, CheckPathsStep DEF OnDisk
  <1>4. ASSUME NEW t \in Tasks, Diff(t) \/ Write(t) \/ WriteHistory(t) \/ Rename(t)
        PROVE  IInv' /\ Kept /\ history' = history
    <2>1. history' = history
      BY <1>4 DEF Diff, Write, WriteHistory, Rename, OnDisk
    <2> QED BY <1>4, <2>1, DiffStep, WriteStep, WriteHistoryStep, RenameStep
  <1>5. ASSUME NEW t \in Tasks, Publish(t)
        PROVE  IInv' /\ Kept /\ \E e \in Entries : history' = Append(Recorded, e)
    BY <1>5, PublishStep
  <1> QED BY <1>1, <1>2, <1>3, <1>4, <1>5 DEF Next

LEMMA Invariant ==
  ASSUME SingleWriter
  PROVE  Spec => []IInv
  <1>1. IInv /\ [Next]_vars => IInv'
    BY StepKeeps
  <1> QED BY <1>1, IInvInit, PTL DEF Spec

LEMMA InvariantIsTyped == IInv => TypeOK
  <1> SUFFICES ASSUME IInv PROVE TypeOK
    OBVIOUS
  <1>1. Len(base) <= MaxChanges /\ \A c \in DOMAIN base : base[c] \in 0..MaxChanges
    <2>1. base \in Seq(0..MaxChanges) /\ Len(base) <= MaxChanges
      BY DEF IInv, Types, DiskTypes
    <2>2. DOMAIN base = 1..Len(base) /\ \A c \in 1..Len(base) : base[c] \in 0..MaxChanges
      <3>1. PICK b, S : b = base /\ S = 0..MaxChanges
        OBVIOUS
      <3>2. b \in Seq(S)
        BY <2>1, <3>1
      <3>3. DOMAIN b = 1..Len(b) /\ \A c \in 1..Len(b) : b[c] \in S
        BY <3>2
      <3> QED BY <3>1, <3>3
    <2> QED BY <2>1, <2>2
  <1>2. ASSUME NEW t \in Tasks
        PROVE  /\ job[t].history \in Histories
               /\ job[t].at \in 1..(IF pc[t] = "list" \/ pc[t] = "write" \/ pc[t] = "rename" THEN 3 ELSE MaxChanges + 1)
    <2>1. job[t].history \in Histories /\ Len(job[t].history) \in 0..MaxChanges
      BY JobOf, HistoriesAre, MaxChangesAssumption DEF Jobs
    <2>2. Placed(pc[t], job[t])
      BY JobOf
    <2> QED BY <2>1, <2>2, MaxChangesAssumption DEF Placed
  <1>3. pc \in [Tasks -> PCs] /\ DOMAIN job = Tasks
    BY DEF IInv, Types, CallTypes
  <1> QED BY <1>1, <1>2, <1>3 DEF IInv, Types, DiskTypes, TypeOK

\* With one writer every file, history and call is of its type (TypeOK).
THEOREM TypeCorrect ==
  ASSUME SingleWriter
  PROVE  Spec => []TypeOK
  BY Invariant, InvariantIsTyped, PTL

\* With one writer the history never names a migration whose files are missing, torn or
\* of different changes, wherever a call has ended (write_generated, publish).
THEOREM HistoryIsWhole ==
  ASSUME SingleWriter
  PROVE  Spec => []LineageIsWhole
  <1>1. IInv => LineageIsWhole
    <2> SUFFICES ASSUME IInv, NEW e \in Range(Recorded)
                 PROVE  /\ \A k \in Range(Kinds) : Exists(Path(k, e, FALSE))
                        /\ Cardinality(Contents(e)) = 1 /\ Torn \notin Contents(e)
      BY DEF LineageIsWhole
    <2>1. Whole(e)
      BY DEF IInv, DiskInv
    <2>2. \A f \in DOMAIN files : f.entry = e /\ ~f.temp => f = Path(f.kind, e, FALSE) /\ f.kind \in Range(Kinds)
      BY DEF IInv, Types, DiskTypes, Paths, Path
    <2>3. Contents(e) = {SqlOf(e)}
      <3>1. \A f \in DOMAIN files : f.entry = e /\ ~f.temp => files[f] = SqlOf(e)
        BY <2>1, <2>2 DEF Whole
      <3>2. PICK f : f = Path("migrations", e, FALSE)
        OBVIOUS
      <3>3. f \in DOMAIN files /\ f.entry = e /\ ~f.temp
        BY <2>1, <3>2, KindsAre DEF Whole, Exists, Path
      <3> QED BY <3>1, <3>3 DEF Contents
    <2>4. SqlOf(e) \in Changes
      BY <2>1, Changed, MaxChangesAssumption DEF Whole, Changes
    <2> QED BY <2>1, <2>3, <2>4, FS_Singleton, MarksAssumption DEF Whole
  <1> QED BY <1>1, Invariant, PTL

\* With one writer the SQL of the lineage can be replayed from the empty schema on:
\* each migration starts where its predecessor ends (generate_internal, latest_schema).
THEOREM HistoryIsReplayable ==
  ASSUME SingleWriter
  PROVE  Spec => []LineageIsReplayable
  <1>1. IInv => LineageIsReplayable
    <2> SUFFICES ASSUME IInv PROVE LineageIsReplayable
      OBVIOUS
    <2>1. Recorded \in Seq(Entries) /\ DOMAIN Recorded = 1..Len(Recorded) /\ Len(Recorded) \in Nat
      BY RecordedIs DEF IInv
    <2>2. Ordered(Recorded)
      BY DEF IInv, DiskInv
    <2>3. \A i \in 1..Len(Recorded) : i # 1 => i - 1 \in 1..Len(Recorded)
      BY <2>1
    <2> QED BY <2>1, <2>2, <2>3 DEF LineageIsReplayable, Replayable, Ordered
  <1> QED BY <1>1, Invariant, PTL

\* What any reader loads, at whatever point of a generate, is an initial segment of the
\* lineage with its rollbacks (inspect_state, load).
THEOREM ReadersLoadWhole ==
  ASSUME SingleWriter
  PROVE  Spec => []LoadedIsWhole
  <1>1. IInv => LoadedIsWhole
    <2> SUFFICES ASSUME IInv, NEW t \in Readers, pc[t] = "loaded"
                 PROVE  /\ Len(job[t].loaded) >= 1
                        /\ \A i \in DOMAIN job[t].loaded :
                              /\ job[t].loaded[i].rollback = job[t].loaded[i].sql
                              /\ SqlOf(Recorded[i]) = job[t].loaded[i].sql
      BY DEF LoadedIsWhole
    <2>1. ReaderHolds("loaded", job[t]) /\ job[t] \in Jobs /\ Placed("loaded", job[t])
      BY JobOf DEF Tasks
    <2>2. job[t].loaded \in Seq(Reads) /\ job[t].history \in Seq(Entries)
      BY <2>1, HistoriesAre DEF Jobs
    <2>3. Len(job[t].loaded) = Len(job[t].history) /\ Len(job[t].history) >= 1
      BY <2>1, <2>2, SequenceRange DEF ReaderHolds, Loading, Placed
    <2>4. DOMAIN job[t].loaded = 1..Len(job[t].loaded)
      BY <2>2
    <2> QED BY <2>1, <2>3, <2>4 DEF ReaderHolds, Loading
  <1> QED BY <1>1, Invariant, PTL

\* A published migration is final, whatever generate, baseline or CleanUp do later.
THEOREM Final ==
  ASSUME SingleWriter
  PROVE  Spec => HistoryIsFinal
  <1> DEFINE F ==
        /\ history' = history \/ \E e \in Entries : history' = Append(Recorded, e)
        /\ \A f \in DOMAIN files : ~f.temp /\ f.entry \in Range(Recorded) =>
              f \in DOMAIN files' /\ files'[f] = files[f]
  <1>1. IInv /\ [Next]_vars => [F]_vars
    <2> SUFFICES ASSUME IInv, [Next]_vars PROVE F
      OBVIOUS
    <2>1. Kept /\ (history' = history \/ \E e \in Entries : history' = Append(Recorded, e))
      BY StepKeeps
    <2>2. \A f \in DOMAIN files : ~f.temp => f = Path(f.kind, f.entry, FALSE) /\ f.kind \in Range(Kinds)
      BY DEF IInv, Types, DiskTypes, Paths, Path
    <2> QED BY <2>1, <2>2 DEF Kept, Exists
  <1>2. Spec => [][F]_vars
    BY <1>1, Invariant, PTL DEF Spec
  <1> QED BY <1>2 DEF HistoryIsFinal
=============================================================================
