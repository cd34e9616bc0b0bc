--------------------------- MODULE ArtifactStore ---------------------------
(***************************************************************************)
(* The artifact directory of one source: migration/artifact.rs and the     *)
(* callers of it in migration/manager.rs.  generate and baseline write the *)
(* SQL, rollback and snapshot of a new migration to temporary files, then  *)
(* the extended history, and rename the four one by one.  apply and        *)
(* rollback inspect the directory and load it file by file; nothing locks  *)
(* them out.  A call can end between any two steps, by an error or with    *)
(* its process, and leaves behind what it has written.                     *)
(*                                                                         *)
(* The content of a file is the number of the schema change it was         *)
(* generated for; a write that fails halfway leaves a Torn file.           *)
(***************************************************************************)
EXTENDS Naturals, Sequences, FiniteSets, SequencesExt

CONSTANTS
    Writers,        \* tasks that call generate and baseline
    Readers,        \* tasks that load the artifacts
    Slugs,          \* names given to generate
    BaselineSlug,   \* "observed_schema_baseline"
    MaxChanges,     \* bound on the schema changes written
    NoHistory, Torn

ASSUME TasksAssumption == Writers \cap Readers = {}
ASSUME MaxChangesAssumption == MaxChanges \in Nat \ {0}

Tasks == Writers \cup Readers
Kinds == <<"migrations", "rollbacks", "snapshots">>
Entries == [id : 1..MaxChanges, slug : Slugs \cup {BaselineSlug}]
\* A published file or its temporary file.
Paths == [kind : Range(Kinds), entry : Entries, temp : BOOLEAN]
Changes == 1..MaxChanges
Histories == BoundedSeq(Entries, MaxChanges)
Origins == {"Auto", "Empty", "LatestSnapshot", "LiveDatabase"}

ASSUME MarksAssumption == NoHistory \notin Histories /\ Torn \notin Changes

VARIABLES
    files,      \* path -> content, for the files that exist
    history,    \* history.toml
    temp,       \* .history.toml.tmp
    base,       \* base[c]: the change whose schema the SQL of change c starts from (0: the empty schema)
    pc, job     \* task -> where it is, what it holds

vars == <<files, history, temp, base, pc, job>>

PCs == {"idle", "has_files", "history", "list", "snapshots", "read", "diff", "check",
        "write", "write_history", "rename", "publish", "read_sql", "read_rollback", "loaded"}
NoJob == [op |-> "none", ready |-> FALSE, history |-> <<>>, at |-> 1,
          from |-> 0, change |-> 0, again |-> FALSE, loaded |-> <<>>]

TypeOK ==
    /\ DOMAIN files \subseteq Paths
    /\ \A f \in DOMAIN files : files[f] \in Changes \cup {Torn}
    /\ history \in Histories \cup {NoHistory}
    /\ temp \in Histories \cup {NoHistory, Torn}
    /\ Len(base) <= MaxChanges /\ \A c \in DOMAIN base : base[c] \in 0..MaxChanges
    /\ pc \in [Tasks -> PCs]
    /\ DOMAIN job = Tasks
    /\ \A t \in Tasks :
          /\ job[t].history \in Histories
          /\ job[t].at \in 1..(IF pc[t] = "list" \/ pc[t] = "write" \/ pc[t] = "rename" THEN 3 ELSE MaxChanges + 1)

-----------------------------------------------------------------------------
Path(k, e, t) == [kind |-> k, entry |-> e, temp |-> t]
Exists(f) == f \in DOMAIN files
Put(f, content) == [g \in DOMAIN files \cup {f} |-> IF g = f THEN content ELSE files[g]]
\* A rename replaces what is there.
Renamed(f) ==
    LET to == [f EXCEPT !.temp = FALSE] IN
    [g \in (DOMAIN files \ {f}) \cup {to} |-> IF g = to THEN files[f] ELSE files[g]]

\* file_names looks at one extension; a temporary file has another.
FileNames(k) == {f.entry : f \in {g \in DOMAIN files : g.kind = k /\ ~g.temp}}
HasFiles(k) == \E f \in DOMAIN files : f.kind = k
Recorded == IF history = NoHistory THEN <<>> ELSE history

Goto(t, at) == pc' = [pc EXCEPT ![t] = at] /\ UNCHANGED job
Enter(t, at, j) == pc' = [pc EXCEPT ![t] = at] /\ job' = [job EXCEPT ![t] = j]
Return(t) == Enter(t, "idle", NoJob)
OnDisk == <<files, history, temp>>

-----------------------------------------------------------------------------
(* inspect_state *)

Call(t) ==
    /\ pc[t] = "idle"
    /\ \E op \in IF t \in Readers THEN {"load"} ELSE Origins \cup {"baseline"} :
          Enter(t, "has_files", [NoJob EXCEPT !.op = op])
    /\ UNCHANGED <<OnDisk, base>>

\* Mutant: any operation on any lineage.
AllowsAny(op, ready) == TRUE
\* What each operation makes of the verdict: Ready, or nothing there yet.
Allows(op, ready) ==
    \/ op \in {"Auto", "LiveDatabase"}
    \/ op \in {"load", "LatestSnapshot"} /\ ready
    \/ op \in {"Empty", "baseline"} /\ ~ready

\* The directories of migrations and snapshots are looked into first: without a
\* history any file in them, a temporary one too, makes the lineage Partial.
InspectFiles(t) ==
    /\ pc[t] = "has_files"
    /\ Enter(t, "history", [job[t] EXCEPT !.ready = HasFiles("migrations") \/ HasFiles("snapshots")])
    /\ UNCHANGED <<OnDisk, base>>

InspectHistory(t) ==
    /\ pc[t] = "history"
    /\ \/ Recorded = <<>> /\ ~job[t].ready /\ Allows(job[t].op, FALSE) /\ Goto(t, "read")
       \/ Recorded = <<>> /\ (job[t].ready \/ ~Allows(job[t].op, FALSE)) /\ Return(t)
       \/ Recorded # <<>> /\ Enter(t, "list", [job[t] EXCEPT !.history = Recorded])
    /\ UNCHANGED <<OnDisk, base>>

\* The listings of the three directories, in this order, against the history.
Listing == <<"rollbacks", "migrations", "snapshots">>
InspectNames(t) ==
    LET k == Listing[job[t].at]
        fits == IF k = "rollbacks" THEN FileNames(k) \subseteq Range(job[t].history)
                ELSE FileNames(k) = Range(job[t].history)
    IN
    /\ pc[t] = "list"
    /\ \/ fits /\ job[t].at < 3 /\ Enter(t, "list", [job[t] EXCEPT !.at = @ + 1])
       \/ fits /\ job[t].at = 3 /\ Enter(t, "snapshots", [job[t] EXCEPT !.at = 1])
       \/ ~fits /\ Return(t)
    /\ UNCHANGED <<OnDisk, base>>

\* Entry by entry: both files are there and the snapshot can be parsed.
InspectSnapshots(t) ==
    LET e == job[t].history[job[t].at]
        sound == /\ Exists(Path("migrations", e, FALSE)) /\ Exists(Path("snapshots", e, FALSE))
                 /\ files[Path("snapshots", e, FALSE)] # Torn
        last == job[t].at = Len(job[t].history)
    IN
    /\ pc[t] = "snapshots"
    /\ \/ sound /\ ~last /\ Enter(t, "snapshots", [job[t] EXCEPT !.at = @ + 1])
       \/ sound /\ last /\ Allows(job[t].op, TRUE)
          /\ Enter(t, "read", [job[t] EXCEPT !.ready = TRUE, !.at = 1])
       \/ ~(sound /\ (last => Allows(job[t].op, TRUE))) /\ Return(t)
    /\ UNCHANGED <<OnDisk, base>>

-----------------------------------------------------------------------------
(* MigrationArtifactSet::load *)

\* The history is read anew; baseline starts a new one.
ReadHistory(t) ==
    /\ pc[t] = "read"
    /\ Enter(t, IF job[t].op # "load" THEN "diff" ELSE IF Recorded = <<>> THEN "loaded" ELSE "read_sql",
             [job[t] EXCEPT !.history = IF job[t].op = "baseline" THEN <<>> ELSE Recorded])
    /\ UNCHANGED <<OnDisk, base>>

ReadSql(t) ==
    LET f == Path("migrations", job[t].history[job[t].at], FALSE) IN
    /\ pc[t] = "read_sql"
    /\ Exists(f) /\ Enter(t, "read_rollback", [job[t] EXCEPT !.change = files[f]])
    /\ UNCHANGED <<OnDisk, base>>

\* A migration without a rollback file loads as one that cannot be rolled back.
ReadRollback(t) ==
    LET f == Path("rollbacks", job[t].history[job[t].at], FALSE)
        read == [sql |-> job[t].change, rollback |-> IF Exists(f) THEN files[f] ELSE 0]
    IN
    /\ pc[t] = "read_rollback"
    /\ Enter(t, IF job[t].at = Len(job[t].history) THEN "loaded" ELSE "read_sql",
             [job[t] EXCEPT !.loaded = Append(@, read), !.at = @ + 1])
    /\ UNCHANGED <<OnDisk, base>>

Loaded(t) ==
    /\ pc[t] = "loaded" /\ Return(t)
    /\ UNCHANGED <<OnDisk, base>>

-----------------------------------------------------------------------------
(* generate_internal, baseline *)

\* Mutant: the schema of the first snapshot.
FirstSchema(t) ==
    IF job[t].history = <<>> THEN 0 ELSE files[Path("snapshots", Head(job[t].history), FALSE)]
\* latest_schema
LatestSchema(t) ==
    IF job[t].history = <<>> THEN 0 ELSE files[Path("snapshots", Last(job[t].history), FALSE)]

NewChange(t, from) ==
    /\ Len(base) < MaxChanges
    /\ base' = Append(base, from)

\* The differ: there may be nothing to write.  LiveDatabase on an empty lineage
\* first writes the observed schema as a baseline, unless that is empty.
Diff(t) ==
    LET c == Len(base) + 1
        observes == job[t].op = "LiveDatabase" /\ ~job[t].ready
        from == IF job[t].ready THEN LatestSchema(t) ELSE job[t].from
    IN
    /\ pc[t] = "diff"
    /\ \/ Return(t) /\ UNCHANGED base
       \/ NewChange(t, from)
          /\ \E again \in {FALSE, observes} :
                Enter(t, "check", [job[t] EXCEPT !.change = c, !.again = again])
    /\ UNCHANGED OnDisk

(* write_generated *)

\* Mutant: the first id is zero.
NextIdFromZero(h) == IF h = <<>> THEN 0 ELSE Last(h).id + 1
NextId(h) == IF h = <<>> THEN 1 ELSE Last(h).id + 1

\* No file of the new migration and no temporary file may exist.
CheckPaths(t) ==
    /\ pc[t] = "check"
    /\ \E slug \in IF job[t].again THEN {BaselineSlug} ELSE Slugs :
          LET e == [id |-> NextId(job[t].history), slug |-> slug]
              taken == temp # NoHistory \/ \E k \in Range(Kinds), b \in BOOLEAN : Exists(Path(k, e, b))
          IN
          \/ ~taken /\ Enter(t, "write", [job[t] EXCEPT !.history = Append(@, e), !.at = 1])
          \/ taken /\ Return(t)
    /\ UNCHANGED <<OnDisk, base>>

NewFile(t) == Path(Kinds[job[t].at], Last(job[t].history), TRUE)
Step(t, next) ==
    IF job[t].at < 3 THEN Enter(t, pc[t], [job[t] EXCEPT !.at = @ + 1])
    ELSE Enter(t, next, [job[t] EXCEPT !.at = 1])

\* Mutant: errors of a write are ignored.
WriteAnyway(t) ==
    /\ pc[t] = "write"
    /\ \E content \in {job[t].change, Torn} : files' = Put(NewFile(t), content)
    /\ Step(t, "write_history")
    /\ UNCHANGED <<history, temp, base>>

Write(t) ==
    /\ pc[t] = "write"
    /\ \/ files' = Put(NewFile(t), job[t].change) /\ Step(t, "write_history")
       \/ files' = Put(NewFile(t), Torn) /\ Return(t)
    /\ UNCHANGED <<history, temp, base>>

WriteHistory(t) ==
    /\ pc[t] = "write_history"
    /\ \/ temp' = job[t].history /\ Goto(t, "rename")
       \/ temp' = Torn /\ Return(t)
    /\ UNCHANGED <<files, history, base>>

\* Mutant: the history is renamed before the rollback and the snapshot.
RenameTooFew(t) ==
    /\ pc[t] = "rename"
    /\ files' = Renamed(NewFile(t)) /\ Enter(t, "publish", [job[t] EXCEPT !.at = 1])
    /\ UNCHANGED <<history, temp, base>>

Rename(t) ==
    /\ pc[t] = "rename"
    /\ Exists(NewFile(t))
    /\ files' = Renamed(NewFile(t)) /\ Step(t, "publish")
    /\ UNCHANGED <<history, temp, base>>

\* After a baseline the change to the current schema follows.
Publish(t) ==
    /\ pc[t] = "publish"
    /\ temp # NoHistory
    /\ history' = temp /\ temp' = NoHistory
    /\ \/ job[t].again
          /\ Enter(t, "diff", [job[t] EXCEPT !.from = job[t].change, !.again = FALSE, !.op = "Auto"])
       \/ ~job[t].again /\ Return(t)
    /\ UNCHANGED <<files, base>>

\* The call ends here, with an error (a file it needs is gone, say) or with its process.
Stop(t) ==
    /\ pc[t] # "idle" /\ Return(t)
    /\ UNCHANGED <<OnDisk, base>>

\* The operator removes what an ended call has left: temporary files and files
\* the history does not name.
CleanUp ==
    LET named == {f \in DOMAIN files : ~f.temp /\ f.entry \in Range(Recorded)} IN
    /\ \A t \in Writers : pc[t] = "idle"
    /\ DOMAIN files # named \/ temp # NoHistory
    /\ files' = [f \in named |-> files[f]]
    /\ temp' = NoHistory
    /\ UNCHANGED <<history, base, pc, job>>

Init ==
    /\ files = <<>> /\ base = <<>>
    /\ history = NoHistory /\ temp = NoHistory
    /\ pc = [t \in Tasks |-> "idle"]
    /\ job = [t \in Tasks |-> NoJob]

Next ==
    \/ \E t \in Tasks :
          \/ Call(t) \/ InspectFiles(t) \/ InspectHistory(t) \/ InspectNames(t) \/ InspectSnapshots(t)
          \/ ReadHistory(t) \/ ReadSql(t) \/ ReadRollback(t) \/ Loaded(t)
          \/ Diff(t) \/ CheckPaths(t) \/ Write(t) \/ WriteHistory(t) \/ Rename(t) \/ Publish(t) \/ Stop(t)
    \/ CleanUp

Spec == Init /\ [][Next]_vars

-----------------------------------------------------------------------------
(* Properties *)

Contents(e) == {files[f] : f \in {g \in DOMAIN files : g.entry = e /\ ~g.temp}}
SqlOf(e) == files[Path("migrations", e, FALSE)]

\* Design document, "Artifact 与原子性": the history is replaced only after its
\* companion files are in place, whatever call ended where (write_generated).
LineageIsWhole ==
    \A e \in Range(Recorded) :
        /\ \A k \in Range(Kinds) : Exists(Path(k, e, FALSE))
        /\ Cardinality(Contents(e)) = 1 /\ Torn \notin Contents(e)

\* The lineage can be replayed: the SQL of each migration starts from the schema
\* its predecessor leads to, the first from nothing (generate_internal, latest_schema).
Replayable(changes) ==
    \A i \in DOMAIN changes : base[changes[i]] = IF i = 1 THEN 0 ELSE changes[i - 1]
LineageIsReplayable == Replayable([i \in DOMAIN Recorded |-> SqlOf(Recorded[i])])

\* What apply and rollback load next to a running or broken-off generate is an
\* initial segment of the lineage, complete with its rollbacks (inspect_state, load).
LoadedIsWhole ==
    \A t \in Readers : pc[t] = "loaded" =>
        /\ Len(job[t].loaded) >= 1
        /\ \A i \in DOMAIN job[t].loaded :
              /\ job[t].loaded[i].rollback = job[t].loaded[i].sql
              /\ SqlOf(Recorded[i]) = job[t].loaded[i].sql

\* A published migration is final: a step extends the history by one entry or
\* leaves it, and never touches a file the history names.
HistoryIsFinal ==
    [][/\ history' = history \/ \E e \in Entries : history' = Append(Recorded, e)
       /\ \A f \in DOMAIN files : ~f.temp /\ f.entry \in Range(Recorded) =>
             f \in DOMAIN files' /\ files'[f] = files[f]]_vars
=============================================================================
