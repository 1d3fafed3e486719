------------------------------ MODULE Persistence ------------------------------
(***************************************************************************)
(* The life of a server with an append-only file (server.py): it loads a   *)
(* snapshot, replays the file in chunks, serves commands, appends writes   *)
(* to the file, and dies at any moment, also in the middle of an append,   *)
(* to be started again.                                                    *)
(*                                                                         *)
(* A command is executed and answered before it is appended, and then the  *)
(* process may die (pending).  What the operating system has of the file   *)
(* is taken to survive: nothing is said of a machine that crashes.  The    *)
(* snapshot is written by others and does not change.                      *)
(***************************************************************************)
EXTENDS WriteLog, RdbLoader

CONSTANTS Workload,      \* the commands that are run
          WordsOf(_),    \* the words, as bytes, in which a command is sent,
          CommandOf(_),  \* and the command that words are taken for
          Snapshots,     \* the snapshot files, as bytes or None for no file,
                         \* with the data they hold, None if they are no
                         \* snapshot, and the expiry times of the keys
          ChunkSizes,    \* how much of the file is read at once (4096)
          Cuts,          \* bound: what an append that fails has written
          MaxRecords,    \* bound: this many records are appended
          MaxVersion,    \* bound: no key is written more often in one life
          MaxTime        \* bound: the clock stops here

(* A command is taken for itself when the words it is sent in are read.    *)
ASSUME LogInputs ==
  /\ Workload \subseteq Command /\ None \notin Workload
  /\ \A cmd \in Workload : /\ WordsOf(cmd) \in Seq(Seq(0..255)) \ {<<>>}
                           /\ CommandOf(WordsOf(cmd)) = cmd
  /\ ChunkSizes \subseteq Nat \ {0}
  /\ Cuts \subseteq Nat

SetWord == <<83, 69, 84>>

(* A pair of a snapshot is the SET of its two words.                       *)
ASSUME SnapshotInputs ==
  \A s \in Snapshots : s.file # None /\ LoadRdb(s.file).ok =>
    LET items == LoadRdb(s.file).items
    IN  /\ items \in Seq(ToSet(items))
        /\ \A item \in ToSet(items) :
             LET cmd == CommandOf(<<SetWord, item[1], item[2]>>)
             IN  cmd \in Command /\ cmd.op = "SET" /\ cmd.ttl = None

VARIABLES db, now,
          stage,     \* "down", "loading", "serving", or "failed" to start
          snapshot,
          log,       \* the append-only file
          chunk,     \* the size of the reads of this start
          offset,    \* how much of the file has been read
          buf,       \* the reader's buffer
          pending,   \* the write that is answered and not appended, or None
          \* History variables.
          replayed,  \* the commands replayed by this start
          records,   \* the records appended, with the data they stood for
          clean,     \* the keys that replay should rebuild
          spoiled    \* a record was appended behind a torn one

vars == <<db, now, stage, snapshot, log, chunk, offset, buf, pending,
          replayed, records, clean, spoiled>>

Record == [cmd : Command, data : [Key -> Value \cup {None}], clean : SUBSET Key]

TypeOK ==
  /\ db \in DB
  /\ now \in Nat
  /\ stage \in {"down", "loading", "serving", "failed"}
  /\ log \in Seq(0..255) /\ buf \in Seq(0..255)
  /\ chunk \in ChunkSizes /\ offset \in 0..Len(log)
  /\ pending \in Workload \cup {None}
  /\ pending # None => stage = "serving"
  /\ replayed \in Seq(Command)
  /\ records \in Seq(Record)
  /\ clean \subseteq Key /\ spoiled \in BOOLEAN

Init ==
  /\ db = EmptyDB
  /\ now = 0
  /\ stage = "down"
  /\ snapshot \in Snapshots
  /\ log = <<>>
  /\ chunk \in ChunkSizes
  /\ offset = 0 /\ buf = <<>>
  /\ pending = None
  /\ replayed = <<>>
  /\ records = <<>>
  /\ clean = Key /\ spoiled = FALSE

Logged == [i \in DOMAIN records |-> records[i].cmd]
Whole == FlattenSeq([i \in DOMAIN records |-> Encode(WordsOf(records[i].cmd))])

(* The file ends within a record.                                          *)
Torn == Len(log) > Len(Whole)

(* All that is not in a file is gone.                                      *)
Dies == stage' = "down" /\ db' = EmptyDB

-----------------------------------------------------------------------------
(* The start.                                                              *)

(* load_rdb sets the pairs it reads one after the other.                   *)
Loads == snapshot.file = None \/ LoadRdb(snapshot.file).ok

Loaded ==
  IF snapshot.file = None THEN EmptyDB
  ELSE FoldLeft(LAMBDA d, item :
                  Dispatch(d, now, CommandOf(<<SetWord, item[1], item[2]>>)).db,
                EmptyDB, LoadRdb(snapshot.file).items)

Start ==
  /\ stage \in {"down", "failed"}
  /\ stage' = IF Loads THEN "loading" ELSE "failed"
  /\ db' = IF Loads THEN Loaded ELSE EmptyDB
  /\ chunk' \in ChunkSizes
  /\ offset' = 0
  /\ buf' = <<>>
  /\ replayed' = <<>>
  /\ UNCHANGED <<now, snapshot, log, pending, records, clean, spoiled>>

(* Variant: a chunk takes the place of what was left of the last one.      *)
FeedAfresh ==
  /\ stage = "loading"
  /\ TryParse(buf) = More
  /\ offset < Len(log)
  /\ LET n == Lesser(chunk, Len(log) - offset)
     IN  /\ buf' = SubSeq(log, offset + 1, offset + n)
         /\ offset' = offset + n
  /\ UNCHANGED <<db, now, stage, snapshot, log, chunk, pending, replayed,
                 records, clean, spoiled>>

(* Variant: the end of the file may lie within the chunk.                  *)
FeedPastTheEnd ==
  /\ stage = "loading"
  /\ TryParse(buf) = More
  /\ offset < Len(log)
  /\ LET n == Lesser(chunk, Len(log) - offset)
     IN  /\ buf' = buf \o SubSeq(log, offset + 1, offset + n)
         /\ offset' = offset + chunk
  /\ UNCHANGED <<db, now, stage, snapshot, log, chunk, pending, replayed,
                 records, clean, spoiled>>

Feed ==
  /\ stage = "loading"
  /\ TryParse(buf) = More
  /\ offset < Len(log)
  /\ LET n == Lesser(chunk, Len(log) - offset)
     IN  /\ buf' = buf \o SubSeq(log, offset + 1, offset + n)
         /\ offset' = offset + n
  /\ UNCHANGED <<db, now, stage, snapshot, log, chunk, pending, replayed,
                 records, clean, spoiled>>

(* The next complete command is run; its reply is thrown away, but nothing *)
(* catches what it raises.                                                 *)
Replay ==
  /\ stage = "loading"
  /\ TryParse(buf).kind = "command"
  /\ LET found == TryParse(buf)
         cmd == CommandOf(found.words)
         r == Dispatch(db, now, cmd)
     IN  /\ buf' = found.rest
         /\ IF found.words = <<>>
              THEN UNCHANGED <<db, stage, replayed>>
              ELSE /\ db' = r.db
                   /\ stage' = IF r.reply = Raise THEN "failed" ELSE stage
                   /\ replayed' = Append(replayed, cmd)
  /\ UNCHANGED <<now, snapshot, log, chunk, offset, pending, records, clean, spoiled>>

(* The reader raises; RESPParseError is not caught here either.            *)
ReplayRaises ==
  /\ stage = "loading"
  /\ TryParse(buf) \in {Malformed, Raised}
  /\ stage' = "failed"
  /\ UNCHANGED <<db, now, snapshot, log, chunk, offset, buf, pending, replayed,
                 records, clean, spoiled>>

(* The file is read to its end; an incomplete command in the buffer is     *)
(* dropped with the reader, and stays in the file.                         *)
Exhausted == stage = "loading" /\ TryParse(buf) = More /\ offset = Len(log)

Serve ==
  /\ Exhausted
  /\ stage' = "serving"
  /\ offset' = 0 /\ buf' = <<>> /\ replayed' = <<>>
  /\ UNCHANGED <<db, now, snapshot, log, chunk, pending, records, clean, spoiled>>

-----------------------------------------------------------------------------
(* Serving.                                                                *)

MayExecute ==
  /\ stage = "serving"
  /\ pending = None
  /\ Len(records) < MaxRecords
  /\ ~spoiled  \* bound: nothing more is run behind a garbled record
  /\ \A k \in Key : db.versions[k] < MaxVersion

(* A command is run and answered.                                          *)
Execute(cmd) ==
  /\ MayExecute
  /\ LET r == Dispatch(db, now, cmd)
     IN  /\ IF r.reply = Raise THEN Dies ELSE db' = r.db /\ UNCHANGED stage
         /\ pending' = IF PassedOn(cmd, r.reply) THEN cmd ELSE None
  /\ UNCHANGED <<now, snapshot, log, chunk, offset, buf, replayed, records,
                 clean, spoiled>>

(* EXEC runs a command, or BLPOP pops: this is appended nowhere.           *)
ExecuteOnly(cmd) ==
  /\ MayExecute
  /\ cmd.key \in clean  \* bound: once for a key
  /\ LET r == Dispatch(db, now, cmd)
     IN  /\ IF r.reply = Raise THEN Dies ELSE db' = r.db /\ UNCHANGED stage
         /\ clean' = clean \ Changed(db, r.db)
  /\ UNCHANGED <<now, snapshot, log, chunk, offset, buf, pending, replayed,
                 records, spoiled>>

(* The record of the pending write is written.                             *)
AppendToAof ==
  /\ stage = "serving"
  /\ pending # None
  /\ log' = log \o Encode(WordsOf(pending))
  /\ spoiled' = (spoiled \/ Torn)
  /\ pending' = None
  /\ clean' = CleanAfter(clean, pending)
  /\ records' = Append(records, [cmd |-> pending, data |-> db.data, clean |-> clean'])
  /\ UNCHANGED <<db, now, stage, snapshot, chunk, offset, buf, replayed>>

(* The disk is full, or the process killed: part of the record is written. *)
AppendFails(n) ==
  /\ stage = "serving"
  /\ pending # None
  /\ n < Len(Encode(WordsOf(pending)))
  /\ ~Torn  \* bound: one torn record
  /\ log' = log \o SubSeq(Encode(WordsOf(pending)), 1, n)
  /\ Dies
  /\ pending' = None
  /\ UNCHANGED <<now, snapshot, chunk, offset, buf, replayed, records, clean, spoiled>>

Crash ==
  /\ stage \in {"loading", "serving"}
  /\ Dies
  /\ pending' = None
  /\ UNCHANGED <<now, snapshot, log, chunk, offset, buf, replayed, records,
                 clean, spoiled>>

Tick ==
  /\ now < MaxTime
  /\ now' = now + 1
  /\ UNCHANGED <<db, stage, snapshot, log, chunk, offset, buf, pending, replayed,
                 records, clean, spoiled>>

Next ==
  \/ Start \/ Feed \/ Replay \/ ReplayRaises \/ Serve
  \/ \E cmd \in Workload : Execute(cmd) \/ ExecuteOnly(cmd)
  \/ AppendToAof
  \/ \E n \in Cuts : AppendFails(n)
  \/ Crash
  \/ Tick

Spec == Init /\ [][Next]_vars

-----------------------------------------------------------------------------
(* Safety.                                                                 *)

(* However the file is cut into chunks, a start runs the commands whose    *)
(* records are complete, each once and in their order, and nothing of a    *)
(* torn record - unless more was appended behind one                       *)
(* (server.py:237-255, resp.py:94-174).                                    *)
ReplaysTheLog ==
  ~spoiled =>
    /\ stage \in {"loading", "failed"} => IsPrefix(replayed, Logged)
    /\ Exhausted => replayed = Logged
    /\ TryParse(buf) \notin {Malformed, Raised}

(* Each command replayed gives every clean key the value it had when the   *)
(* record was written, and does not end the start: what was lost with a    *)
(* pending write, refused or purged does not show                          *)
(* (server.py:225-255, 309-318).                                           *)
ReplayRebuilds ==
  LET n == Len(replayed)
  IN  ~spoiled /\ n > 0 /\ stage \in {"loading", "failed"} =>
        \A k \in records[n].clean :
          /\ db.data[k] = records[n].data[k]
          /\ stage = "failed" => replayed[n].key # k

(* The loader "parses Redis RDB (persistence) files" (rdb.py:3): the       *)
(* snapshot's strings are loaded under every encoding of lengths and       *)
(* integers, the last one of a key wins, and none without an expiry time   *)
(* gets a deadline; a string with an expiry time may be there or gone.     *)
(* What is cut off ends the start (rdb.py:20-135).                         *)
SnapshotIsLoaded ==
  offset = 0 /\ stage \in {"loading", "failed"} =>
    IF snapshot.holds = None THEN stage = "failed"
    ELSE /\ stage = "loading"
         /\ \A k \in Key :
              IF snapshot.expires[k] = None
                THEN db.data[k] = snapshot.holds[k] /\ db.expires[k] = None
                ELSE db.data[k] \in {None, snapshot.holds[k]}

-----------------------------------------------------------------------------
(* What documentation in the source says of the program.                   *)

(* "parses Redis RDB (persistence) files" by a format whose strings have   *)
(* expiry times (rdb.py:3-4): past its own, none of them is there.         *)
SnapshotExpires ==
  offset = 0 /\ stage = "loading" /\ snapshot.holds # None =>
    \A k \in Key : snapshot.expires[k] # None /\ now >= snapshot.expires[k]
                      => Lookup(db, now, k) = None

=============================================================================
