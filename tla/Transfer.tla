------------------------------ MODULE Transfer ------------------------------
(***************************************************************************)
(* `misaka cp`: the sender in misaka-cli/src/main.rs and the receiver in    *)
(* misaka-runtime/src/runtime.rs with its content_store.rs, for the three   *)
(* protocols: v0 (one pass, in place), v1 (sequential chunks, resumable)    *)
(* and v2 (parallel chunks, one stream per chunk, object store).            *)
(*                                                                          *)
(* A file is a sequence of chunks and its SHA-256 digest is the sequence    *)
(* itself.  A path holds a file [ino, bytes]: a rename moves the inode, a   *)
(* removal drops it, and a handler that opened it keeps writing to the      *)
(* inode, wherever it is by then.  A handler is one stream served by the    *)
(* receiving Sister; it outlives its sender until it touches the stream.    *)
(***************************************************************************)
EXTENDS Naturals, Sequences, FiniteSets, FiniteSetsExt

CONSTANTS
    Plans,           \* commands that run together: sequences of [version, from, to]
    Destinations,    \* paths of the receiver
    Sources,         \* files of the sender
    SourceContents,  \* what a source file may hold, as sequences of chunks
    InitialContent,  \* what each source holds at first: [Sources -> SourceContents]
    Ragged,          \* contents whose size is no multiple of the chunk size
    Parallel,        \* --parallel: worker streams of a v2 copy
    Slots,           \* streams the receiver serves at once
    Inodes,          \* bound on the inodes in use
    MaxFaults(_),    \* bound, per plan, on crashes, broken connections, edits and revocations
    None             \* no file, no handler

VARIABLES
    plan,      \* the `misaka cp` commands at work
    src,       \* the sender's files
    copy,      \* the sender's side of each command
    hand,      \* the receiver's handlers, one per stream
    fs,        \* the receiver's files
    lock,      \* TRANSFER_V2_LOCKS: who holds a destination's lock
    revoked,   \* the sender's Human membership is in the receiver's revocation store
    faults,    \* faults so far
    offered,   \* history: the contents a destination was offered, by digest or by chunk
    mixed      \* history: destinations with a v0 or v1 handler beside another one

vars == <<plan, src, copy, hand, fs, lock, revoked, faults, offered, mixed>>

Hole == "hole"                                  \* a chunk set_len left unwritten
TornState == [digest |-> <<>>, offset |-> 0, torn |-> TRUE]

Copies == DOMAIN plan
To(c) == plan[c].to
HandlerTo(s) == To(hand[s].copy)
Free == {s \in Slots : hand[s] = None}
Busy == Slots \ Free

-----------------------------------------------------------------------------
(* Files.                                                                   *)

Paths(f) == {f.part1[d] : d \in Destinations} \cup {f.part2[d] : d \in Destinations}
            \cup {f.dest[d] : d \in Destinations}

\* An inode no path and no open handle refers to.
Fresh == Min(Inodes \ ({file.ino : file \in Paths(fs) \ {None}} \cup {hand[s].fd : s \in Busy}))

\* Write one chunk at its offset, past the end too (the gap reads as zeros).
Put(bytes, i, v) ==
    [k \in 1..Max({Len(bytes), i}) |->
        IF k = i THEN v ELSE IF k <= Len(bytes) THEN bytes[k] ELSE Hole]

\* What writing through an open handle does to the files at the paths.
WriteThrough(f, ino, Op(_)) ==
    LET touch(file) == IF file # None /\ file.ino = ino
                         THEN [file EXCEPT !.bytes = Op(file.bytes)] ELSE file
        all(p) == [d \in Destinations |-> touch(p[d])]
    IN  [f EXCEPT !.part1 = all(f.part1), !.part2 = all(f.part2), !.dest = all(f.dest)]

Holds(file, digest) == file # None /\ file.bytes = digest
Contains(digest) == fs.object[digest] = digest

-----------------------------------------------------------------------------
(* The two ends of a stream.                                                *)

NoCopy == [pc |-> "idle", digest |-> <<>>, todo |-> {}, flight |-> {}]
WaitingPc == {"wait", "send", "final"}

\* The sender gives up: its streams close, the receiver's handlers find out later.
Failed(c) == [copy EXCEPT ![c] = [NoCopy EXCEPT !.pc = "err", !.digest = copy[c].digest]]
Deserted(h, c) == [s \in Slots |-> IF h[s] # None /\ h[s].copy = c
                                     THEN [h[s] EXCEPT !.live = FALSE] ELSE h[s]]
GiveUp(c) == copy' = Failed(c) /\ hand' = Deserted(hand, c)

\* A stream reaches the receiver with its request (and, for a v2 chunk, its payload).
Spawn(c, op, idx, digest, buf) ==
    /\ Free # {}
    /\ hand' = [hand EXCEPT ![Min(Free)] =
                   [copy |-> c, op |-> op, pc |-> "auth", idx |-> idx, digest |-> digest,
                    fd |-> 0, buf |-> buf, live |-> TRUE]]
    /\ offered' = [offered EXCEPT ![To(c)] = @ \cup {digest, src[plan[c].from]}]

Goto(s, pc) == hand' = [hand EXCEPT ![s].pc = pc]
Unlocked(s) == [d \in Destinations |-> IF lock[d] = s THEN 0 ELSE lock[d]]

\* The handler ends and its answer, when the sender still waits, makes the sender `c`.
Answer(s, c) ==
    /\ copy' = IF hand[s].live THEN [copy EXCEPT ![hand[s].copy] = c] ELSE copy
    /\ hand' = [hand EXCEPT ![s] = None]
    /\ lock' = Unlocked(s)

\* The handler ends with an error: the stream closes under the sender.
Abort(s) ==
    LET h == [hand EXCEPT ![s] = None] IN
    /\ copy' = IF hand[s].live THEN Failed(hand[s].copy) ELSE copy
    /\ hand' = IF hand[s].live THEN Deserted(h, hand[s].copy) ELSE h
    /\ lock' = Unlocked(s)

Self(s) == copy[hand[s].copy]
At(s, op, pc) == hand[s] # None /\ hand[s].op = op /\ hand[s].pc = pc

-----------------------------------------------------------------------------
(* The sender.                                                              *)

\* Hash the source, then name the digest in the first request.
Begin(c, op) ==
    /\ copy' = [copy EXCEPT ![c] = [NoCopy EXCEPT !.pc = "wait", !.digest = src[plan[c].from]]]
    /\ Spawn(c, op, 0, src[plan[c].from], <<>>)

RunCopyV0(c) == plan[c].version = "v0" /\ Begin(c, "v0")
RunCopyV1(c) == plan[c].version = "v1" /\ Begin(c, "v1")
RunCopyV2(c) == plan[c].version = "v2" /\ Begin(c, "prepare")

\* A command that failed may be given again.
StartCopy(c) ==
    /\ copy[c].pc \in {"idle", "err"}
    /\ RunCopyV0(c) \/ RunCopyV1(c) \/ RunCopyV2(c)
    /\ UNCHANGED <<plan, src, fs, lock, revoked, faults, mixed>>

\* run_copy_v1 takes an offset only when it is a multiple of the chunk size, and looks at
\* this before it looks at `complete`.
ResumeAccepted(digest, offset) == offset < Len(digest) \/ digest \notin Ragged

\* finish_copy_v1 and its likes: the answer reports success.
Succeed(s) == Answer(s, [Self(s) EXCEPT !.pc = "ok"])

\* run_copy_v2's loop and send_transfer_v2_chunk: the next missing chunk, at most
\* `Parallel` at once; a source that got shorter ends the copy.
SendChunk(c) ==
    LET i == Min(copy[c].todo)
        bytes == src[plan[c].from] IN
    /\ copy[c].pc = "send" /\ copy[c].todo # {}
    /\ Cardinality(copy[c].flight) < Parallel
    /\ IF i <= Len(bytes)
         THEN /\ Spawn(c, "chunk", i, copy[c].digest, bytes[i])
              /\ copy' = [copy EXCEPT ![c].todo = @ \ {i}, ![c].flight = @ \cup {i}]
         ELSE GiveUp(c) /\ UNCHANGED offered
    /\ UNCHANGED <<plan, src, fs, lock, revoked, faults, mixed>>

\* Every worker has joined: send_transfer_v2_control(Finalize).
SendFinalize(c) ==
    /\ copy[c].pc = "send" /\ copy[c].todo = {} /\ copy[c].flight = {}
    /\ copy' = [copy EXCEPT ![c].pc = "final"]
    /\ Spawn(c, "finalize", 0, copy[c].digest, <<>>)
    /\ UNCHANGED <<plan, src, fs, lock, revoked, faults, mixed>>

-----------------------------------------------------------------------------
(* The receiver: every request is authorized first.                         *)

\* authorize_stream_operation.
Authorize(s) ==
    /\ hand[s] # None /\ hand[s].pc = "auth"
    /\ IF revoked THEN Abort(s) /\ UNCHANGED mixed
       ELSE /\ Goto(s, "begin")
            /\ mixed' = IF \E t \in Busy \ {s} :
                              /\ HandlerTo(t) = HandlerTo(s)
                              /\ {hand[s].op, hand[t].op} \cap {"v0", "v1"} # {}
                          THEN mixed \cup {HandlerTo(s)} ELSE mixed
            /\ UNCHANGED <<copy, lock>>
    /\ UNCHANGED <<plan, src, fs, revoked, faults, offered>>

\* A handler reading from a stream its sender has left sees the end of it.
Drop(s) ==
    /\ hand[s] # None /\ ~hand[s].live
    /\ hand[s].pc = "recv" /\ hand[s].idx < Len(hand[s].digest)
    /\ Abort(s)
    /\ UNCHANGED <<plan, src, fs, revoked, faults, offered, mixed>>

(* v0: receive_transfer_with_node.                                          *)

\* File::create truncates the destination in place.
V0Create(s) ==
    LET d == HandlerTo(s)
        ino == IF fs.dest[d] = None THEN Fresh ELSE fs.dest[d].ino IN
    /\ At(s, "v0", "begin")
    /\ fs' = [fs EXCEPT !.dest[d] = [ino |-> ino, bytes |-> <<>>]]
    /\ hand' = [hand EXCEPT ![s].fd = ino, ![s].pc = "recv"]
    /\ UNCHANGED <<plan, src, copy, lock, revoked, faults, offered, mixed>>

\* The sender reads the next bytes of the source, the receiver appends them.
V0Receive(s) ==
    LET h == hand[s]
        bytes == src[plan[h.copy].from]
        i == h.idx + 1 IN
    /\ At(s, "v0", "recv") /\ h.live /\ h.idx < Len(h.digest)
    /\ IF i <= Len(bytes)
         THEN /\ fs' = WriteThrough(fs, h.fd, LAMBDA b : Put(b, i, bytes[i]))
              /\ hand' = [hand EXCEPT ![s].idx = i, ![s].buf = Append(@, bytes[i])]
              /\ UNCHANGED copy
         ELSE GiveUp(h.copy) /\ UNCHANGED fs
    /\ UNCHANGED <<plan, src, lock, revoked, faults, offered, mixed>>

\* Mutant: success is the declared size, whatever the digest.
V0VerifySize(s) ==
    LET h == hand[s] IN
    /\ At(s, "v0", "recv") /\ h.idx = Len(h.digest)
    /\ Succeed(s)
    /\ UNCHANGED <<plan, src, fs, revoked, faults, offered, mixed>>

\* The running digest is of what was received; a mismatch removes the destination.
V0Verify(s) ==
    LET h == hand[s]  d == HandlerTo(s) IN
    /\ At(s, "v0", "recv") /\ h.idx = Len(h.digest)
    /\ IF h.buf = h.digest
         THEN Succeed(s) /\ UNCHANGED fs
         ELSE Abort(s) /\ fs' = [fs EXCEPT !.dest[d] = None]
    /\ UNCHANGED <<plan, src, revoked, faults, offered, mixed>>

(* v1: receive_transfer_v1_with_node.                                       *)

\* finalize_transfer_part.
Installed(d) == [fs EXCEPT !.dest[d] = fs.part1[d], !.part1[d] = None]

\* Load the resume state and the part file; start over unless they agree.  A state file
\* that does not parse is an error.
V1Open(s) ==
    LET h == hand[s]  d == HandlerTo(s)  st == fs.state1[d]  part == fs.part1[d]
        kept == st # None /\ st.digest = h.digest /\ part # None
        agree == kept /\ st.offset <= Len(h.digest) /\ Len(part.bytes) = st.offset IN
    /\ At(s, "v1", "begin")
    /\ IF st = TornState THEN Abort(s) /\ UNCHANGED fs
       ELSE /\ hand' = [hand EXCEPT ![s].idx = IF agree THEN st.offset ELSE 0, ![s].pc = "check"]
            /\ fs' = [fs EXCEPT !.state1[d] = IF kept THEN st ELSE None,
                                !.part1[d] = IF agree THEN part
                                             ELSE [ino |-> Fresh, bytes |-> <<>>]]
            /\ UNCHANGED <<copy, lock>>
    /\ UNCHANGED <<plan, src, revoked, faults, offered, mixed>>

\* Everything is there already: install it or, when the digest is wrong, start over; then
\* tell the sender where to resume.
V1Resume(s) ==
    LET h == hand[s]  d == HandlerTo(s)  part == fs.part1[d]
        whole == h.idx = Len(h.digest)
        complete == whole /\ Holds(part, h.digest) IN
    /\ At(s, "v1", "check")
    /\ IF whole /\ part = None THEN Abort(s) /\ UNCHANGED fs
       ELSE IF complete
         THEN /\ fs' = [Installed(d) EXCEPT !.state1[d] = None]
              /\ IF ResumeAccepted(h.digest, h.idx) THEN Succeed(s) ELSE Abort(s)
         ELSE /\ fs' = IF whole THEN [fs EXCEPT !.part1[d].bytes = <<>>,
                                                !.state1[d] = [digest |-> h.digest, offset |-> 0,
                                                               torn |-> FALSE]]
                       ELSE fs
              /\ hand' = [hand EXCEPT ![s].idx = IF whole THEN 0 ELSE h.idx, ![s].pc = "recv"]
              /\ UNCHANGED <<copy, lock>>
    /\ UNCHANGED <<plan, src, revoked, faults, offered, mixed>>

\* run_copy_v1 sends the next chunk; the receiver opens the part file to append to it.
V1Chunk(s) ==
    LET h == hand[s]  d == HandlerTo(s)  bytes == src[plan[h.copy].from] IN
    /\ At(s, "v1", "recv") /\ h.live
    /\ IF h.idx + 1 > Len(bytes) THEN GiveUp(h.copy) /\ UNCHANGED lock
       ELSE IF fs.part1[d] = None THEN Abort(s)
       ELSE /\ hand' = [hand EXCEPT ![s].fd = fs.part1[d].ino, ![s].pc = "append",
                                    ![s].buf = <<bytes[h.idx + 1]>>]
            /\ UNCHANGED <<copy, lock>>
    /\ UNCHANGED <<plan, src, fs, revoked, faults, offered, mixed>>

V1Append(s) ==
    /\ At(s, "v1", "append")
    /\ fs' = WriteThrough(fs, hand[s].fd, LAMBDA b : b \o hand[s].buf)
    /\ hand' = [hand EXCEPT ![s].pc = "saving", ![s].fd = 0, ![s].buf = <<>>]
    /\ UNCHANGED <<plan, src, copy, lock, revoked, faults, offered, mixed>>

\* save_transfer_v1_state writes the file in place (Crash may tear it), then the
\* acknowledgement goes out: without a sender it fails and ends the handler.
V1Save(s) ==
    LET h == hand[s]  d == HandlerTo(s)  next == h.idx + 1 IN
    /\ At(s, "v1", "saving")
    /\ fs' = [fs EXCEPT !.state1[d] = [digest |-> h.digest, offset |-> next, torn |-> FALSE]]
    /\ IF h.live
         THEN /\ hand' = [hand EXCEPT ![s].idx = next,
                              ![s].pc = IF next = Len(h.digest) THEN "verify" ELSE "recv"]
              /\ UNCHANGED <<copy, lock>>
         ELSE Abort(s)
    /\ UNCHANGED <<plan, src, revoked, faults, offered, mixed>>

V1Verify(s) ==
    LET h == hand[s]  part == fs.part1[HandlerTo(s)] IN
    /\ At(s, "v1", "verify")
    /\ IF Holds(part, h.digest) THEN Goto(s, "install") /\ UNCHANGED <<copy, lock>>
                                ELSE Abort(s)
    /\ UNCHANGED <<plan, src, fs, revoked, faults, offered, mixed>>

\* The part becomes the destination, and the state file goes.
V1Install(s) ==
    LET d == HandlerTo(s) IN
    /\ At(s, "v1", "install")
    /\ IF fs.part1[d] = None THEN Abort(s) /\ UNCHANGED fs
       ELSE /\ fs' = [Installed(d) EXCEPT !.state1[d] = None]
            /\ Succeed(s)
    /\ UNCHANGED <<plan, src, revoked, faults, offered, mixed>>

(* v2: receive_transfer_v2_with_store_and_node.                             *)

\* ensure_transfer_v2_state: keep the resume state when it is for this content and the
\* part file is there, else start over with an empty bitmap and a file of holes.
Ensured(d, digest) ==
    IF fs.state2[d] # None /\ fs.state2[d].digest = digest /\ fs.part2[d] # None THEN fs
    ELSE [fs EXCEPT !.part2[d] = [ino |-> Fresh, bytes |-> [i \in DOMAIN digest |-> Hole]],
                    !.state2[d] = [digest |-> digest, done |-> {}]]

\* The bitmap: transfer_v2_complete, completed_transfer_v2_indices, mark_completed.
Missing(f, d, digest) == DOMAIN digest \ f.state2[d].done
Marked(f, d, i) == [f EXCEPT !.state2[d].done = @ \cup {i}]

\* validate_transfer_v2_request, which runs before any effect.
ValidRequest(h) == IF h.op = "chunk" THEN h.idx \in DOMAIN h.digest ELSE h.idx = 0

\* Prepare answers the chunks that are still missing; none when the object is stored.
Prepare(s) ==
    LET h == hand[s]  d == HandlerTo(s)  f == Ensured(d, h.digest)
        missing == IF Contains(h.digest) THEN {} ELSE Missing(f, d, h.digest) IN
    /\ At(s, "prepare", "begin") /\ ValidRequest(h)
    /\ Contains(h.digest) \/ lock[d] = 0
    /\ fs' = IF Contains(h.digest) THEN fs ELSE f
    /\ Answer(s, [Self(s) EXCEPT !.pc = "send", !.todo = missing])
    /\ UNCHANGED <<plan, src, revoked, faults, offered, mixed>>

\* Mutant: the chunk is marked when it is admitted, before it is written.
ChunkCheckEager(s) ==
    LET h == hand[s]  d == HandlerTo(s)  f == Ensured(d, h.digest) IN
    /\ At(s, "chunk", "begin") /\ ValidRequest(h) /\ lock[d] = 0
    /\ fs' = [f EXCEPT !.state2[d].done = @ \cup {h.idx}]
    /\ Goto(s, IF h.idx \in f.state2[d].done THEN "ack" ELSE "open")
    /\ UNCHANGED <<plan, src, copy, lock, revoked, faults, offered, mixed>>

\* The first look at the bitmap, under the lock.
ChunkCheck(s) ==
    LET h == hand[s]  d == HandlerTo(s)  f == Ensured(d, h.digest) IN
    /\ At(s, "chunk", "begin") /\ ValidRequest(h) /\ lock[d] = 0
    /\ fs' = f
    /\ Goto(s, IF h.idx \in f.state2[d].done THEN "ack" ELSE "open")
    /\ UNCHANGED <<plan, src, copy, lock, revoked, faults, offered, mixed>>

\* Mutant: the part file is opened with truncate(true).
ChunkOpenTruncates(s) ==
    LET part == fs.part2[HandlerTo(s)] IN
    /\ At(s, "chunk", "open")
    /\ IF part = None THEN Abort(s) /\ UNCHANGED fs
       ELSE /\ hand' = [hand EXCEPT ![s].fd = part.ino, ![s].pc = "write"]
            /\ fs' = [fs EXCEPT !.part2[HandlerTo(s)].bytes = <<>>]
            /\ UNCHANGED <<copy, lock>>
    /\ UNCHANGED <<plan, src, revoked, faults, offered, mixed>>

\* The payload is written without the lock, through a handle of its own.
ChunkOpen(s) ==
    LET part == fs.part2[HandlerTo(s)] IN
    /\ At(s, "chunk", "open")
    /\ IF part = None THEN Abort(s)
       ELSE /\ hand' = [hand EXCEPT ![s].fd = part.ino, ![s].pc = "write"]
            /\ UNCHANGED <<copy, lock>>
    /\ UNCHANGED <<plan, src, fs, revoked, faults, offered, mixed>>

ChunkWrite(s) ==
    /\ At(s, "chunk", "write")
    /\ fs' = WriteThrough(fs, hand[s].fd, LAMBDA b : Put(b, hand[s].idx, hand[s].buf))
    /\ hand' = [hand EXCEPT ![s].pc = "mark", ![s].fd = 0]
    /\ UNCHANGED <<plan, src, copy, lock, revoked, faults, offered, mixed>>

ChunkMark(s) ==
    LET h == hand[s]  d == HandlerTo(s) IN
    /\ At(s, "chunk", "mark") /\ lock[d] = 0
    /\ fs' = Marked(Ensured(d, h.digest), d, h.idx)
    /\ Goto(s, "ack")
    /\ UNCHANGED <<plan, src, copy, lock, revoked, faults, offered, mixed>>

ChunkAck(s) ==
    LET h == hand[s]  d == HandlerTo(s) IN
    /\ At(s, "chunk", "ack") /\ lock[d] = 0
    /\ fs' = Ensured(d, h.digest)
    /\ Answer(s, [Self(s) EXCEPT !.flight = @ \ {h.idx}])
    /\ UNCHANGED <<plan, src, revoked, faults, offered, mixed>>

\* Finalize first looks in the store, without the lock.
FinalizeLookup(s) ==
    /\ At(s, "finalize", "begin") /\ ValidRequest(hand[s])
    /\ Goto(s, IF Contains(hand[s].digest) THEN "mat_hash" ELSE "lock")
    /\ UNCHANGED <<plan, src, copy, fs, lock, revoked, faults, offered, mixed>>

\* Mutant: a file with a wrong digest stays, with its resume state.
FinalizeVerifyKeeps(s) ==
    LET h == hand[s]  d == HandlerTo(s)  f == Ensured(d, h.digest) IN
    /\ At(s, "finalize", "lock") /\ lock[d] = 0
    /\ fs' = f
    /\ IF ~Holds(f.part2[d], h.digest) THEN Abort(s)
       ELSE /\ lock' = [lock EXCEPT ![d] = s]
            /\ Goto(s, "commit")
            /\ UNCHANGED copy
    /\ UNCHANGED <<plan, src, revoked, faults, offered, mixed>>

\* Otherwise it takes the lock, and refuses a file with missing chunks or a wrong digest.
FinalizeVerify(s) ==
    LET h == hand[s]  d == HandlerTo(s)  f == Ensured(d, h.digest) IN
    /\ At(s, "finalize", "lock") /\ lock[d] = 0
    /\ IF Missing(f, d, h.digest) # {} THEN fs' = f /\ Abort(s)
       ELSE IF ~Holds(f.part2[d], h.digest)
         THEN fs' = [f EXCEPT !.part2[d] = None, !.state2[d] = None] /\ Abort(s)
       ELSE /\ fs' = f
            /\ lock' = [lock EXCEPT ![d] = s]
            /\ Goto(s, "commit")
            /\ UNCHANGED copy
    /\ UNCHANGED <<plan, src, revoked, faults, offered, mixed>>

(* ContentStore.                                                            *)

\* commit_verified_file: hash again, reuse a good object, remove a bad one.
CommitHash(s) ==
    LET h == hand[s]  d == HandlerTo(s) IN
    /\ At(s, "finalize", "commit")
    /\ IF ~Holds(fs.part2[d], h.digest) THEN Abort(s) /\ UNCHANGED fs
       ELSE /\ IF Contains(h.digest)
                 THEN fs' = [fs EXCEPT !.part2[d] = None] /\ Goto(s, "mat_hash")
                 ELSE fs' = [fs EXCEPT !.object[h.digest] = None] /\ Goto(s, "copy")
            /\ UNCHANGED <<copy, lock>>
    /\ UNCHANGED <<plan, src, revoked, faults, offered, mixed>>

\* copy_file into a temporary of the store.
CommitCopy(s) ==
    /\ At(s, "finalize", "copy")
    /\ hand' = [hand EXCEPT ![s].buf = fs.part2[HandlerTo(s)].bytes, ![s].pc = "rename"]
    /\ UNCHANGED <<plan, src, copy, fs, lock, revoked, faults, offered, mixed>>

CommitRename(s) ==
    LET h == hand[s] IN
    /\ At(s, "finalize", "rename")
    /\ fs' = [fs EXCEPT !.object[h.digest] = h.buf, !.part2[HandlerTo(s)] = None]
    /\ hand' = [hand EXCEPT ![s].pc = "mat_hash", ![s].buf = <<>>]
    /\ UNCHANGED <<plan, src, copy, lock, revoked, faults, offered, mixed>>

\* materialize: hash the object, copy it beside the destination, rename.
MaterializeHash(s) ==
    /\ At(s, "finalize", "mat_hash")
    /\ IF Contains(hand[s].digest) THEN Goto(s, "mat_copy") /\ UNCHANGED <<copy, lock>>
                                   ELSE Abort(s)
    /\ UNCHANGED <<plan, src, fs, revoked, faults, offered, mixed>>

MaterializeCopy(s) ==
    LET object == fs.object[hand[s].digest] IN
    /\ At(s, "finalize", "mat_copy")
    /\ IF object = None THEN Abort(s)
       ELSE /\ hand' = [hand EXCEPT ![s].buf = object, ![s].pc = "mat_rename"]
            /\ UNCHANGED <<copy, lock>>
    /\ UNCHANGED <<plan, src, fs, revoked, faults, offered, mixed>>

MaterializeRename(s) ==
    LET h == hand[s]  d == HandlerTo(s) IN
    /\ At(s, "finalize", "mat_rename")
    /\ fs' = [fs EXCEPT !.dest[d] = [ino |-> Fresh, bytes |-> h.buf], !.state2[d] = None]
    /\ Succeed(s)
    /\ UNCHANGED <<plan, src, revoked, faults, offered, mixed>>

-----------------------------------------------------------------------------
(* Faults.                                                                  *)

Fault == faults < MaxFaults(plan) /\ faults' = faults + 1

\* The connection breaks, or the user interrupts the command.
Break(c) ==
    /\ Fault /\ copy[c].pc \in WaitingPc
    /\ GiveUp(c)
    /\ UNCHANGED <<plan, src, fs, lock, revoked, offered, mixed>>

\* The receiving process dies and restarts: only its files survive.  A v1 state file
\* caught in the middle of its write is torn, or still the old one.
Crash ==
    LET saving == {HandlerTo(s) : s \in {t \in Busy : At(t, "v1", "saving")}} IN
    /\ Fault /\ Busy # {}
    /\ \E torn \in SUBSET saving :
           fs' = [fs EXCEPT !.state1 = [d \in Destinations |->
                     IF d \in torn THEN TornState ELSE fs.state1[d]]]
    /\ hand' = [s \in Slots |-> None]
    /\ lock' = [d \in Destinations |-> 0]
    /\ copy' = [c \in Copies |-> IF copy[c].pc \in WaitingPc THEN Failed(c)[c] ELSE copy[c]]
    /\ UNCHANGED <<plan, src, revoked, offered, mixed>>

\* The user changes a source file.
Edit(f) ==
    /\ Fault
    /\ \E bytes \in SourceContents \ {src[f]} : src' = [src EXCEPT ![f] = bytes]
    /\ UNCHANGED <<plan, copy, hand, fs, lock, revoked, offered, mixed>>

\* The sender's Human membership is revoked in the receiver's data directory.
Revoke ==
    /\ Fault /\ ~revoked
    /\ revoked' = TRUE
    /\ UNCHANGED <<plan, src, copy, hand, fs, lock, offered, mixed>>

-----------------------------------------------------------------------------

Init ==
    /\ plan \in Plans
    /\ src = InitialContent
    /\ copy = [c \in Copies |-> NoCopy]
    /\ hand = [s \in Slots |-> None]
    /\ fs = [part1 |-> [d \in Destinations |-> None], state1 |-> [d \in Destinations |-> None],
             part2 |-> [d \in Destinations |-> None], state2 |-> [d \in Destinations |-> None],
             dest |-> [d \in Destinations |-> None], object |-> [g \in SourceContents |-> None]]
    /\ lock = [d \in Destinations |-> 0]
    /\ revoked = FALSE
    /\ faults = 0
    /\ offered = [d \in Destinations |-> {}]
    /\ mixed = {}

Sender(c) == StartCopy(c) \/ SendChunk(c) \/ SendFinalize(c)

Handler(s) ==
    \/ Authorize(s) \/ Drop(s)
    \/ V0Create(s) \/ V0Receive(s) \/ V0Verify(s)
    \/ V1Open(s) \/ V1Resume(s) \/ V1Chunk(s) \/ V1Append(s) \/ V1Save(s)
    \/ V1Verify(s) \/ V1Install(s)
    \/ Prepare(s) \/ ChunkCheck(s) \/ ChunkOpen(s) \/ ChunkWrite(s) \/ ChunkMark(s) \/ ChunkAck(s)
    \/ FinalizeLookup(s) \/ FinalizeVerify(s)
    \/ CommitHash(s) \/ CommitCopy(s) \/ CommitRename(s)
    \/ MaterializeHash(s) \/ MaterializeCopy(s) \/ MaterializeRename(s)

Next ==
    \/ \E c \in Copies : Sender(c) \/ Break(c)
    \/ \E s \in Slots : Handler(s)
    \/ Crash \/ Revoke
    \/ \E f \in {plan[c].from : c \in Copies} : Edit(f)

Spec == Init /\ [][Next]_vars

\* Handlers run until they end, and a user repeats a failed copy.
FairSpec ==
    /\ Spec
    /\ \A s \in Slots : WF_vars(Handler(s))
    /\ \A c \in 1..Max({Len(p) : p \in Plans}) : WF_vars(c \in Copies /\ Sender(c))

-----------------------------------------------------------------------------

OneContent(d) == Cardinality(offered[d]) <= 1

\* Object store (content_store.rs:29-77, against the unlocked chunk write at
\* runtime.rs:1139-1146): as long as no destination was offered two different contents,
\* an object holds what its name says, through retries whose old handlers are still at
\* work, crashes, and several destinations committing the same content at once.
ObjectsVerified ==
    (\A d \in Destinations : OneContent(d)) =>
        \A g \in SourceContents : fs.object[g] # None => fs.object[g] = g

\* v2 resume state (runtime.rs:1133-1157): a chunk the bitmap claims is in the part file,
\* unless the whole content is in the object store already, where the next Prepare and
\* Finalize look first.
BitmapHonest ==
    \A d \in Destinations :
        OneContent(d) /\ fs.state2[d] # None /\ fs.part2[d] # None =>
            \/ \A i \in fs.state2[d].done : fs.part2[d].bytes[i] = fs.state2[d].digest[i]
            \/ Contains(fs.state2[d].digest)

\* `misaka cp` (main.rs:2622-3020): a copy that reported success left the content it
\* hashed at the destination, whatever crashes, broken connections and repeated attempts
\* came before, as long as one content was offered to that destination, no v0 or v1
\* handler worked beside another one, and no other copy to it is unfinished (v0
\* truncates in place).
CopyDelivers ==
    \A c \in Copies :
        /\ copy[c].pc = "ok" /\ OneContent(To(c)) /\ To(c) \notin mixed
        /\ \A e \in Copies : To(e) = To(c) => copy[e].pc \in {"idle", "ok"}
        =>
            Holds(fs.dest[To(c)], copy[c].digest)

\* Resumption (runtime.rs:923-964, 1295-1335): whatever state a crash, a broken
\* connection or a changed source leaves on disk, a copy that is repeated ends in success.
\* Three things are excluded: a revoked sender, a v1 state file torn by a crash, and two
\* commands that write different contents to one destination.
CopyRecovers ==
    [](~revoked /\ (\A d \in Destinations : fs.state1[d] # TornState)
        /\ (\A c1, c2 \in Copies : To(c1) = To(c2) => plan[c1].from = plan[c2].from))
        => <>(\A c \in Copies : copy[c].pc = "ok")
=============================================================================
