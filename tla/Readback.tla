------------------------------ MODULE Readback ------------------------------
(***************************************************************************)
(* The readback of an emulated node (simulator/pkg/hwemu readback.go): a   *)
(* writer opens a file with O_TRUNC and writes it, or dies in between; a   *)
(* step of the Node reads its files one after the other, hands what        *)
(* changed to the handlers by modification time and rewrites what does not *)
(* show the model, while a reader may hold a file open; and the simulator  *)
(* is killed and seeds a new Node from the tree.                           *)
(*                                                                         *)
(* kern is the driver the Node stands for, which takes each write as it is *)
(* made.  The tree is on a file system with leases.                        *)
(***************************************************************************)
EXTENDS Knobs, SequencesExt

CONSTANTS
    Plays,                     \* a scene, what is written to its files, and whether
                               \* a reader comes and the GPU may lose its client
    MaxWrites, MaxFaults       \* bounds: writes begun; readers, and writers and Nodes that die

VARIABLES
    play,
    file,      \* file -> content, <<>> while empty, modification time, whether recent
    writer,    \* the file a writer has open
    reader,    \* the file a reader has open
    idle,      \* the NVIDIA GPU has no client
    model,     \* the driver state of the Node
    node,      \* what the Node keeps per file, and where its step is
    kern,
    unread,    \* files written since the readback read them
    missed,    \* a file was written after this readback read it
    raced,     \* and then one it still had to read
    blurred,   \* a write the readback cannot tell from another
    repeated,  \* a write put back the bytes the Node handled last
    writes, faults

rbVars == <<play, file, writer, reader, idle, model, node, kern, unread, missed, raced, blurred, repeated, writes, faults>>
tree == <<file, writer, reader, idle>>
ghosts == <<kern, unread, missed, raced, blurred, repeated>>

Files == FilesOf(play.scene)
inOrder == afiles(play.scene)
Index(f) == CHOOSE i \in DOMAIN inOrder : inOrder[i] = f
Nobody == ""
Shown(f, st) == <<current(f, st)>>
File(c, t, fresh) == [c |-> c, t |-> t, fresh |-> fresh]

(* at: 0 between steps, else the next file to read or to normalise.        *)
NewNode(st) ==
    [held |-> [f \in Files |-> Shown(f, st)], emptySeen |-> [f \in Files |-> FALSE],
     dirty |-> TRUE, stage |-> "idle", at |-> 1, changed |-> {}]

RbInit ==
    /\ play \in Plays
    /\ model = Boot(play.scene) /\ kern = model
    /\ file = [f \in Files |-> File(Shown(f, model), 0, FALSE)]
    /\ node = NewNode(model)
    /\ writer = Nobody /\ reader = Nobody /\ idle = FALSE
    /\ unread = {} /\ missed = FALSE /\ raced = FALSE /\ blurred = FALSE /\ repeated = FALSE
    /\ writes = 0 /\ faults = 0

RbFault == faults < MaxFaults /\ faults' = faults + 1

(***************************************************************************)
(* External: os.WriteFile, a tool that reads, time, and the load.          *)
(***************************************************************************)

(* Of two writes to a file between readbacks the last counts.              *)
Open(f) ==
    /\ writer = Nobody /\ writes < MaxWrites /\ writes' = writes + 1
    /\ writer' = f
    /\ file' = [file EXCEPT ![f] = File(<<>>, writes', TRUE)]
    /\ blurred' = (blurred \/ f \in unread)
    /\ UNCHANGED <<play, reader, idle, model, node, kern, unread, missed, raced, repeated, faults>>

AlreadyRead(f) == node.stage = "read" /\ Index(f) < node.at
ToRead(f) == node.stage = "read" /\ Index(f) >= node.at

(* A write that puts back the bytes the file held is not seen.             *)
Write(v) ==
    /\ writer # Nobody /\ v \in play.values[writer]
    /\ file' = [file EXCEPT ![writer] = File(<<v>>, writes, FALSE)]
    /\ writer' = Nobody
    /\ kern' = handle(writer, kern, v, FALSE).st
    /\ unread' = unread \cup {writer}
    /\ repeated' = (repeated \/ node.held[writer] = <<v>>)
    /\ blurred' = (blurred \/ node.held[writer] = <<v>>)
    /\ missed' = (missed \/ AlreadyRead(writer))
    /\ raced' = (raced \/ (missed /\ ToRead(writer)))
    /\ UNCHANGED <<play, reader, idle, model, node, writes, faults>>

WriterDies ==
    /\ writer # Nobody /\ RbFault
    /\ writer' = Nobody
    /\ UNCHANGED <<play, file, reader, idle, model, node, ghosts, writes>>

ReaderOpens(f) ==
    /\ play.readers /\ reader = Nobody /\ RbFault /\ reader' = f
    /\ UNCHANGED <<play, file, writer, idle, model, node, ghosts, writes>>
ReaderCloses ==
    /\ reader # Nobody /\ reader' = Nobody
    /\ UNCHANGED <<play, file, writer, idle, model, node, ghosts, writes, faults>>

(* nodeEmptyRestoreAge passes.                                             *)
Ages(f) ==
    /\ file[f].fresh /\ file' = [file EXCEPT ![f].fresh = FALSE]
    /\ UNCHANGED <<play, writer, reader, idle, model, node, ghosts, writes, faults>>

ClientLeaves ==
    /\ play.idles /\ ~idle /\ node.stage = "idle" /\ idle' = TRUE
    /\ UNCHANGED <<play, file, writer, reader, model, node, ghosts, writes, faults>>

(***************************************************************************)
(* A step of the Node.                                                     *)
(***************************************************************************)

OpenElsewhere(f) == f \in {writer, reader}

(* Under a lease: only while nobody has the file open and it still holds   *)
(* what the readback acted on.                                             *)
nodeRewriteInPlace(f, seen) == ~OpenElsewhere(f) /\ file[f].c = seen

(* An empty file is a writer between truncate and write; its value is put  *)
(* back once the truncation is old.                                        *)
readAFile(n, f) ==
    LET c == file[f].c
        restores == c = <<>> /\ ~file[f].fresh /\ nodeRewriteInPlace(f, <<>>)
    IN IF restores THEN [n EXCEPT !.held[f] = Shown(f, model), !.emptySeen[f] = FALSE]
       ELSE IF c = <<>> THEN [n EXCEPT !.emptySeen[f] = TRUE]
       ELSE [n EXCEPT !.emptySeen[f] = FALSE,
                      !.changed = IF c = n.held[f] THEN @ ELSE @ \cup {[f |-> f, c |-> c, t |-> file[f].t]}]

ByRegistration(w, x) == Index(w.f) < Index(x.f)

ByMTime(w, x) == w.t < x.t \/ (w.t = x.t /\ Index(w.f) < Index(x.f))

(* Handlers run in the order the files were written.                         *)
handleAll(st, changed) == FoldLeft(LAMBDA s, w : handle(w.f, s, w.c[1], FALSE).st, st, SetToSortSeq(changed, ByMTime))

ReadbackBegins ==
    /\ node.stage = "idle"
    /\ node' = [node EXCEPT !.stage = "read", !.at = 1]
    /\ UNCHANGED <<play, tree, model, ghosts, writes, faults>>

ReadAFile ==
    /\ node.stage = "read" /\ node.at <= Len(inOrder)
    /\ LET f == inOrder[node.at]
           n == readAFile(node, f)
       IN /\ node' = [n EXCEPT !.at = @ + 1]
          /\ file' = IF file[f].c = <<>> /\ ~n.emptySeen[f] THEN [file EXCEPT ![f] = File(n.held[f], file[f].t, FALSE)] ELSE file
          /\ unread' = unread \ {f}
    /\ UNCHANGED <<play, writer, reader, idle, model, kern, missed, raced, blurred, repeated, writes, faults>>

Handle ==
    /\ node.stage = "read" /\ node.at > Len(inOrder)
    /\ LET found == {w.f : w \in node.changed}
           contentOf(f) == (CHOOSE w \in node.changed : w.f = f).c
           dirty == node.dirty \/ node.changed # {}
       IN /\ model' = handleAll(model, node.changed)
          /\ node' = [node EXCEPT !.held = [f \in Files |-> IF f \in found THEN contentOf(f) ELSE @[f]],
                        !.changed = {}, !.dirty = FALSE, !.at = 1,
                        !.stage = IF dirty THEN "normalize" ELSE "end"]
    /\ missed' = FALSE
    /\ UNCHANGED <<play, tree, kern, unread, raced, blurred, repeated, writes, faults>>

(* A file that cannot be rewritten yet leaves afilesDirty set.             *)
normalizeAFiles ==
    /\ node.stage = "normalize" /\ node.at <= Len(inOrder)
    /\ LET f == inOrder[node.at]
           c == Shown(f, model)
           due == c # node.held[f] /\ ~node.emptySeen[f]
           ok == due /\ nodeRewriteInPlace(f, node.held[f])
       IN /\ file' = IF ok THEN [file EXCEPT ![f].c = c] ELSE file
          /\ node' = [node EXCEPT !.at = @ + 1, !.stage = IF node.at = Len(inOrder) THEN "end" ELSE @,
                        !.held[f] = IF ok THEN c ELSE @, !.dirty = @ \/ (due /\ ~ok)]
    /\ UNCHANGED <<play, writer, reader, idle, model, ghosts, writes, faults>>

(* The files persistReset and nvclockReset rewrite: one that cannot be     *)
(* rewritten is left as it is.                                             *)
resetFiles(st) ==
    {f \in Files : Shown(f, st) # Shown(f, model) /\ Shown(f, st) # node.held[f]
                     /\ ~node.emptySeen[f] /\ nodeRewriteInPlace(f, node.held[f])}

StepEnd ==
    /\ node.stage = "end"
    /\ LET st == IF idle THEN persistReset(model) ELSE model
           reset == resetFiles(st)
           quiet == unread = {} /\ writer = Nobody
       IN /\ model' = st
          /\ file' = [f \in Files |-> IF f \in reset THEN [file[f] EXCEPT !.c = Shown(f, st)] ELSE file[f]]
          /\ node' = [node EXCEPT !.stage = "idle", !.held = [f \in Files |-> IF f \in reset THEN Shown(f, st) ELSE @[f]]]
          /\ kern' = IF quiet /\ (blurred \/ raced) THEN st ELSE IF idle THEN persistReset(kern) ELSE kern
          /\ blurred' = (blurred /\ ~quiet) /\ raced' = (raced /\ ~quiet)
    /\ UNCHANGED <<play, writer, reader, idle, unread, missed, repeated, writes, faults>>

NodeSteps == ReadbackBegins \/ ReadAFile \/ Handle \/ normalizeAFiles \/ StepEnd

(* The simulator is killed, and NewNode seeds the model from the files.    *)
Restart ==
    /\ RbFault
    /\ model' = seedFrom(play.scene, [f \in Files |-> file[f].c])
    /\ node' = NewNode(model')
    /\ kern' = model' /\ blurred' = TRUE /\ raced' = FALSE /\ missed' = FALSE
    /\ UNCHANGED <<play, tree, unread, repeated, writes>>

RbNext ==
    \/ \E f \in Files : Open(f) \/ ReaderOpens(f) \/ Ages(f)
    \/ \E f \in Files : writer = f /\ \E v \in play.values[f] : Write(v)
    \/ WriterDies \/ ReaderCloses \/ ClientLeaves
    \/ NodeSteps \/ Restart

(***************************************************************************)
(* Properties.                                                             *)
(***************************************************************************)

AllShow == \A f \in Files : file[f].c = Shown(f, model)
Settled == writer = Nobody /\ unread = {} /\ AllShow

(* A Node between steps that has read every write is in the driver's       *)
(* state: the kernel checks each write against the state the writes before *)
(* it left, and so does the readback (handled by modification time), when  *)
(* no two writes of a file fell between two readbacks and no readback ran  *)
(* through the writes.                                                     *)
KernelAgrees ==
    node.stage = "idle" /\ unread = {} /\ ~blurred /\ ~raced => model = kern

(* A Node started over a settled tree shows what the tree showed           *)
(* (addAFile, rehandle, buildGPUDPM seed the model from the files).        *)
RestartKeeps == [][Restart /\ Settled => Settled']_rbVars
=============================================================================
