------------------------------ MODULE Transfers ------------------------------
(* Files on their way into and out of the MCP server: a client creates an     *)
(* upload with its size and digest, writes it in chunks it may repeat, and    *)
(* finishes it; a call of an operation streams finished uploads to its        *)
(* handler and keeps its result in a transfer it has reserved before. Entries *)
(* live in memory and expire; their files are removed with them, or by the    *)
(* next start after a crash.  The limits are read anew with every request.    *)
(*                                                                            *)
(* A file is a sequence of units; a digest is the sequence it was taken of.   *)
EXTENDS Integers, Sequences, FiniteSets, Functions

CONSTANTS
  Ids,             \* generated transfer names
  Calls,           \* calls of operations served at a time
  Units,           \* what a chunk consists of
  MaxFile, MaxTotal,   \* bounds of the limits a configuration may set
  MaxTransfers,
  NoTransfer

Files == UNION {[1..n -> Units] : n \in 0..MaxFile}
Limits == {l \in [file : 1..MaxFile, total : 1..MaxTotal] : l.file <= l.total}
Entries == [size : 0..MaxFile, sha : Files \cup {NoTransfer}, written : 0..MaxFile,
            readers : 0..Cardinality(Calls), complete : BOOLEAN, expired : BOOLEAN]

ASSUME TransfersAssumption ==
  /\ IsFiniteSet(Ids) /\ IsFiniteSet(Calls) /\ Units # {}
  /\ MaxFile \in Nat \ {0} /\ MaxTotal \in Nat /\ MaxFile <= MaxTotal /\ MaxTransfers \in Nat
  /\ NoTransfer \notin Ids \cup Files \cup Entries

VARIABLES
  serving,         \* the process that holds the lock of the directory is up
  entry,           \* id -> NoTransfer or a transfer
  disk,            \* id -> NoTransfer or the content of the file
  reserved,
  limits,          \* of one file and of all
  call             \* call -> [pc, in, out, size]

transferVars == <<serving, entry, disk, reserved, limits, call>>

NoCall == [pc |-> "idle", in |-> NoTransfer, out |-> NoTransfer, size |-> 0]

TransfersInit ==
  /\ serving = TRUE /\ reserved = 0 /\ limits = [file |-> MaxFile, total |-> MaxTotal]
  /\ entry = [i \in Ids |-> NoTransfer]
  /\ disk = [i \in Ids |-> NoTransfer]
  /\ call = [c \in Calls |-> NoCall]

Live == {i \in Ids : entry[i] # NoTransfer}
Size == [i \in Ids |-> IF entry[i] = NoTransfer THEN 0 ELSE entry[i].size]
Valid(i) == serving /\ i \in Live /\ ~entry[i].expired     \* lookup
Output(i) == \E c \in Calls : call[c].out = i                \* its name is not told yet
Fresh(i) == entry[i] = NoTransfer /\ disk[i] = NoTransfer /\ ~Output(i)   \* randomID

----------------------------------------------------------------------------
\* createLocked
Fits(size) == /\ size <= limits.file /\ reserved + size <= limits.total
              /\ Cardinality(Live) < MaxTransfers

NewEntry(i, size, sha) ==
  /\ entry' = [entry EXCEPT ![i] = [size |-> size, sha |-> sha, written |-> 0, readers |-> 0,
                                    complete |-> FALSE, expired |-> FALSE]]
  /\ disk' = [disk EXCEPT ![i] = <<>>]
  /\ reserved' = reserved + size

CreateUpload(i, content) ==
  /\ serving /\ Fresh(i) /\ Fits(Len(content))
  /\ NewEntry(i, Len(content), content)
  /\ UNCHANGED <<serving, limits, call>>

\* A chunk at the end is appended, as far as the disk takes it; one that was
\* written before must be what is stored, and changes nothing.
WriteChunk(i, data) ==
  LET e == entry[i] IN
  /\ Valid(i) /\ ~Output(i) /\ ~e.complete
  /\ e.written + Len(data) <= e.size
  /\ \E n \in 0..Len(data) :
       /\ disk' = [disk EXCEPT ![i] = @ \o SubSeq(data, 1, n)]
       /\ entry' = [entry EXCEPT ![i].written = @ + n]
  /\ UNCHANGED <<serving, reserved, limits, call>>

FinishUpload(i) ==
  /\ Valid(i) /\ ~Output(i) /\ ~entry[i].complete
  /\ entry[i].written = entry[i].size /\ disk[i] = entry[i].sha
  /\ entry' = [entry EXCEPT ![i].complete = TRUE]
  /\ UNCHANGED <<serving, disk, reserved, limits, call>>

\* remove
Removed(gone) ==
  /\ entry' = [i \in Ids |-> IF i \in gone THEN NoTransfer ELSE entry[i]]
  /\ disk' = [i \in Ids |-> IF i \in gone THEN NoTransfer ELSE disk[i]]
  /\ reserved' = reserved - SumFunctionOnSet(Size, gone)

DeleteTransfer(i) ==
  /\ Valid(i) /\ ~Output(i) /\ entry[i].readers = 0
  /\ Removed({i})
  /\ UNCHANGED <<serving, limits, call>>

ExpireTransfer(i) ==
  /\ Valid(i)
  /\ entry' = [entry EXCEPT ![i].expired = TRUE]
  /\ UNCHANGED <<serving, disk, reserved, limits, call>>

\* Mutant: the sweep does not ask for readers.
SweptInUse == {i \in Live : entry[i].expired}

Swept == {i \in Live : entry[i].expired /\ entry[i].readers = 0}

Sweep ==
  /\ serving /\ Swept # {}
  /\ Removed(Swept)
  /\ UNCHANGED <<serving, limits, call>>

----------------------------------------------------------------------------
(* A call of an operation: invoke.                                           *)

\* Open pins the finished upload the call streams to its handler.
OpenInput(c, i) ==
  /\ call[c] = NoCall /\ Valid(i) /\ ~Output(i) /\ entry[i].complete
  /\ entry' = [entry EXCEPT ![i].readers = @ + 1]
  /\ call' = [call EXCEPT ![c] = [NoCall EXCEPT !.pc = "open", !.in = i]]
  /\ UNCHANGED <<serving, disk, reserved, limits>>

Released(e, c) == [i \in Ids |-> IF i = call[c].in /\ e[i] # NoTransfer
                                   THEN [e[i] EXCEPT !.readers = @ - 1] ELSE e[i]]

\* Output: the allowance of the result is reserved before the operation runs.
ReserveOutput(c, o) ==
  /\ serving /\ call[c].pc \in {"idle", "open"}
  /\ Fresh(o) /\ Fits(limits.file)
  /\ NewEntry(o, limits.file, NoTransfer)
  /\ call' = [call EXCEPT ![c].pc = "ready", ![c].out = o]
  /\ UNCHANGED <<serving, limits>>

NoCapacity(c) ==
  /\ call[c].pc = "open" /\ ~Fits(limits.file)
  /\ entry' = Released(entry, c)
  /\ call' = [call EXCEPT ![c] = NoCall]
  /\ UNCHANGED <<serving, disk, reserved, limits>>

\* The handler writes its response to the file; what exceeds the allowance is an
\* error.  Of a result whose transfer is gone no file is left to write to.
Operate(c, n) ==
  LET o == call[c].out  kept == IF n > Size[o] THEN Size[o] ELSE n IN
  /\ call[c].pc = "ready" /\ n \in 0..MaxFile + 1
  /\ disk' = IF disk[o] = NoTransfer THEN disk
             ELSE [disk EXCEPT ![o] = [k \in 1..kept |-> CHOOSE u \in Units : TRUE]]
  /\ call' = [call EXCEPT ![c].pc = "done", ![c].size = n]
  /\ UNCHANGED <<serving, entry, reserved, limits>>

\* SealOutput: the file becomes a finished transfer of the size it has.
SealOutput(c) ==
  LET o == call[c].out IN
  /\ call[c].pc = "done" /\ Valid(o) /\ call[c].size \in 1..Size[o]
  /\ entry' = Released([entry EXCEPT ![o].size = call[c].size, ![o].written = call[c].size,
                                     ![o].sha = disk[o], ![o].complete = TRUE], c)
  /\ reserved' = reserved - (Size[o] - call[c].size)
  /\ call' = [call EXCEPT ![c] = NoCall]
  /\ UNCHANGED <<serving, disk, limits>>

\* The response was returned inline, was too long, or its transfer has expired:
\* the reservation is deleted, if it has not expired.
DropOutput(c) ==
  LET o == call[c].out
      gone == IF Valid(o) THEN {o} ELSE {}
      rest == [i \in Ids |-> IF i \in gone THEN NoTransfer ELSE entry[i]]
  IN /\ call[c].pc = "done"
     /\ entry' = Released(rest, c)
     /\ disk' = [i \in Ids |-> IF i \in gone THEN NoTransfer ELSE disk[i]]
     /\ reserved' = reserved - (IF gone = {} THEN 0 ELSE Size[o])
     /\ call' = [call EXCEPT ![c] = NoCall]
     /\ UNCHANGED <<serving, limits>>

----------------------------------------------------------------------------
\* Close removes every file; a crash leaves them, and the next process to get
\* the lock of the directory removes them before it serves.
EndServing(left) ==
  /\ serving
  /\ serving' = FALSE /\ reserved' = 0
  /\ entry' = [i \in Ids |-> NoTransfer]
  /\ disk' = left
  /\ call' = [c \in Calls |-> NoCall]
  /\ UNCHANGED limits

CloseTransfers == EndServing([i \in Ids |-> NoTransfer])
CrashServing == EndServing(disk)

NewTransfers ==
  /\ ~serving
  /\ serving' = TRUE
  /\ disk' = [i \in Ids |-> NoTransfer]
  /\ limits' \in Limits
  /\ UNCHANGED <<entry, reserved, call>>

\* The middleware hands the configuration it has just read to the transfers.
SetLimits(l) ==
  /\ serving /\ limits' = l
  /\ UNCHANGED <<serving, entry, disk, reserved, call>>

TransfersNext ==
  \/ \E i \in Ids :
       \/ \E f \in Files : CreateUpload(i, f) \/ (f # <<>> /\ WriteChunk(i, f))
       \/ FinishUpload(i) \/ DeleteTransfer(i) \/ ExpireTransfer(i)
  \/ Sweep
  \/ \E c \in Calls :
       \/ \E i \in Ids : OpenInput(c, i) \/ ReserveOutput(c, i)
       \/ NoCapacity(c) \/ SealOutput(c) \/ DropOutput(c)
       \/ \E n \in 0..MaxFile + 1 : Operate(c, n)
  \/ CloseTransfers \/ CrashServing \/ NewTransfers
  \/ \E l \in Limits : SetLimits(l)

TransfersSpec == TransfersInit /\ [][TransfersNext]_transferVars

----------------------------------------------------------------------------
StoredTypeOK ==
  /\ serving \in BOOLEAN /\ reserved \in Nat
  /\ entry \in [Ids -> Entries \cup {NoTransfer}] /\ disk \in [Ids -> Files \cup {NoTransfer}]
  /\ \A i \in Live : entry[i].written <= entry[i].size
  /\ call \in [Calls -> [pc : {"idle", "open", "ready", "done"}, in : Ids \cup {NoTransfer},
                         out : Ids \cup {NoTransfer}, size : 0..MaxFile + 1]]

TransfersTypeOK == StoredTypeOK /\ limits \in Limits

\* The quota is what the transfers hold, and no more than was ever allowed.
QuotaIsHeld == reserved = SumFunctionOnSet(Size, Ids) /\ reserved <= MaxTotal
\* A transfer and its file come and go together.
FilesAreTracked ==
  /\ \A i \in Ids : serving => (disk[i] # NoTransfer <=> i \in Live)
  /\ \A i \in Live : Len(disk[i]) <= entry[i].size
\* A finished transfer is what was declared.
FinishedAreWhole ==
  \A i \in Live : entry[i].complete => disk[i] = entry[i].sha /\ Len(disk[i]) = entry[i].size
\* None disappears under the call that streams it.
InputsStay ==
  \A c \in Calls : call[c].in # NoTransfer => call[c].in \in Live /\ entry[call[c].in].complete

\* Whatever is uploaded, repeated, expired and swept while calls stream their
\* inputs and reserve their results (internal/mcpserver/transfers.go): no byte of
\* the quota is lost or lent twice, and no file is torn or taken away.
TransfersAreSafe == QuotaIsHeld /\ FilesAreTracked /\ FinishedAreWhole /\ InputsStay
=============================================================================
