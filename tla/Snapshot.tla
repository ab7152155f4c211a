------------------------------ MODULE Snapshot ------------------------------
(***************************************************************************)
(* Snapshot builders, and the isolate that starts from a snapshot.         *)
(*                                                                         *)
(* A builder owns a v8::SnapshotCreator, which enters its isolate on the   *)
(* thread that creates it and leaves it on the thread that deletes it.  V8 *)
(* remembers with each entry the isolate that was the thread's current one *)
(* before, and restores that.  Go may move a goroutine to another thread   *)
(* between two calls.                                                      *)
(*                                                                         *)
(* An isolate that starts from a snapshot gets a copy of the data, which   *)
(* V8 reads whenever it makes a context.                                   *)
(*                                                                         *)
(* One goroutine.  A call is one step, except the disposal of the isolate, *)
(* which is two.                                                           *)
(***************************************************************************)
EXTENDS Naturals, Sequences, SequencesExt

CONSTANTS Builders,  \* each is used once
          Threads,
          None       \* no isolate

ASSUME SnapshotConstants == None \notin Builders

VARIABLES
  at,        \* the thread that the goroutine is on
  current,   \* the isolate that each thread has entered outside of calls
  saved,     \* the isolate that was current when a builder entered its own
  bptr,      \* b.ptr: "unborn", "set" or "nil"
  bctx,      \* builder->ctx is not empty
  built,     \* builder->built
  snaps,     \* a Build returned data
  iso,       \* the isolate under test: "unborn", "live", "gone" or "nil"
  blob,      \* its snapshot_data: "none", "live" or "freed"
  internal,  \* it has its internal context
  data,      \* what it was made from
  open,      \* history: the builders not yet released, oldest first
  careless,  \* history: see Move and Release
  fault      \* what the process died of

builder == <<saved, bptr, bctx, built, snaps, open>>
isolate == <<iso, blob, internal, data>>
svars == <<at, current, builder, isolate, careless, fault>>

\* What a host may pass as a Snapshot: nothing, the result of a Build, fewer than
\* 8 bytes, another flag than 0 and 1, data of another V8, a good flag with the
\* rest of V8's header cut off, or a good header with anything behind it.
Data == {"empty", "built", "short", "flag", "foreign", "cut", "corrupt"}

\* The data that gv8 cannot tell from good data: V8 is left to judge it.
Unchecked == {"cut", "corrupt"}

SnapshotTypeOK ==
  /\ at \in Threads
  /\ current \in [Threads -> Builders \cup {None}]
  /\ saved \in [Builders -> Builders \cup {None}]
  /\ bptr \in [Builders -> {"unborn", "set", "nil"}]
  /\ bctx \in [Builders -> BOOLEAN]
  /\ built \in [Builders -> BOOLEAN]
  /\ snaps \in BOOLEAN
  /\ iso \in {"unborn", "live", "gone", "nil"}
  /\ blob \in {"none", "live", "freed"}
  /\ internal \in BOOLEAN
  /\ data \in Data
  /\ open \in Seq(Builders) /\ ToSet(open) = {b \in Builders : bptr[b] = "set"}
  /\ careless \in BOOLEAN
  /\ fault \in {"none", "emptyContext", "fatalCheck", "useAfterFree"}

SnapshotInit ==
  /\ at \in Threads
  /\ current = [t \in Threads |-> None]
  /\ saved = [b \in Builders |-> None]
  /\ bptr = [b \in Builders |-> "unborn"]
  /\ bctx = [b \in Builders |-> FALSE]
  /\ built = [b \in Builders |-> FALSE]
  /\ snaps = FALSE
  /\ iso = "unborn" /\ blob = "none" /\ internal = FALSE /\ data = "empty"
  /\ open = <<>> /\ careless = FALSE
  /\ fault = "none"

\* Between two calls.
Ready == fault = "none" /\ iso # "gone"

----------------------------------------------------------------------------
(* Builders.                                                               *)

\* The Go scheduler: nothing locks the goroutine to its thread.
Move ==
  /\ Ready
  /\ at' \in Threads \ {at}
  /\ careless' = (careless \/ open # <<>>)
  /\ UNCHANGED <<current, builder, isolate, fault>>

\* The SnapshotCreator enters the new isolate.
NewSnapshotBuilder(b) ==
  /\ Ready /\ bptr[b] = "unborn"
  /\ saved' = [saved EXCEPT ![b] = current[at]]
  /\ current' = [current EXCEPT ![at] = b]
  /\ bptr' = [bptr EXCEPT ![b] = "set"]
  /\ bctx' = [bctx EXCEPT ![b] = TRUE]
  /\ open' = Append(open, b)
  /\ UNCHANGED <<at, built, snaps, isolate, careless, fault>>

\* RunScript and Build read the builder's context.
NeedContext(b) == fault' = IF bctx[b] THEN "none" ELSE "emptyContext"

\* RunScript.  What it does to the heap of the builder is not modelled.
RunScript(b) ==
  /\ Ready /\ bptr[b] = "set" /\ ~built[b]
  /\ NeedContext(b)
  /\ UNCHANGED <<at, current, builder, isolate, careless>>

\* Build as it would be if only a success used the builder up.
BuildMarksSuccess(b) ==
  /\ Ready /\ bptr[b] = "set" /\ ~built[b]
  /\ NeedContext(b)
  /\ \E ok \in BOOLEAN : snaps' = (snaps \/ ok) /\ built' = [built EXCEPT ![b] = ok]
  /\ bctx' = [bctx EXCEPT ![b] = FALSE]
  /\ UNCHANGED <<at, current, saved, bptr, open, isolate, careless>>

\* Build, which may fail after it has given up the context.  The native builder
\* and its isolate stay until Release.
Build(b) ==
  /\ Ready /\ bptr[b] = "set" /\ ~built[b]
  /\ NeedContext(b)
  /\ \E ok \in BOOLEAN : snaps' = (snaps \/ ok)
  /\ built' = [built EXCEPT ![b] = TRUE]
  /\ bctx' = [bctx EXCEPT ![b] = FALSE]
  /\ UNCHANGED <<at, current, saved, bptr, open, isolate, careless>>

\* History: b is released, and it should be the youngest.
Forget(b) ==
  /\ careless' = (careless \/ Last(open) # b)
  /\ \E i \in 1..Len(open) : open[i] = b /\ open' = RemoveAt(open, i)

\* Release as it would be if the creator of a finished builder stayed.
ReleaseKeepsCreator(b) ==
  /\ Ready /\ bptr[b] = "set"
  /\ Forget(b)
  /\ current' = IF built[b] THEN current ELSE [current EXCEPT ![at] = saved[b]]
  /\ bptr' = [bptr EXCEPT ![b] = "nil"]
  /\ bctx' = [bctx EXCEPT ![b] = FALSE]
  /\ UNCHANGED <<at, saved, built, snaps, isolate, fault>>

\* Release as it would be if b.ptr stayed.
ReleaseKeepsPointer(b) ==
  /\ Ready /\ bptr[b] = "set"
  /\ Forget(b)
  /\ current' = [current EXCEPT ![at] = saved[b]]
  /\ bctx' = [bctx EXCEPT ![b] = FALSE]
  /\ UNCHANGED <<at, saved, bptr, built, snaps, isolate, fault>>

\* Release: the creator leaves its isolate, on this thread, and disposes of it.
\* Builders that live at the same time have to be released youngest first, and
\* on the thread that made them.
Release(b) ==
  /\ Ready /\ bptr[b] = "set"
  /\ Forget(b)
  /\ current' = [current EXCEPT ![at] = saved[b]]
  /\ bptr' = [bptr EXCEPT ![b] = "nil"]
  /\ bctx' = [bctx EXCEPT ![b] = FALSE]
  /\ UNCHANGED <<at, saved, built, snaps, isolate, fault>>

----------------------------------------------------------------------------
(* The isolate.                                                            *)

\* What StartupData::IsValid may make of the data.  It knows V8's own data by the
\* header alone, and may die of a header that it cannot read.
IsValid(d) == CASE d \in {"built", "corrupt"} -> {"valid"}
                [] d = "foreign" -> {"invalid"}
                [] d = "cut" -> {"invalid", "fatal"}
                [] d \in {"short", "flag"} -> {"fatal"}

\* SnapshotDataIsValid as it would be without its check of the flag.
DataIsLongEnough(d) == IF d = "short" THEN {"invalid"} ELSE IsValid(d)

\* Too short for the flag, or a bad flag, is refused before V8 sees it.
SnapshotDataIsValid(d) == IF d \in {"short", "flag"} THEN {"invalid"} ELSE IsValid(d)

\* Without data there is nothing to validate.
Accepts(d) == IF d = "empty" THEN {"valid"} ELSE SnapshotDataIsValid(d)

\* V8 reads the contents of the data, here or when it makes a context.
Deserialize(d) == IF d = "corrupt" THEN {"none", "fatalCheck"} ELSE {"none"}

\* NewIsolateWithOptions.  Without snapshot data the internal context is made at
\* once; invalid data is refused with a panic and nothing is left behind.
NewIsolate(d) ==
  /\ Ready /\ iso \in {"unborn", "nil"}
  /\ d = "built" => snaps
  /\ \E verdict \in Accepts(d) \ {"invalid"} :
       fault' \in IF verdict = "valid" THEN Deserialize(d) ELSE {"fatalCheck"}
  /\ iso' = "live"
  /\ blob' = IF d = "empty" THEN "none" ELSE "live"
  /\ internal' = (d = "empty")
  /\ data' = d
  /\ UNCHANGED <<at, current, builder, careless>>

\* NewContext, and InternalCompileContext for the first compilation: V8 reads
\* the snapshot.
MakeContext(isInternal) ==
  /\ Ready /\ iso = "live"
  /\ isInternal => ~internal
  /\ fault' \in IF blob = "freed" THEN {"useAfterFree"} ELSE Deserialize(data)
  /\ internal' = (internal \/ isInternal)
  /\ UNCHANGED <<at, current, builder, iso, blob, data, careless>>

\* Isolate.Dispose: the internal context and V8's isolate go.
Dispose ==
  /\ Ready /\ iso = "live"
  /\ iso' = "gone"
  /\ internal' = FALSE
  /\ UNCHANGED <<at, current, builder, blob, data, careless, fault>>

\* Disposal as it would be if it forgot the data.
DisposeKeepsData ==
  /\ fault = "none" /\ iso = "gone"
  /\ iso' = "nil"
  /\ UNCHANGED <<at, current, builder, blob, internal, data, careless, fault>>

\* The data goes last.
FreeData ==
  /\ fault = "none" /\ iso = "gone"
  /\ iso' = "nil"
  /\ blob' = IF blob = "live" THEN "freed" ELSE blob
  /\ UNCHANGED <<at, current, builder, internal, data, careless, fault>>

SnapshotNext ==
  \/ Move
  \/ \E b \in Builders :
       NewSnapshotBuilder(b) \/ RunScript(b) \/ Build(b) \/ Release(b)
  \/ \E d \in Data : NewIsolate(d)
  \/ \E isInternal \in BOOLEAN : MakeContext(isInternal)
  \/ Dispose \/ FreeData

SnapshotSpec == SnapshotInit /\ [][SnapshotNext]_svars

----------------------------------------------------------------------------
(* Properties.                                                             *)

\* Any order of RunScript, Build and Release, whatever Build returned: no empty
\* context is read, and no context is made from freed data.  V8 dies of a snapshot
\* only if its header is cut off behind the flag, or its contents are wrong under a
\* good header: SnapshotDataIsValid stops what is too short for the flag, a bad
\* flag and another V8's data, and cannot stop these two, although its comment says
\* that "invalid host data never reaches a fatal V8 DCHECK path".
SnapshotCallsAreSafe ==
  fault # "none" => fault = "fatalCheck" /\ data \in Unchecked

\* The copy of the data lives as long as the isolate, which reads it until its
\* disposal, and no longer, when nothing points to it any more.
DataFollowsIsolate ==
  /\ iso = "live" => blob # "freed"
  /\ blob = "live" => iso \in {"live", "gone"}

\* v8-isolate.h on Exit: "Requires: this == Isolate::GetCurrent()."  The builder
\* to be released next is the current isolate of the thread and no thread is
\* left in an isolate that is gone, if the goroutine does not move and builders
\* are released youngest first; gv8 takes care of neither.
EntriesAreSound ==
  ~careless =>
    /\ open # <<>> => current[at] = Last(open)
    /\ \A t \in Threads : current[t] # None => bptr[current[t]] = "set"
=============================================================================
