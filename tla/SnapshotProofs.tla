--------------------------- MODULE SnapshotProofs ---------------------------
(***************************************************************************)
(* For every number of builders and threads: no order of the calls on      *)
(* builders and isolates kills the process unless V8 dies of data that gv8 *)
(* cannot tell from good data, the copy of the snapshot data lives as long *)
(* as the isolate that reads it, and the entries of the builders' isolates *)
(* nest as long as the host takes the care that gv8 leaves to it.          *)
(***************************************************************************)
EXTENDS Snapshot, SequenceTheorems, TLAPS

----------------------------------------------------------------------------
(* The inductive invariant, part by part.                                  *)

\* No builder is open twice.
OpenIsDistinct ==
  \A i, j \in 1..Len(open) : open[i] = open[j] => i = j

\* A builder that RunScript and Build accept has its context.
ContextInv == \A b \in Builders : bptr[b] = "set" /\ ~built[b] => bctx[b]

\* What was current before the i-th of the open builders entered its isolate.
Outside(i) == IF i = 1 THEN None ELSE open[i-1]

\* The entries of the open builders are a stack, all on the goroutine's thread.
\* EntriesAreSound alone is not inductive: what Release restores is in saved.
NestingInv ==
  /\ current[at] = IF open = <<>> THEN None ELSE Last(open)
  /\ \A t \in Threads \ {at} : current[t] = None
  /\ \A i \in 1..Len(open) : saved[open[i]] = Outside(i)

SInv == /\ SnapshotTypeOK
        /\ OpenIsDistinct
        /\ ContextInv
        /\ SnapshotCallsAreSafe
        /\ DataFollowsIsolate
        /\ ~careless => NestingInv

USE SnapshotConstants

----------------------------------------------------------------------------
(* The sequence of open builders.                                          *)

\* What Append does to the sequence.
LEMMA OpenGrows ==
  ASSUME NEW s \in Seq(Builders), NEW b \in Builders
  PROVE  /\ Append(s, b) \in Seq(Builders)
         /\ Len(Append(s, b)) = Len(s) + 1
         /\ \A i \in 1..Len(s) : Append(s, b)[i] = s[i]
         /\ Append(s, b)[Len(s) + 1] = b
         /\ ToSet(Append(s, b)) = ToSet(s) \cup {b}
<1>1. /\ Append(s, b) \in Seq(Builders)
      /\ Len(Append(s, b)) = Len(s) + 1
      /\ \A i \in 1..Len(s) : Append(s, b)[i] = s[i]
      /\ Append(s, b)[Len(s) + 1] = b
  BY AppendProperties
<1>2. DOMAIN Append(s, b) = 1..Len(s) + 1 /\ DOMAIN s = 1..Len(s) /\ Len(s) \in Nat
  BY <1>1, LenProperties
<1>3. ToSet(Append(s, b)) = ToSet(s) \cup {b}
  BY <1>1, <1>2 DEF ToSet
<1> QED
  BY <1>1, <1>3

\* What RemoveAt does to it.
LEMMA OpenShrinks ==
  ASSUME NEW s \in Seq(Builders), NEW k \in 1..Len(s)
  PROVE  /\ RemoveAt(s, k) \in Seq(Builders)
         /\ Len(RemoveAt(s, k)) = Len(s) - 1
         /\ \A i \in 1..Len(s) - 1 :
              RemoveAt(s, k)[i] = IF i < k THEN s[i] ELSE s[i+1]
<1> DEFINE l == SubSeq(s, 1, k-1)
           r == SubSeq(s, k+1, Len(s))
           t == RemoveAt(s, k)
<1>1. Len(s) \in Nat /\ \A i \in 1..Len(s) : s[i] \in Builders
  BY LenProperties, ElementOfSeq
<1>2. l \in Seq(Builders) /\ Len(l) = k - 1 /\ \A i \in 1..k-1 : l[i] = s[i]
  <2>1. \A i \in 1..k-1 : s[i] \in Builders
    BY <1>1
  <2>2. /\ l \in Seq(Builders)
        /\ Len(l) = IF 1 <= k-1 THEN k-1-1+1 ELSE 0
        /\ \A i \in 1..k-1-1+1 : l[i] = s[1+i-1]
    BY <1>1, <2>1, SubSeqProperties
  <2> QED
    BY <1>1, <2>2
<1>3. /\ r \in Seq(Builders)
      /\ Len(r) = Len(s) - k
      /\ \A i \in 1..Len(s)-k : r[i] = s[k+i]
  <2>1. \A i \in k+1..Len(s) : s[i] \in Builders
    BY <1>1
  <2>2. /\ r \in Seq(Builders)
        /\ Len(r) = IF k+1 <= Len(s) THEN Len(s)-(k+1)+1 ELSE 0
        /\ \A i \in 1..Len(s)-(k+1)+1 : r[i] = s[k+1+i-1]
    BY <1>1, <2>1, SubSeqProperties
  <2> QED
    BY <1>1, <2>2
<1>4. /\ t \in Seq(Builders)
      /\ Len(t) = Len(l) + Len(r)
      /\ \A i \in 1..Len(l) + Len(r) :
           t[i] = IF i <= Len(l) THEN l[i] ELSE r[i - Len(l)]
  BY <1>2, <1>3, ConcatProperties DEF RemoveAt
<1> HIDE DEF l, r, t
<1>5. Len(t) = Len(s) - 1
  BY <1>1, <1>2, <1>3, <1>4
<1>6. ASSUME NEW i \in 1..Len(s) - 1
      PROVE  t[i] = IF i < k THEN s[i] ELSE s[i+1]
  <2>1. CASE i < k
    <3>1. i \in 1..k-1 /\ i <= Len(l) /\ i \in 1..Len(l) + Len(r)
      BY <1>1, <1>2, <1>3, <2>1
    <3>2. t[i] = l[i] /\ l[i] = s[i]
      BY <1>2, <1>4, <3>1
    <3> QED
      BY <2>1, <3>2
  <2>2. CASE ~(i < k)
    <3>1. t[i] = r[i - (k - 1)]
      BY <1>1, <1>2, <1>3, <1>4, <2>2
    <3>2. i - (k - 1) \in 1..Len(s)-k
      BY <1>1, <2>2
    <3>3. r[i - (k - 1)] = s[k + (i - (k - 1))]
      BY <1>3, <3>2
    <3>4. k + (i - (k - 1)) = i + 1
      BY <1>1
    <3> QED
      BY <2>2, <3>1, <3>3, <3>4
  <2> QED
    BY <2>1, <2>2
<1> QED
  BY <1>4, <1>5, <1>6 DEF t

----------------------------------------------------------------------------
(* The invariant is inductive.                                             *)

\* Before the first call nothing is open, entered or built.
LEMMA InitSInv == SnapshotInit => SInv
<1> SUFFICES ASSUME SnapshotInit PROVE SInv
  OBVIOUS
<1> USE DEF SnapshotInit
<1>1. open \in Seq(Builders) /\ Len(open) = 0 /\ ToSet(open) = {}
  BY DEF ToSet
<1>2. SnapshotTypeOK
  BY <1>1 DEF SnapshotTypeOK, Data
<1>3. OpenIsDistinct /\ ContextInv /\ SnapshotCallsAreSafe /\ DataFollowsIsolate
  BY <1>1 DEF OpenIsDistinct, ContextInv, SnapshotCallsAreSafe, DataFollowsIsolate
<1>4. NestingInv
  BY <1>1 DEF NestingInv
<1> QED
  BY <1>2, <1>3, <1>4 DEF SInv

\* Moving the goroutine is harmless while no builder is open.
LEMMA MoveStep == SInv /\ Move => SInv'
<1> SUFFICES ASSUME SInv, Move PROVE SInv'
  OBVIOUS
<1> USE DEF SInv, Move, builder, isolate
<1>1. SnapshotTypeOK'
  BY DEF SnapshotTypeOK
<1>2. OpenIsDistinct' /\ ContextInv' /\ SnapshotCallsAreSafe' /\ DataFollowsIsolate'
  BY DEF OpenIsDistinct, ContextInv, SnapshotCallsAreSafe, DataFollowsIsolate
<1>3. ~careless' => NestingInv'
  <2> SUFFICES ASSUME ~careless' PROVE NestingInv'
    OBVIOUS
  <2>1. open = <<>> /\ NestingInv
    OBVIOUS
  <2>2. \A t \in Threads : current[t] = None
    BY <2>1 DEF NestingInv
  <2> QED
    BY <2>1, <2>2 DEF NestingInv, SnapshotTypeOK, Outside
<1> QED
  BY <1>1, <1>2, <1>3

\* A new builder is entered on top of the youngest one.
LEMMA NewStep ==
  ASSUME SInv, NEW b \in Builders, NewSnapshotBuilder(b)
  PROVE  SInv'
<1> USE DEF SInv, NewSnapshotBuilder, isolate
<1>1. open \in Seq(Builders) /\ Len(open) \in Nat /\ DOMAIN open = 1..Len(open)
  BY LenProperties DEF SnapshotTypeOK
<1>2. b \notin ToSet(open)
  BY DEF SnapshotTypeOK
<1>3. /\ open' \in Seq(Builders)
      /\ Len(open') = Len(open) + 1
      /\ \A i \in 1..Len(open) : open'[i] = open[i]
      /\ open'[Len(open) + 1] = b
      /\ ToSet(open') = ToSet(open) \cup {b}
  BY <1>1, OpenGrows
<1>4. SnapshotTypeOK'
  <2>1. ToSet(open') = {c \in Builders : bptr'[c] = "set"}
    BY <1>3 DEF SnapshotTypeOK
  <2> QED
    BY <1>3, <2>1 DEF SnapshotTypeOK
<1>5. OpenIsDistinct'
  <2>1. \A i \in 1..Len(open) : open[i] # b
    BY <1>1, <1>2 DEF ToSet
  <2> QED
    BY <1>1, <1>3, <2>1 DEF OpenIsDistinct
<1>6. ContextInv' /\ SnapshotCallsAreSafe' /\ DataFollowsIsolate'
  BY DEF ContextInv, SnapshotCallsAreSafe, DataFollowsIsolate, SnapshotTypeOK
<1>7. ~careless' => NestingInv'
  <2> SUFFICES ASSUME ~careless' PROVE NestingInv'
    OBVIOUS
  <2>1. NestingInv
    OBVIOUS
  <2>2. current'[at'] = b /\ \A t \in Threads \ {at'} : current'[t] = None
    BY <2>1 DEF NestingInv, SnapshotTypeOK
  <2>3. open' # <<>> /\ Last(open') = b
    BY <1>1, <1>3 DEF Last
  <2>4. ASSUME NEW i \in 1..Len(open) PROVE saved'[open'[i]] = Outside(i)'
    <3>1. open'[i] = open[i] /\ open[i] # b /\ open[i] \in Builders
      BY <1>1, <1>2, <1>3, ElementOfSeq DEF ToSet
    <3>2. saved'[open[i]] = saved[open[i]]
      BY <3>1 DEF SnapshotTypeOK
    <3>3. saved[open[i]] = Outside(i)
      BY <2>1 DEF NestingInv
    <3>4. Outside(i)' = Outside(i)
      BY <1>1, <1>3 DEF Outside
    <3> QED
      BY <3>1, <3>2, <3>3, <3>4
  <2>5. saved'[b] = Outside(Len(open))'
    <3>1. saved'[b] = current[at]
      BY DEF SnapshotTypeOK
    <3>2. CASE open = <<>>
      BY <1>1, <2>1, <3>1, <3>2 DEF NestingInv, Outside
    <3>3. CASE open # <<>>
      <4>1. Len(open) > 0 /\ current[at] = open[Len(open)]
        BY <1>1, <2>1, <3>3, EmptySeq DEF NestingInv, Last
      <4> QED
        <5>1. Len(open') # 1 /\ Len(open') - 1 = Len(open) /\ Len(open) \in 1..Len(open)
          BY <1>1, <1>3, <4>1
        <5>2. Outside(Len(open))' = open[Len(open)]
          BY <1>3, <5>1 DEF Outside
        <5> QED
          BY <3>1, <4>1, <5>2
    <3> QED
      BY <3>2, <3>3
  <2>6. ASSUME NEW i \in 1..Len(open') PROVE saved'[open'[i]] = Outside(i)'
    <3>1. CASE i = Len(open')
      BY <1>3, <2>5, <3>1
    <3>2. CASE i # Len(open')
      BY <1>1, <1>3, <2>4, <3>2
    <3> QED
      BY <3>1, <3>2
  <2> QED
    BY <2>2, <2>3, <2>6 DEF NestingInv
<1> QED
  BY <1>4, <1>5, <1>6, <1>7

\* RunScript and Build find the context, and change no entry.
LEMMA UseStep ==
  ASSUME SInv, NEW b \in Builders, RunScript(b) \/ Build(b)
  PROVE  SInv'
<1> USE DEF SInv, isolate, NeedContext
<1>1. CASE RunScript(b)
  <2>1. bctx[b]
    BY <1>1 DEF RunScript, ContextInv
  <2>2. UNCHANGED svars
    BY <1>1, <2>1 DEF RunScript, Ready, svars
  <2> QED
    BY <2>2 DEF svars, builder, SnapshotTypeOK, OpenIsDistinct, ContextInv,
                SnapshotCallsAreSafe, DataFollowsIsolate, NestingInv, Outside
<1>2. CASE Build(b)
  <2> USE <1>2 DEF Build
  <2>1. bctx[b]
    BY DEF ContextInv
  <2>2. SnapshotTypeOK'
    BY <2>1 DEF SnapshotTypeOK
  <2>3. ContextInv' /\ SnapshotCallsAreSafe'
    BY <2>1 DEF ContextInv, SnapshotCallsAreSafe, SnapshotTypeOK
  <2>4. OpenIsDistinct' /\ DataFollowsIsolate'
    BY DEF OpenIsDistinct, DataFollowsIsolate
  <2>5. ~careless' => NestingInv'
    BY DEF NestingInv, Outside
  <2> QED
    BY <2>2, <2>3, <2>4, <2>5
<1> QED
  BY <1>1, <1>2

\* The youngest builder leaves the thread to the one it was entered on.
LEMMA ReleaseStep ==
  ASSUME SInv, NEW b \in Builders, Release(b)
  PROVE  SInv'
<1> USE DEF SInv, Release, isolate
<1>1. open \in Seq(Builders) /\ Len(open) \in Nat /\ DOMAIN open = 1..Len(open)
  BY LenProperties DEF SnapshotTypeOK
<1>2. PICK k \in 1..Len(open) : open[k] = b /\ open' = RemoveAt(open, k)
  BY DEF Forget
<1>3. /\ open' \in Seq(Builders)
      /\ Len(open') = Len(open) - 1
      /\ \A i \in 1..Len(open) - 1 :
           open'[i] = IF i < k THEN open[i] ELSE open[i+1]
  BY <1>1, <1>2, OpenShrinks
<1>4. DOMAIN open' = 1..Len(open')
  BY <1>3, LenProperties
<1>5. SnapshotTypeOK'
  <2>1. ASSUME NEW i \in 1..Len(open') PROVE open'[i] \in ToSet(open) \ {b}
    <3>1. CASE i < k
      <4>1. i \in 1..Len(open) /\ i # k /\ open'[i] = open[i]
        BY <1>1, <1>3, <3>1
      <4> QED
        BY <1>1, <1>2, <4>1 DEF ToSet, OpenIsDistinct
    <3>2. CASE ~(i < k)
      <4>1. i + 1 \in 1..Len(open) /\ i + 1 # k /\ open'[i] = open[i+1]
        BY <1>1, <1>3, <3>2
      <4> QED
        BY <1>1, <1>2, <4>1 DEF ToSet, OpenIsDistinct
    <3> QED
      BY <3>1, <3>2
  <2>2. ASSUME NEW c \in ToSet(open) \ {b} PROVE c \in ToSet(open')
    <3>1. PICK j \in 1..Len(open) : open[j] = c
      BY <1>1 DEF ToSet
    <3>2. CASE j < k
      <4>1. j \in 1..Len(open') /\ open'[j] = c
        BY <1>1, <1>3, <3>1, <3>2
      <4> QED
        BY <1>4, <4>1 DEF ToSet
    <3>3. CASE ~(j < k)
      <4>1. j # k
        BY <1>2, <3>1
      <4>2. j - 1 \in 1..Len(open) - 1 /\ ~(j - 1 < k) /\ (j - 1) + 1 = j
        BY <1>1, <3>3, <4>1
      <4>3. open'[j - 1] = c
        BY <1>3, <3>1, <4>2
      <4> QED
        BY <1>3, <1>4, <4>2, <4>3 DEF ToSet
    <3> QED
      BY <3>2, <3>3
  <2>3. ToSet(open') = ToSet(open) \ {b}
    BY <1>4, <2>1, <2>2 DEF ToSet
  <2>4. ToSet(open') = {c \in Builders : bptr'[c] = "set"}
    BY <2>3 DEF SnapshotTypeOK
  <2>5. careless' \in BOOLEAN
    BY DEF Forget, SnapshotTypeOK
  <2> QED
    BY <1>3, <2>4, <2>5 DEF SnapshotTypeOK
<1>6. OpenIsDistinct'
  <2>1. ASSUME NEW i \in 1..Len(open'), NEW j \in 1..Len(open'), open'[i] = open'[j]
        PROVE  i = j
    <3> DEFINE before(n) == IF n < k THEN n ELSE n + 1
    <3>1. before(i) \in 1..Len(open) /\ before(j) \in 1..Len(open)
      BY <1>1, <1>3
    <3>2. open'[i] = open[before(i)] /\ open'[j] = open[before(j)]
      BY <1>1, <1>3
    <3>3. before(i) = before(j)
      BY <2>1, <3>1, <3>2 DEF OpenIsDistinct
    <3> QED
      BY <1>1, <1>3, <3>3
  <2> QED
    BY <2>1 DEF OpenIsDistinct
<1>7. ContextInv' /\ SnapshotCallsAreSafe' /\ DataFollowsIsolate'
  BY DEF ContextInv, SnapshotCallsAreSafe, DataFollowsIsolate, SnapshotTypeOK
<1>8. ~careless' => NestingInv'
  <2> SUFFICES ASSUME ~careless' PROVE NestingInv'
    OBVIOUS
  <2>1. NestingInv /\ Last(open) = b
    BY DEF Forget
  <2>2. k = Len(open)
    <3>1. Len(open) \in 1..Len(open) /\ open[Len(open)] = open[k]
      BY <1>1, <1>2, <2>1 DEF Last
    <3> QED
      BY <3>1 DEF OpenIsDistinct
  <2>3. \A i \in 1..Len(open') : open'[i] = open[i]
    BY <1>1, <1>3, <2>2
  <2>4. ASSUME NEW i \in 1..Len(open') PROVE saved'[open'[i]] = Outside(i)'
    <3>1. i \in 1..Len(open) /\ saved[open[i]] = Outside(i)
      BY <1>1, <1>3, <2>1 DEF NestingInv
    <3>2. Outside(i)' = Outside(i)
      BY <1>1, <1>3, <2>3 DEF Outside
    <3> QED
      BY <2>3, <3>1, <3>2
  <2>5. current'[at] = Outside(k)
    BY <1>2, <2>1 DEF NestingInv, SnapshotTypeOK
  <2>6. Outside(k) = IF open' = <<>> THEN None ELSE Last(open')
    <3>1. CASE k = 1
      <4>1. open' = <<>>
        BY <1>3, <2>2, <3>1, EmptySeq
      <4> QED
        BY <3>1, <4>1 DEF Outside
    <3>2. CASE k # 1
      <4>1. Len(open') \in 1..Len(open) - 1 /\ Len(open') = k - 1 /\ open' # <<>>
        BY <1>1, <1>3, <2>2, <3>2
      <4> QED
        BY <2>3, <3>2, <4>1 DEF Outside, Last
    <3> QED
      BY <3>1, <3>2
  <2>7. \A t \in Threads \ {at} : current'[t] = None
    BY <2>1 DEF NestingInv, SnapshotTypeOK
  <2> QED
    BY <2>4, <2>5, <2>6, <2>7 DEF NestingInv
<1> QED
  BY <1>5, <1>6, <1>7, <1>8

\* The isolate and its copy of the data come and go together.
LEMMA IsolateStep ==
  ASSUME SInv,
         \/ \E d \in Data : NewIsolate(d)
         \/ \E isInternal \in BOOLEAN : MakeContext(isInternal)
         \/ Dispose
         \/ FreeData
  PROVE  SInv'
<1> USE DEF SInv, builder
<1> DEFINE Kept == /\ fault' \in {"none", "fatalCheck"}
                   /\ data' \in Data
                   /\ SnapshotCallsAreSafe'
                   /\ iso' \in {"live", "gone", "nil"}
                   /\ blob' \in {"none", "live", "freed"}
                   /\ internal' \in BOOLEAN
                   /\ DataFollowsIsolate'
                   /\ UNCHANGED <<at, current, saved, bptr, bctx, built, snaps,
                                  open, careless>>
<1>1. Kept
  <2>1. ASSUME NEW d \in Data, NewIsolate(d) PROVE Kept
    <3>1. PICK verdict \in Accepts(d) \ {"invalid"} :
            fault' \in IF verdict = "valid" THEN Deserialize(d) ELSE {"fatalCheck"}
      BY <2>1 DEF NewIsolate
    <3>2. fault' = "none" \/ (fault' = "fatalCheck" /\ d \in Unchecked)
      BY <3>1 DEF Data, Accepts, SnapshotDataIsValid, IsValid, Deserialize, Unchecked
    <3>3. SnapshotCallsAreSafe'
      BY <2>1, <3>2 DEF NewIsolate, SnapshotCallsAreSafe
    <3> QED
      BY <2>1, <3>2, <3>3 DEF NewIsolate, DataFollowsIsolate
  <2>2. ASSUME NEW isInternal \in BOOLEAN, MakeContext(isInternal) PROVE Kept
    <3>1. fault' = "none" \/ (fault' = "fatalCheck" /\ data \in Unchecked)
      BY <2>2 DEF MakeContext, DataFollowsIsolate, Deserialize, Unchecked
    <3>2. SnapshotCallsAreSafe'
      BY <2>2, <3>1 DEF MakeContext, SnapshotCallsAreSafe
    <3> QED
      BY <2>2, <3>1, <3>2 DEF MakeContext, DataFollowsIsolate, SnapshotTypeOK
  <2>3. CASE Dispose
    BY <2>3 DEF Dispose, Ready, DataFollowsIsolate, SnapshotTypeOK, SnapshotCallsAreSafe
  <2>4. CASE FreeData
    BY <2>4 DEF FreeData, DataFollowsIsolate, SnapshotTypeOK, SnapshotCallsAreSafe
  <2> QED
    BY <2>1, <2>2, <2>3, <2>4
<1>2. SnapshotTypeOK' /\ SnapshotCallsAreSafe'
  BY <1>1 DEF SnapshotTypeOK
<1>3. OpenIsDistinct' /\ ContextInv'
  BY <1>1 DEF OpenIsDistinct, ContextInv
<1>4. ~careless' => NestingInv'
  BY <1>1 DEF NestingInv, Outside
<1> QED
  BY <1>1, <1>2, <1>3, <1>4

\* Every step keeps the invariant.
LEMMA NextSInv == SInv /\ [SnapshotNext]_svars => SInv'
<1> SUFFICES ASSUME SInv, [SnapshotNext]_svars PROVE SInv'
  OBVIOUS
<1>1. CASE UNCHANGED svars
  BY <1>1 DEF SInv, svars, builder, isolate, SnapshotTypeOK, OpenIsDistinct, ContextInv,
              SnapshotCallsAreSafe, DataFollowsIsolate, NestingInv, Outside
<1> QED
  BY <1>1, MoveStep, NewStep, UseStep, ReleaseStep, IsolateStep DEF SnapshotNext

----------------------------------------------------------------------------
(* Theorems.                                                               *)

\* The invariant holds throughout.
THEOREM SnapshotInvariant == SnapshotSpec => []SInv
  BY InitSInv, NextSInv, PTL DEF SnapshotSpec

\* The variables keep their types, and the history of open builders is exactly
\* the builders whose b.ptr is set.
THEOREM SnapshotTypes == SnapshotSpec => []SnapshotTypeOK
<1>1. SInv => SnapshotTypeOK
  BY DEF SInv
<1> QED
  BY <1>1, SnapshotInvariant, PTL

\* No sequence of RunScript, Build and Release, whether Build fails or not, reads
\* an empty context, and no context is made from freed data.  V8 dies only of
\* snapshot data that passes gv8's check of length and flag and is cut off behind
\* the flag or corrupt under a good header.
THEOREM SnapshotSafety == SnapshotSpec => []SnapshotCallsAreSafe
<1>1. SInv => SnapshotCallsAreSafe
  BY DEF SInv
<1> QED
  BY <1>1, SnapshotInvariant, PTL

\* gv8's copy of the snapshot data lives exactly as long as the isolate.
THEOREM SnapshotDataLifetime == SnapshotSpec => []DataFollowsIsolate
<1>1. SInv => DataFollowsIsolate
  BY DEF SInv
<1> QED
  BY <1>1, SnapshotInvariant, PTL

\* A host that keeps its goroutine on one thread and releases the youngest
\* builder first always releases the current isolate, and no thread is left in
\* an isolate that is gone.
THEOREM SnapshotEntries == SnapshotSpec => []EntriesAreSound
<1>1. SInv => EntriesAreSound
  <2> SUFFICES ASSUME SInv, ~careless
               PROVE  /\ open # <<>> => current[at] = Last(open)
                      /\ \A t \in Threads : current[t] # None => bptr[current[t]] = "set"
    BY DEF EntriesAreSound
  <2> USE DEF SInv
  <2>1. open # <<>> => current[at] = Last(open)
    BY DEF NestingInv
  <2>2. ASSUME NEW t \in Threads, current[t] # None PROVE bptr[current[t]] = "set"
    <3>1. t = at /\ open # <<>> /\ current[t] = Last(open)
      BY <2>2 DEF NestingInv
    <3>2. open \in Seq(Builders) /\ Len(open) \in DOMAIN open
      BY <3>1, LenProperties, EmptySeq DEF SnapshotTypeOK
    <3>3. Last(open) \in ToSet(open)
      BY <3>2 DEF Last, ToSet
    <3> QED
      BY <3>1, <3>3 DEF SnapshotTypeOK
  <2> QED
    BY <2>1, <2>2
<1> QED
  BY <1>1, SnapshotInvariant, PTL
=============================================================================
