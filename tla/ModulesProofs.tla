--------------------------- MODULE ModulesProofs ---------------------------
(***************************************************************************)
(* For every set of modules, names and resolvers and every depth of        *)
(* nesting: one Instantiate puts every static import to the resolver it    *)
(* was given, a module that Instantiate said is linked stays linked, and   *)
(* dynamic imports go where static ones go.                                *)
(***************************************************************************)
EXTENDS Modules, SequenceTheorems, TLAPS

USE ModuleConstants

----------------------------------------------------------------------------
(* The inductive invariant, part by part.                                  *)

Depths == 1..Len(stack)
IsLink(i) == stack[i].kind = "link"

\* A static import is resolved for the link below it, which waits for it.
ShapeInv ==
  \A i \in Depths : stack[i].kind = "resolve" =>
    i # 1 /\ IsLink(i-1) /\ stack[i-1].todo = stack[i].mod

\* A link owns the modules it is linking: it shares none with another link, and
\* their status says so.
LinkInv ==
  /\ \A i \in Depths : IsLink(i) =>
       /\ stack[i].mod \in stack[i].seen
       /\ stack[i].todo \in stack[i].seen \cup {NoMod}
       /\ \A m \in stack[i].seen : status[m] = "linking"
  /\ \A i, j \in Depths : IsLink(i) /\ IsLink(j) /\ i # j =>
       stack[i].seen \cap stack[j].seen = {}

\* The module whose import a link asks for next is bound to its resolver.
BoundInv ==
  ~closed => \A i \in Depths :
    IsLink(i) /\ stack[i].todo # NoMod /\ stack[i].by # NoResolver =>
      byScript[stack[i].todo] = stack[i].by

\* The code of a module runs when the module is linked.
CodeInv == \A i \in Depths : stack[i].kind = "js" /\ stack[i].mod # NoMod =>
             Linked(stack[i].mod)

\* Close has emptied the tables and nothing is bound afterwards.
ClosedInv == closed => byScript = [m \in Mods |-> NoResolver]

\* The only module of its resource name.
OwnsName(m) == Name[m] # NoName /\ \A k \in Mods : Name[k] = Name[m] => k = m

\* StaticAndDynamicAgree for modules that are not compiled yet as well.
AgreeInv == \A m \in Mods : ptr[m] # "nil" /\ OwnsName(m) => byName[Name[m]] = byScript[m]

\* What is said of the stack.
StackInv == ShapeInv /\ LinkInv /\ BoundInv /\ CodeInv /\ ResolverIsTheOneGiven

MInv == ModulesTypeOK /\ StackInv /\ ClosedInv /\ AgreeInv /\ ToldIsLinked

----------------------------------------------------------------------------
(* Frames and stacks.                                                      *)

\* What is left of a stack when its innermost frame is popped.
LEMMA StackPop ==
  ASSUME NEW S, NEW s \in Seq(S), s # <<>>
  PROVE  /\ Front(s) \in Seq(S)
         /\ Last(s) \in S
         /\ Len(s) \in Nat \ {0}
         /\ Len(Front(s)) = Len(s) - 1
         /\ Last(s) = s[Len(s)]
         /\ \A i \in 1..Len(s)-1 : Front(s)[i] = s[i]
<1>1. Len(s) \in Nat \ {0} /\ \A i \in 1..Len(s) : s[i] \in S
  BY EmptySeq
<1>2. PICK n \in Nat : n = Len(s) - 1
  BY <1>1
<1>3. SubSeq(s, 1, n) \in Seq(S)
  BY <1>1, <1>2, SubSeqProperties
<1>4. Len(SubSeq(s, 1, n)) = n /\ \A i \in 1..n : SubSeq(s, 1, n)[i] = s[i]
  BY <1>1, <1>2
<1> QED
  BY <1>1, <1>2, <1>3, <1>4 DEF Front, Last

\* What is in a frame of each kind.
LEMMA FrameFields ==
  ASSUME NEW f \in Frames
  PROVE  /\ f.kind \in {"link", "resolve", "import", "js"}
         /\ f.kind = "link" => /\ f.mod \in Mods /\ f.by \in MaybeResolver
                               /\ f.todo \in MaybeMod /\ f.seen \in SUBSET Mods
                               /\ f = Link(f.mod, f.by, f.todo, f.seen)
         /\ f.kind = "resolve" => f.mod \in Mods /\ f.by \in Resolvers
         /\ f.kind = "js" => f.mod \in MaybeMod /\ f.name \in MaybeName
<1>1. CASE \E m \in Mods, r \in MaybeResolver, t \in MaybeMod, s \in SUBSET Mods :
             f = Link(m, r, t, s)
  BY <1>1 DEF Link
<1>2. CASE \E m \in Mods, r \in Resolvers : f = Resolve(m, r)
  BY <1>2 DEF Resolve
<1>3. CASE \E m \in MaybeMod, r \in DynamicResolvers : f = Import(m, r)
  BY <1>3 DEF Import
<1>4. CASE \E m \in MaybeMod, n \in MaybeName : f = JS(m, n)
  BY <1>4 DEF JS
<1> QED
  BY <1>1, <1>2, <1>3, <1>4 DEF Frames

\* The frames that the actions push are frames.
LEMMA NewFrames ==
  /\ \A m \in Mods, r \in MaybeResolver, t \in MaybeMod, s \in SUBSET Mods :
       /\ Link(m, r, t, s) \in Frames /\ Link(m, r, t, s).kind = "link"
       /\ Link(m, r, t, s).mod = m /\ Link(m, r, t, s).by = r
       /\ Link(m, r, t, s).todo = t /\ Link(m, r, t, s).seen = s
  /\ \A m \in Mods, r \in Resolvers :
       /\ Resolve(m, r) \in Frames /\ Resolve(m, r).kind = "resolve"
       /\ Resolve(m, r).mod = m /\ Resolve(m, r).by = r
  /\ \A m \in MaybeMod, r \in DynamicResolvers :
       Import(m, r) \in Frames /\ Import(m, r).kind = "import"
  /\ \A m \in MaybeMod, n \in MaybeName :
       JS(m, n) \in Frames /\ JS(m, n).kind = "js" /\ JS(m, n).mod = m
<1>1. \A m \in Mods, r \in MaybeResolver, t \in MaybeMod, s \in SUBSET Mods :
        Link(m, r, t, s) \in Frames
  BY DEF Frames
<1>2. \A m \in Mods, r \in Resolvers : Resolve(m, r) \in Frames
  BY DEF Frames
<1>3. \A m \in MaybeMod, r \in DynamicResolvers : Import(m, r) \in Frames
  BY DEF Frames
<1>4. \A m \in MaybeMod, n \in MaybeName : JS(m, n) \in Frames
  BY DEF Frames
<1>5. \A m, r, t, s : /\ Link(m, r, t, s).kind = "link"
                      /\ Link(m, r, t, s).mod = m /\ Link(m, r, t, s).by = r
                      /\ Link(m, r, t, s).todo = t /\ Link(m, r, t, s).seen = s
  BY DEF Link
<1>6. \A m, r : /\ Resolve(m, r).kind = "resolve"
                /\ Resolve(m, r).mod = m /\ Resolve(m, r).by = r
                /\ Import(m, r).kind = "import"
  BY DEF Resolve, Import
<1>7. \A m, n : JS(m, n).kind = "js" /\ JS(m, n).mod = m
  BY DEF JS
<1> QED
  BY <1>1, <1>2, <1>3, <1>4, <1>5, <1>6, <1>7

\* The innermost frame of a stack that is not empty.
LEMMA TopFrame ==
  ASSUME ModulesTypeOK, NEW k, k # "host", In(k)
  PROVE  /\ stack # <<>> /\ Len(stack) \in Nat \ {0}
         /\ Top = stack[Len(stack)] /\ Top \in Frames /\ Top.kind = k
<1>1. stack # <<>> /\ Top.kind = k
  BY DEF In, Innermost, Top
<1> QED
  BY <1>1, StackPop DEF ModulesTypeOK, Top

\* A resolver at work is above the link that asked it.
LEMMA ResolveFrame ==
  ASSUME ModulesTypeOK, ShapeInv, In("resolve")
  PROVE  /\ Len(stack) \in Nat /\ Len(stack) > 1
         /\ Top = stack[Len(stack)] /\ Top.mod \in Mods /\ Top.by \in Resolvers
         /\ Below = stack[Len(stack) - 1] /\ IsLink(Len(stack) - 1)
         /\ Below \in Frames /\ Below.todo = Top.mod
<1>1. /\ stack # <<>> /\ Len(stack) \in Nat \ {0}
      /\ Top = stack[Len(stack)] /\ Top \in Frames /\ Top.kind = "resolve"
  BY TopFrame
<1>2. Top.mod \in Mods /\ Top.by \in Resolvers
  BY <1>1, FrameFields
<1>3. Len(stack) # 1 /\ IsLink(Len(stack) - 1) /\ stack[Len(stack) - 1].todo = Top.mod
  BY <1>1 DEF ShapeInv, Depths
<1>4. /\ Front(stack) \in Seq(Frames)
      /\ Len(Front(stack)) = Len(stack) - 1
      /\ \A i \in 1..Len(stack) - 1 : Front(stack)[i] = stack[i]
  BY <1>1, StackPop DEF ModulesTypeOK
<1>5. Front(stack) # <<>>
  BY <1>1, <1>3, <1>4
<1>6. /\ Last(Front(stack)) \in Frames
      /\ Last(Front(stack)) = Front(stack)[Len(Front(stack))]
  BY <1>4, <1>5, StackPop
<1>7. Below = stack[Len(stack) - 1] /\ Below \in Frames
  BY <1>1, <1>3, <1>4, <1>6 DEF Below
<1>8. Len(stack) \in Nat /\ Len(stack) > 1
  <2>1. Len(stack) \in Nat /\ Len(stack) # 0 /\ Len(stack) # 1
    BY <1>1, <1>3
  <2>2. \A n \in Nat : n # 0 /\ n # 1 => n > 1
    OBVIOUS
  <2> QED
    BY <2>1, <2>2
<1> QED
  BY <1>1, <1>2, <1>3, <1>7, <1>8

\* The first k frames stay.
Keeps(k) ==
  /\ stack' \in Seq(Frames) /\ Len(stack') <= MaxStack
  /\ k \in 0..Len(stack) /\ Len(stack') \in {k, k + 1}
  /\ \A i \in 1..k : stack'[i] = stack[i]

\* A push keeps all frames.
LEMMA PushKeeps ==
  ASSUME ModulesTypeOK, NEW f \in Frames, Push(f)
  PROVE  Keeps(Len(stack)) /\ Len(stack') = Len(stack) + 1 /\ stack'[Len(stack) + 1] = f
<1>1. stack \in Seq(Frames) /\ Len(stack) \in Nat
  BY LenProperties DEF ModulesTypeOK
<1> QED
  BY <1>1, AppendProperties DEF Push, Keeps

\* A pop keeps all but one.
LEMMA PopKeeps ==
  ASSUME ModulesTypeOK, stack # <<>>, Pop
  PROVE  Keeps(Len(stack) - 1) /\ Len(stack') = Len(stack) - 1
  BY StackPop DEF ModulesTypeOK, Pop, Keeps

\* The resolver and its link go, and a changed link may come back.
LEMMA PopTwoKeeps ==
  ASSUME ModulesTypeOK, Len(stack) \in Nat /\ Len(stack) > 1
  PROVE  /\ stack' = Front(Front(stack)) =>
              Keeps(Len(stack) - 2) /\ Len(stack') = Len(stack) - 2
         /\ \A f \in Frames : PopTo(f) =>
              /\ Keeps(Len(stack) - 2) /\ Len(stack') = Len(stack) - 1
              /\ stack'[Len(stack) - 1] = f
<1>1. /\ Front(stack) \in Seq(Frames)
      /\ Len(Front(stack)) = Len(stack) - 1
      /\ \A i \in 1..Len(stack) - 1 : Front(stack)[i] = stack[i]
  <2>1. stack # <<>>
    OBVIOUS
  <2> QED
    BY <2>1, StackPop DEF ModulesTypeOK
<1>2. Front(stack) # <<>>
  BY <1>1
<1> DEFINE ff == Front(Front(stack))
<1>3. /\ ff \in Seq(Frames)
      /\ Len(ff) = Len(stack) - 2
      /\ \A i \in 1..Len(stack) - 2 : ff[i] = stack[i]
  <2>1. /\ ff \in Seq(Frames)
        /\ Len(ff) = Len(Front(stack)) - 1
        /\ \A i \in 1..Len(Front(stack)) - 1 : ff[i] = Front(stack)[i]
    BY <1>1, <1>2, StackPop
  <2>2. Len(Front(stack)) - 1 = Len(stack) - 2
    BY <1>1
  <2>3. \A i \in 1..Len(stack) - 2 : i \in 1..Len(stack) - 1
    OBVIOUS
  <2> HIDE DEF ff
  <2> QED
    BY <1>1, <2>1, <2>2, <2>3
<1> HIDE DEF ff
<1>4. stack' = ff => Keeps(Len(stack) - 2) /\ Len(stack') = Len(stack) - 2
  BY <1>3 DEF Keeps, ModulesTypeOK
<1>5. ASSUME NEW f \in Frames, stack' = Append(ff, f)
      PROVE  /\ Keeps(Len(stack) - 2) /\ Len(stack') = Len(stack) - 1
             /\ stack'[Len(stack) - 1] = f
  <2>1. /\ stack' \in Seq(Frames)
        /\ Len(stack') = Len(stack) - 1
        /\ \A i \in 1..Len(stack) - 2 : stack'[i] = stack[i]
        /\ stack'[Len(stack) - 1] = f
    BY <1>3, <1>5, AppendProperties
  <2> QED
    BY <2>1 DEF Keeps, ModulesTypeOK
<1> QED
  BY <1>4, <1>5 DEF PopTo, ff

----------------------------------------------------------------------------
(* What a step has to respect.                                             *)

WillBeLinked(m) == status'[m] \in {"linked", "errored"}

\* What the links among the first k frames own is left alone.
Respects(k) ==
  /\ \A i \in 1..k : IsLink(i) =>
       \A m \in stack[i].seen : status'[m] = "linking" /\ (~closed' => byScript'[m] = byScript[m])
  /\ \A m \in Mods : Linked(m) => WillBeLinked(m)
  /\ closed => closed'

\* A frame f fits on top of the first k frames.
Fits(k, f) ==
  /\ f.kind = "resolve" =>
       /\ k # 0 /\ IsLink(k) /\ stack[k].todo = f.mod
       /\ stack[k].by # NoResolver => f.by = stack[k].by
  /\ f.kind = "link" =>
       /\ f.mod \in f.seen /\ f.todo \in f.seen \cup {NoMod}
       /\ \A m \in f.seen : status'[m] = "linking"
       /\ \A i \in 1..k : IsLink(i) => stack[i].seen \cap f.seen = {}
       /\ ~closed' /\ f.todo # NoMod /\ f.by # NoResolver => byScript'[f.todo] = f.by
  /\ f.kind = "js" /\ f.mod # NoMod => WillBeLinked(f.mod)

\* Such a step keeps what is said of the stack.
LEMMA StackStep ==
  ASSUME ModulesTypeOK, StackInv, NEW k \in 0..Len(stack), Keeps(k), Respects(k),
         Len(stack') = k + 1 => Fits(k, stack'[k + 1])
  PROVE  StackInv'
<1>1. Len(stack) \in Nat /\ Len(stack') \in Nat /\ k \in Nat
  BY LenProperties DEF ModulesTypeOK, Keeps
<1>2. \A i \in Depths' :
        \/ i \in 1..k /\ i \in Depths /\ stack'[i] = stack[i]
        \/ i = k + 1 /\ Len(stack') = k + 1
  <2> SUFFICES ASSUME NEW i \in 1..Len(stack')
               PROVE  \/ i \in 1..k /\ i \in 1..Len(stack) /\ stack'[i] = stack[i]
                      \/ i = k + 1 /\ Len(stack') = k + 1
    BY DEF Depths
  <2>1. Len(stack') = k \/ Len(stack') = k + 1
    BY DEF Keeps
  <2>2. i \in 1..k \/ i = k + 1
    BY <1>1, <2>1
  <2>3. CASE i \in 1..k
    BY <1>1, <2>3 DEF Keeps
  <2>4. CASE i = k + 1
    BY <1>1, <2>1, <2>4
  <2> QED
    BY <2>2, <2>3, <2>4
<1>3. ShapeInv'
  <2> SUFFICES ASSUME NEW i \in Depths', stack'[i].kind = "resolve"
               PROVE  i # 1 /\ IsLink(i-1)' /\ stack'[i-1].todo = stack'[i].mod
    BY DEF ShapeInv, IsLink
  <2>1. CASE i \in 1..k /\ i \in Depths /\ stack'[i] = stack[i]
    <3>1. i # 1 /\ IsLink(i-1) /\ stack[i-1].todo = stack[i].mod
      BY <2>1 DEF StackInv, ShapeInv
    <3>2. stack'[i-1] = stack[i-1]
      <4>1. i - 1 \in 1..k
        BY <1>1, <2>1, <3>1
      <4> QED
        BY <4>1 DEF Keeps
    <3> QED
      BY <2>1, <3>1, <3>2 DEF IsLink
  <2>2. CASE i = k + 1 /\ Len(stack') = k + 1
    <3>1. k # 0 /\ IsLink(k) /\ stack[k].todo = stack'[i].mod
      BY <2>2 DEF Fits
    <3>2. i - 1 = k /\ i # 1 /\ stack'[k] = stack[k]
      BY <1>1, <2>2, <3>1 DEF Keeps
    <3> QED
      BY <3>1, <3>2 DEF IsLink
  <2> QED
    BY <1>2, <2>1, <2>2
<1>4. LinkInv'
  <2>1. ASSUME NEW i \in Depths', IsLink(i)'
        PROVE  /\ stack'[i].mod \in stack'[i].seen
               /\ stack'[i].todo \in stack'[i].seen \cup {NoMod}
               /\ \A m \in stack'[i].seen : status'[m] = "linking"
    <3>1. CASE i \in 1..k /\ i \in Depths /\ stack'[i] = stack[i]
      BY <2>1, <3>1 DEF StackInv, LinkInv, IsLink, Respects
    <3>2. CASE i = k + 1 /\ Len(stack') = k + 1
      BY <2>1, <3>2 DEF Fits, IsLink
    <3> QED
      BY <1>2, <3>1, <3>2
  <2>2. ASSUME NEW i \in Depths', NEW j \in Depths', IsLink(i)', IsLink(j)', i # j
        PROVE  stack'[i].seen \cap stack'[j].seen = {}
    <3>1. CASE i \in 1..k /\ stack'[i] = stack[i] /\ j \in 1..k /\ stack'[j] = stack[j]
      BY <1>1, <2>2, <3>1 DEF StackInv, LinkInv, IsLink, Depths
    <3>2. CASE i \in 1..k /\ stack'[i] = stack[i] /\ j = k + 1 /\ Len(stack') = k + 1
      BY <2>2, <3>2 DEF Fits, IsLink
    <3>3. CASE j \in 1..k /\ stack'[j] = stack[j] /\ i = k + 1 /\ Len(stack') = k + 1
      BY <2>2, <3>3 DEF Fits, IsLink
    <3> QED
      BY <1>2, <2>2, <3>1, <3>2, <3>3
  <2> QED
    BY <2>1, <2>2 DEF LinkInv, IsLink
<1>5. BoundInv'
  <2> SUFFICES ASSUME ~closed', NEW i \in Depths', IsLink(i)',
                      stack'[i].todo # NoMod, stack'[i].by # NoResolver
               PROVE  byScript'[stack'[i].todo] = stack'[i].by
    BY DEF BoundInv, IsLink
  <2>1. CASE i \in 1..k /\ i \in Depths /\ stack'[i] = stack[i]
    <3>1. IsLink(i) /\ stack[i].todo \in stack[i].seen /\ byScript[stack[i].todo] = stack[i].by
      BY <2>1 DEF StackInv, LinkInv, BoundInv, IsLink, Respects
    <3> QED
      BY <2>1, <3>1 DEF Respects
  <2>2. CASE i = k + 1 /\ Len(stack') = k + 1
    BY <2>2 DEF Fits, IsLink
  <2> QED
    BY <1>2, <2>1, <2>2
<1>6. CodeInv'
  <2> SUFFICES ASSUME NEW i \in Depths', stack'[i].kind = "js", stack'[i].mod # NoMod
               PROVE  Linked(stack[i].mod)'
    BY DEF CodeInv
  <2>1. CASE i \in 1..k /\ i \in Depths /\ stack'[i] = stack[i]
    <3>1. stack[i] \in Frames
      BY <2>1, ElementOfSeq DEF ModulesTypeOK, Depths
    <3>2. stack[i].mod \in Mods
      BY <2>1, <3>1, FrameFields DEF MaybeMod
    <3>3. Linked(stack[i].mod)
      BY <2>1 DEF StackInv, CodeInv
    <3> QED
      BY <2>1, <3>2, <3>3 DEF Respects, Linked, WillBeLinked
  <2>2. CASE i = k + 1 /\ Len(stack') = k + 1
    BY <2>2 DEF Fits, Linked, WillBeLinked
  <2> QED
    BY <1>2, <2>1, <2>2
<1>7. ResolverIsTheOneGiven'
  <2> SUFFICES ASSUME NEW i \in 2..Len(stack'),
                      stack'[i].kind = "resolve", stack'[i-1].by # NoResolver
               PROVE  stack'[i].by = stack'[i-1].by
    BY DEF ResolverIsTheOneGiven
  <2>1. CASE i \in 1..k /\ i \in Depths /\ stack'[i] = stack[i]
    <3>1. stack'[i-1] = stack[i-1] /\ i \in 2..Len(stack)
      BY <1>1, <2>1 DEF Keeps, Depths
    <3> QED
      BY <2>1, <3>1 DEF StackInv, ResolverIsTheOneGiven
  <2>2. CASE i = k + 1 /\ Len(stack') = k + 1
    <3>1. i - 1 = k /\ k \in 1..k
      BY <1>1, <2>2
    <3>2. stack'[k] = stack[k]
      BY <3>1 DEF Keeps
    <3> QED
      BY <2>2, <3>1, <3>2 DEF Fits
  <2>3. i \in Depths'
    BY <1>1 DEF Depths
  <2> QED
    BY <1>2, <2>1, <2>2, <2>3
<1> QED
  BY <1>3, <1>4, <1>5, <1>6, <1>7 DEF StackInv

----------------------------------------------------------------------------
(* Pieces that several actions share.                                      *)

\* The links own what they are linking.
LEMMA Owned ==
  ASSUME ModulesTypeOK, StackInv, NEW i \in Depths, IsLink(i)
  PROVE  /\ stack[i] \in Frames /\ stack[i].seen \in SUBSET Mods
         /\ \A m \in stack[i].seen : status[m] = "linking" /\ ~Linked(m)
<1>1. stack[i] \in Frames
  BY ElementOfSeq DEF ModulesTypeOK, Depths
<1>2. stack[i].seen \in SUBSET Mods
  BY <1>1, FrameFields DEF IsLink
<1> QED
  BY <1>1, <1>2 DEF StackInv, LinkInv, Linked

\* A step that changes neither status nor the resolver of a module being linked
\* respects the whole stack.
LEMMA RespectsAll ==
  ASSUME ModulesTypeOK, StackInv,
         \A m \in Mods : status[m] = "linking" =>
           status'[m] = "linking" /\ (~closed' => byScript'[m] = byScript[m]),
         \A m \in Mods : Linked(m) => WillBeLinked(m),
         closed => closed'
  PROVE  Respects(Len(stack))
<1>1. ASSUME NEW i \in 1..Len(stack), IsLink(i), NEW m \in stack[i].seen
      PROVE  status'[m] = "linking" /\ (~closed' => byScript'[m] = byScript[m])
  BY <1>1, Owned DEF Depths
<1> QED
  BY <1>1 DEF Respects

\* A link that ends takes only its own modules along.
LEMMA LinkEnds ==
  ASSUME ModulesTypeOK, StackInv, NEW l \in Depths, IsLink(l), NEW k \in 0..l-1,
         NEW s, SetStatus(stack[l].seen, s), UNCHANGED <<byScript, closed>>
  PROVE  /\ Respects(k)
         /\ \A m \in Mods : Linked(m) => status'[m] = status[m]
<1>1. stack[l].seen \in SUBSET Mods /\ \A m \in stack[l].seen : ~Linked(m)
  BY Owned
<1>2. \A m \in Mods \ stack[l].seen : status'[m] = status[m]
  BY DEF SetStatus
<1>3. ASSUME NEW i \in 1..k, IsLink(i), NEW m \in stack[i].seen
      PROVE  status'[m] = "linking"
  <2>1. i \in Depths /\ i # l
    BY LenProperties DEF Depths, ModulesTypeOK
  <2>2. m \in Mods /\ status[m] = "linking"
    BY <1>3, <2>1, Owned
  <2>3. m \notin stack[l].seen
    BY <1>3, <2>1 DEF StackInv, LinkInv
  <2> QED
    BY <1>2, <2>2, <2>3
<1> QED
  BY <1>1, <1>2, <1>3 DEF Respects, Linked, WillBeLinked

\* The new status of a set of modules.
LEMMA StatusType ==
  ASSUME ModulesTypeOK, NEW ms, NEW s \in {"unlinked", "linking", "linked", "errored"},
         SetStatus(ms, s)
  PROVE  status' \in [Mods -> {"unlinked", "linking", "linked", "errored"}]
  BY DEF ModulesTypeOK, SetStatus

\* Nothing that ToldIsLinked, AgreeInv and ClosedInv look at has changed for the worse.
LEMMA RestKept ==
  ASSUME MInv, UNCHANGED <<ptr, tables, claims, closed>>,
         \A m \in Mods : Linked(m) => WillBeLinked(m)
  PROVE  ClosedInv' /\ AgreeInv' /\ ToldIsLinked'
<1>1. ClosedInv' /\ AgreeInv'
  BY DEF MInv, tables, ClosedInv, AgreeInv, OwnsName
<1>2. ToldIsLinked'
  BY DEF MInv, claims, ToldIsLinked, Linked, WillBeLinked, ModulesTypeOK
<1> QED
  BY <1>1, <1>2

\* What bindModuleResolver does.
LEMMA Binds ==
  ASSUME MInv, NEW m \in Mods, NEW r \in MaybeResolver, ptr[m] # "unborn",
         bindModuleResolver(m, r), UNCHANGED <<ptr, closed>>
  PROVE  /\ byScript' \in [Mods -> MaybeResolver]
         /\ byName' \in [Names -> MaybeResolver]
         /\ \A k \in Mods \ {m} : byScript'[k] = byScript[k]
         /\ ptr[m] = "set" /\ r # NoResolver /\ ~closed => byScript'[m] = r
         /\ ptr[m] = "nil" => byScript' = byScript
         /\ ClosedInv' /\ AgreeInv'
<1> USE DEF MInv, ModulesTypeOK, bindModuleResolver
<1>1. byScript' \in [Mods -> MaybeResolver] /\ byName' \in [Names -> MaybeResolver]
  OBVIOUS
<1>2. /\ \A k \in Mods \ {m} : byScript'[k] = byScript[k]
      /\ ptr[m] = "set" /\ r # NoResolver /\ ~closed => byScript'[m] = r
      /\ ptr[m] = "nil" => byScript' = byScript
  OBVIOUS
<1>3. ClosedInv'
  BY DEF ClosedInv
<1>4. AgreeInv'
  <2> SUFFICES ASSUME NEW k \in Mods, ptr[k] # "nil", OwnsName(k)
               PROVE  byName'[Name[k]] = byScript'[k]
    BY DEF AgreeInv, OwnsName
  <2>1. byName[Name[k]] = byScript[k] /\ Name[k] \in Names
    BY DEF AgreeInv, OwnsName
  <2>2. CASE k = m
    BY <2>1, <2>2
  <2>3. CASE k # m
    BY <2>1, <2>3 DEF OwnsName
  <2> QED
    BY <2>2, <2>3
<1> QED
  BY <1>1, <1>2, <1>3, <1>4

\* A crash changes nothing else.
LEMMA CrashStep ==
  ASSUME MInv,
         NEW f \in {"nilModule", "nilDeref", "useAfterFree", "noException", "notLinked",
                    "erroredScript"},
         Crash(f)
  PROVE  MInv'
<1>1. UNCHANGED <<stack, ptr, status, byScript, byName, told, lied, failures, closed>>
  BY DEF Crash, graph, tables, claims
<1>2. fault' = f
  BY DEF Crash
<1>3. ModulesTypeOK'
  BY <1>1, <1>2 DEF MInv, ModulesTypeOK
<1>4. StackInv'
  BY <1>1 DEF MInv, StackInv, ShapeInv, LinkInv, BoundInv, CodeInv, ResolverIsTheOneGiven,
              Linked, Depths, IsLink
<1>5. ClosedInv' /\ AgreeInv' /\ ToldIsLinked'
  BY <1>1 DEF MInv, ClosedInv, AgreeInv, OwnsName, ToldIsLinked, Linked
<1> QED
  BY <1>3, <1>4, <1>5 DEF MInv

\* A step of the stack alone.
LEMMA StackOnly ==
  ASSUME MInv, NEW k \in 0..Len(stack), Keeps(k),
         Len(stack') = k + 1 => Fits(k, stack'[k + 1]),
         UNCHANGED <<graph, tables, claims, closed, fault>>, failures' \in 0..MaxFailures
  PROVE  MInv'
<1> USE DEF MInv
<1>1. ModulesTypeOK'
  BY DEF ModulesTypeOK, Keeps, graph, tables, claims
<1>2. Respects(Len(stack))
  BY RespectsAll DEF graph, tables, Linked, WillBeLinked
<1>3. Respects(k)
  <2>1. \A i \in 1..k : i \in 1..Len(stack)
    BY LenProperties DEF ModulesTypeOK
  <2> QED
    BY <1>2, <2>1 DEF Respects
<1>4. StackInv'
  BY <1>3, StackStep
<1>5. ClosedInv' /\ AgreeInv' /\ ToldIsLinked'
  BY RestKept DEF graph, Linked, WillBeLinked
<1> QED
  BY <1>1, <1>4, <1>5

----------------------------------------------------------------------------
(* The actions.                                                            *)

\* Nothing is compiled, bound or running yet.
LEMMA InitMInv == ModulesInit => MInv
<1> SUFFICES ASSUME ModulesInit PROVE MInv
  OBVIOUS
<1>1. stack \in Seq(Frames) /\ Len(stack) = 0
  BY DEF ModulesInit
<1>2. ModulesTypeOK
  <2>1. stack \in Seq(Frames) /\ Len(stack) <= MaxStack /\ failures \in 0..MaxFailures
    BY <1>1 DEF ModulesInit
  <2>2. closed \in BOOLEAN
    BY DEF ModulesInit
  <2> QED
    BY <2>1, <2>2 DEF ModulesInit, ModulesTypeOK, MaybeResolver
<1>3. StackInv
  BY <1>1 DEF StackInv, ShapeInv, LinkInv, BoundInv, CodeInv, ResolverIsTheOneGiven, Depths
<1>4. ClosedInv /\ ToldIsLinked
  BY DEF ModulesInit, ClosedInv, ToldIsLinked
<1>5. AgreeInv
  BY <1>2 DEF ModulesInit, AgreeInv, OwnsName, ModulesTypeOK
<1> QED
  BY <1>2, <1>3, <1>4, <1>5 DEF MInv

\* CompileModule, Release and Close leave the stack alone.
LEMMA LifeSteps ==
  ASSUME MInv,
         (\E m \in Mods : CompileModule(m) \/ Release(m)) \/ Close
  PROVE  MInv'
<1> USE DEF MInv
<1>1. UNCHANGED <<stack, status, claims, failures, fault>>
  BY DEF CompileModule, Release, Close, graph
<1>2. ModulesTypeOK'
  <2>1. ASSUME NEW m \in Mods, CompileModule(m) \/ Release(m) PROVE ModulesTypeOK'
    BY <1>1, <2>1 DEF CompileModule, Release, ModulesTypeOK, tables, claims
  <2>2. CASE Close
    BY <1>1, <2>2 DEF Close, ModulesTypeOK, graph, claims, MaybeResolver
  <2> QED
    BY <2>1, <2>2
<1>3. StackInv'
  <2>1. closed' \/ (byScript' = byScript /\ closed' = closed)
    BY DEF CompileModule, Release, Close, tables
  <2> QED
    BY <1>1, <2>1 DEF StackInv, ShapeInv, LinkInv, BoundInv, CodeInv,
                      ResolverIsTheOneGiven, Linked, Depths, IsLink
<1>4. ToldIsLinked'
  BY <1>1 DEF claims, ToldIsLinked, Linked
<1>5. ClosedInv' /\ AgreeInv'
  <2>1. ASSUME NEW m \in Mods, CompileModule(m) \/ Release(m) PROVE ClosedInv' /\ AgreeInv'
    <3>1. ClosedInv'
      BY <2>1 DEF CompileModule, Release, tables, ClosedInv
    <3>2. \A k \in Mods : ptr'[k] # "nil" => ptr[k] # "nil"
      BY <2>1 DEF CompileModule, Release, ModulesTypeOK
    <3>3. AgreeInv'
      BY <2>1, <3>2 DEF CompileModule, Release, tables, AgreeInv, OwnsName
    <3> QED
      BY <3>1, <3>3
  <2>2. CASE Close
    BY <2>2 DEF Close, graph, ClosedInv, AgreeInv, OwnsName, ModulesTypeOK
  <2> QED
    BY <2>1, <2>2
<1> QED
  BY <1>2, <1>3, <1>4, <1>5

\* Instantiate binds a module that nobody is linking, and links it.
LEMMA InstantiateStep ==
  ASSUME MInv, NEW m \in Mods, NEW r \in MaybeResolver, Instantiate(m, r)
  PROVE  MInv'
<1> USE DEF MInv
<1>1. CASE Crash("erroredScript")
  BY <1>1, CrashStep
<1>2. ASSUME bindModuleResolver(m, r), UNCHANGED <<ptr, failures, closed, fault>>
      PROVE  /\ byScript' \in [Mods -> MaybeResolver]
             /\ byName' \in [Names -> MaybeResolver]
             /\ \A k \in Mods \ {m} : byScript'[k] = byScript[k]
             /\ r # NoResolver /\ ~closed => byScript'[m] = r
             /\ ClosedInv' /\ AgreeInv'
  BY <1>2, Binds DEF Instantiate
<1>3. ASSUME bindModuleResolver(m, r), Linked(m), told' = told \cup {m},
             UNCHANGED <<stack, status, lied, ptr, failures, closed, fault>>
      PROVE  MInv'
  <2>1. ModulesTypeOK'
    BY <1>2, <1>3 DEF ModulesTypeOK
  <2>2. Respects(Len(stack))
    BY <1>2, <1>3, RespectsAll DEF Linked, WillBeLinked
  <2>3. Keeps(Len(stack)) /\ Len(stack) \in 0..Len(stack)
    BY <1>3, LenProperties DEF Keeps, ModulesTypeOK
  <2>4. Len(stack') # Len(stack) + 1
    BY <1>3, LenProperties DEF ModulesTypeOK
  <2>5. StackInv'
    BY <2>2, <2>3, <2>4, StackStep
  <2>6. ToldIsLinked'
    BY <1>3 DEF ToldIsLinked, Linked
  <2> QED
    BY <1>2, <1>3, <2>1, <2>5, <2>6
<1>4. ASSUME bindModuleResolver(m, r), status[m] = "unlinked", SetStatus({m}, "linking"),
             Push(Link(m, r, m, {m})), ~closed, ptr[m] = "set",
             UNCHANGED <<claims, ptr, failures, closed, fault>>
      PROVE  MInv'
  <2> DEFINE f == Link(m, r, m, {m})
  <2>1. /\ f \in Frames /\ f.kind = "link" /\ f.mod = m /\ f.by = r /\ f.todo = m
        /\ f.seen = {m}
    BY NewFrames DEF MaybeMod
  <2> HIDE DEF f
  <2>2. Keeps(Len(stack)) /\ Len(stack') = Len(stack) + 1 /\ stack'[Len(stack) + 1] = f
    BY <1>4, <2>1, PushKeeps DEF f
  <2>3. /\ status' \in [Mods -> {"unlinked", "linking", "linked", "errored"}]
        /\ status'[m] = "linking" /\ \A k \in Mods \ {m} : status'[k] = status[k]
    BY <1>4, StatusType DEF SetStatus
  <2>4. ModulesTypeOK'
    BY <1>2, <1>4, <2>2, <2>3 DEF ModulesTypeOK, Keeps, claims
  <2>5. \A k \in Mods : Linked(k) => WillBeLinked(k)
    BY <1>4, <2>3 DEF Linked, WillBeLinked
  <2>6. Respects(Len(stack))
    BY <1>2, <1>4, <2>3, <2>5, RespectsAll
  <2>7. Fits(Len(stack), f)
    <3>1. \A i \in 1..Len(stack) : IsLink(i) => m \notin stack[i].seen
      BY <1>4, Owned DEF Depths
    <3> QED
      BY <1>2, <1>4, <2>1, <2>3, <3>1 DEF Fits
  <2>8. StackInv'
    BY <2>2, <2>6, <2>7, StackStep, LenProperties DEF ModulesTypeOK
  <2>9. ToldIsLinked'
    BY <1>4, <2>5 DEF ToldIsLinked, Linked, WillBeLinked, claims, ModulesTypeOK
  <2> QED
    BY <1>2, <1>4, <2>4, <2>8, <2>9
<1> QED
  BY <1>1, <1>3, <1>4 DEF Instantiate, claims

\* Evaluate and RunScript push code, AskDynamic and the answers to it come and go
\* on top of it.
LEMMA CodeSteps ==
  ASSUME MInv,
         \/ \E m \in Mods : Evaluate(m)
         \/ \E n \in MaybeName : RunScript(n)
         \/ AskDynamic \/ NobodyToImport
         \/ ImportAnswer \/ ImportAnswerReleased \/ ImportError
  PROVE  MInv'
<1> USE DEF MInv
<1>1. Len(stack) \in Nat /\ failures \in 0..MaxFailures
  BY LenProperties DEF ModulesTypeOK
<1>2. ASSUME NEW f \in Frames, Push(f), Fits(Len(stack), f),
             UNCHANGED <<graph, tables, claims, failures, closed, fault>>
      PROVE  MInv'
  BY <1>1, <1>2, PushKeeps, StackOnly
<1>3. ASSUME stack # <<>>, Pop, failures' \in 0..MaxFailures,
             UNCHANGED <<graph, tables, claims, closed, fault>>
      PROVE  MInv'
  <2>1. Keeps(Len(stack) - 1) /\ Len(stack') = Len(stack) - 1
    BY <1>3, PopKeeps
  <2>2. Len(stack) - 1 \in 0..Len(stack) /\ Len(stack') # (Len(stack) - 1) + 1
    BY <1>1, <2>1 DEF Keeps
  <2> QED
    BY <1>3, <2>1, <2>2, StackOnly
<1>4. ASSUME NEW m \in Mods, Evaluate(m) PROVE MInv'
  <2>1. CASE Crash("notLinked")
    BY <2>1, CrashStep
  <2>2. CASE /\ status[m] = "linked"
             /\ Push(JS(m, Name[m]))
             /\ UNCHANGED <<graph, tables, claims, failures, closed, fault>>
    <3> DEFINE f == JS(m, Name[m])
    <3>1. f \in Frames /\ f.kind = "js" /\ f.mod = m
      BY NewFrames DEF MaybeMod, MaybeName
    <3> HIDE DEF f
    <3>2. Fits(Len(stack), f)
      BY <2>2, <3>1 DEF Fits, WillBeLinked, graph
    <3> QED
      BY <1>2, <2>2, <3>1, <3>2 DEF f
  <2> QED
    BY <1>4, <2>1, <2>2 DEF Evaluate
<1>5. ASSUME NEW n \in MaybeName, RunScript(n) PROVE MInv'
  <2> DEFINE f == JS(NoMod, n)
  <2>1. f \in Frames /\ f.kind = "js" /\ f.mod = NoMod
    BY NewFrames DEF MaybeMod
  <2> HIDE DEF f
  <2>2. Fits(Len(stack), f)
    BY <2>1 DEF Fits
  <2> QED
    BY <1>2, <1>5, <2>1, <2>2 DEF f, RunScript
<1>6. CASE AskDynamic
  <2>1. CASE Crash("useAfterFree")
    BY <2>1, CrashStep
  <2>2. CASE ~Crash("useAfterFree")
    <3> DEFINE f == Import(Top.mod, resolverForResource)
    <3>1. Top \in Frames /\ Top.kind = "js"
      BY <1>6, TopFrame DEF AskDynamic
    <3>2. Top.mod \in MaybeMod /\ resolverForResource \in DynamicResolvers
      BY <1>6, <2>2, <3>1, FrameFields DEF AskDynamic
    <3>3. f \in Frames /\ f.kind = "import"
      BY <3>2, NewFrames
    <3>4. Push(f) /\ UNCHANGED <<graph, tables, claims, failures, closed, fault>>
      BY <1>6, <2>2 DEF AskDynamic
    <3> HIDE DEF f
    <3>5. Fits(Len(stack), f)
      BY <3>3 DEF Fits
    <3> QED
      BY <1>2, <3>3, <3>4, <3>5
  <2> QED
    BY <2>1, <2>2
<1>7. CASE NobodyToImport
  <2>1. /\ UNCHANGED <<stack, graph, tables, claims, closed, fault>>
        /\ failures' \in 0..MaxFailures
    BY <1>1, <1>7 DEF NobodyToImport, NoteFailure
  <2>2. Keeps(Len(stack)) /\ Len(stack) \in 0..Len(stack) /\ Len(stack') # Len(stack) + 1
    BY <1>1, <2>1 DEF Keeps, ModulesTypeOK
  <2> QED
    BY <2>1, <2>2, StackOnly
<1>8. CASE ImportAnswer
  BY <1>1, <1>3, <1>8, TopFrame DEF ImportAnswer
<1>9. CASE ImportAnswerReleased
  BY <1>9, CrashStep DEF ImportAnswerReleased
<1>10. CASE ImportError
  <2>1. CASE Crash("nilDeref")
    BY <2>1, CrashStep
  <2>2. CASE ~Crash("nilDeref")
    BY <1>1, <1>3, <1>10, <2>2, TopFrame DEF ImportError, NoteFailure
  <2> QED
    BY <2>1, <2>2
<1> QED
  BY <1>4, <1>5, <1>6, <1>7, <1>8, <1>9, <1>10

\* The code of a module ends; a module that throws was linked.
LEMMA JSEndsStep ==
  ASSUME MInv, NEW throws \in BOOLEAN, JSEnds(throws)
  PROVE  MInv'
<1> USE DEF MInv
<1>1. CASE Crash("useAfterFree")
  BY <1>1, CrashStep
<1>2. CASE ~Crash("useAfterFree")
  <2>1. /\ stack # <<>> /\ Len(stack) \in Nat \ {0}
        /\ Top = stack[Len(stack)] /\ Top \in Frames /\ Top.kind = "js"
    BY TopFrame DEF JSEnds
  <2>2. /\ Pop /\ UNCHANGED <<ptr, tables, claims, failures, closed, fault>>
        /\ \/ \E failed \in SUBSET {m \in Mods : Linked(m)} : SetStatus(failed, "errored")
           \/ UNCHANGED status
    BY <1>2 DEF JSEnds
  <2>3. /\ status' \in [Mods -> {"unlinked", "linking", "linked", "errored"}]
        /\ \A m \in Mods : status[m] = "linking" => status'[m] = "linking"
        /\ \A m \in Mods : Linked(m) => WillBeLinked(m)
    <3>1. CASE UNCHANGED status
      BY <3>1 DEF ModulesTypeOK, Linked, WillBeLinked
    <3>2. ASSUME NEW failed \in SUBSET {m \in Mods : Linked(m)}, SetStatus(failed, "errored")
          PROVE  /\ status' \in [Mods -> {"unlinked", "linking", "linked", "errored"}]
                 /\ \A m \in Mods : status[m] = "linking" => status'[m] = "linking"
                 /\ \A m \in Mods : Linked(m) => WillBeLinked(m)
      BY <3>2, StatusType DEF SetStatus, Linked, WillBeLinked
    <3> QED
      BY <2>2, <3>1, <3>2
  <2>4. Keeps(Len(stack) - 1) /\ Len(stack') = Len(stack) - 1
    BY <2>1, <2>2, PopKeeps
  <2>5. Respects(Len(stack))
    BY <2>2, <2>3, RespectsAll DEF tables
  <2>6. Respects(Len(stack) - 1)
    BY <2>1, <2>5 DEF Respects
  <2>7. Len(stack) - 1 \in 0..Len(stack) /\ Len(stack') # (Len(stack) - 1) + 1
    BY <2>1, <2>4
  <2>8. StackInv'
    BY <2>4, <2>6, <2>7, StackStep
  <2>9. ModulesTypeOK'
    BY <2>2, <2>3, <2>4 DEF ModulesTypeOK, Keeps, tables, claims
  <2>10. ClosedInv' /\ AgreeInv' /\ ToldIsLinked'
    BY <2>2, <2>3, RestKept
  <2> QED
    BY <2>8, <2>9, <2>10
<1> QED
  BY <1>1, <1>2

\* V8 asks the resolver that the link was given.
LEMMA AskStep ==
  ASSUME MInv, AskResolver
  PROVE  MInv'
<1> USE DEF MInv
<1>1. CASE Crash("useAfterFree")
  BY <1>1, CrashStep
<1>2. CASE ~Crash("useAfterFree")
  <2> DEFINE todo == Top.todo
             f == Resolve(todo, byScript[todo])
  <2>1. /\ stack # <<>> /\ Len(stack) \in Nat \ {0}
        /\ Top = stack[Len(stack)] /\ Top \in Frames /\ Top.kind = "link"
    BY TopFrame DEF AskResolver, Asking
  <2>2. todo \in Mods /\ todo # NoMod
    BY DEF AskResolver, Asking
  <2>3. /\ byScript[todo] # NoResolver /\ Push(f)
        /\ UNCHANGED <<graph, tables, claims, failures, closed, fault>>
    BY <1>2 DEF AskResolver
  <2>4. byScript[todo] \in Resolvers /\ ~closed
    BY <2>2, <2>3 DEF ModulesTypeOK, MaybeResolver, ClosedInv
  <2>5. f \in Frames /\ f.kind = "resolve" /\ f.mod = todo /\ f.by = byScript[todo]
    BY <2>2, <2>4, NewFrames
  <2>6. Top.by # NoResolver => byScript[todo] = Top.by
    BY <2>1, <2>2, <2>4 DEF StackInv, BoundInv, Depths, IsLink
  <2> HIDE DEF f
  <2>7. Fits(Len(stack), f)
    BY <2>1, <2>5, <2>6 DEF Fits, IsLink
  <2>8. Keeps(Len(stack)) /\ Len(stack') = Len(stack) + 1 /\ stack'[Len(stack) + 1] = f
    BY <2>3, <2>5, PushKeeps
  <2> QED
    BY <2>1, <2>3, <2>7, <2>8, StackOnly DEF ModulesTypeOK
<1> QED
  BY <1>1, <1>2

\* A link fails: its modules are unlinked again, and nobody was told otherwise.
LEMMA GiveUpStep ==
  ASSUME MInv, NEW l \in Depths, IsLink(l), Keeps(l - 1), Len(stack') = l - 1,
         GiveUp(stack[l]), UNCHANGED <<ptr, byScript, closed, fault>>,
         byName' \in [Names -> MaybeResolver], ClosedInv', AgreeInv',
         failures' \in 0..MaxFailures,
         \/ UNCHANGED claims
         \/ told' = told \cup {stack[l].mod} /\ lied' = lied \cup {stack[l].mod}
  PROVE  MInv'
<1> USE DEF MInv
<1>1. l \in Nat \ {0} /\ Len(stack) \in Nat
  BY LenProperties DEF Depths, ModulesTypeOK
<1>2. stack[l] \in Frames /\ stack[l].mod \in Mods
  BY Owned, FrameFields DEF IsLink
<1>3. status' \in [Mods -> {"unlinked", "linking", "linked", "errored"}]
  BY StatusType DEF GiveUp
<1>4. /\ Respects(l - 1)
      /\ \A m \in Mods : Linked(m) => status'[m] = status[m]
  <2>1. l - 1 \in 0..l-1
    BY <1>1
  <2>2. SetStatus(stack[l].seen, "unlinked")
    BY DEF GiveUp
  <2> QED
    BY <2>1, <2>2, LinkEnds
<1>5. told' \subseteq Mods /\ lied' \subseteq told' /\ told' \ lied' \subseteq told \ lied
  BY <1>2 DEF claims, ModulesTypeOK
<1>6. ModulesTypeOK'
  BY <1>3, <1>5 DEF ModulesTypeOK, Keeps
<1>7. StackInv'
  <2>1. l - 1 \in 0..Len(stack) /\ Len(stack') # (l - 1) + 1
    BY <1>1 DEF Depths
  <2> QED
    BY <1>4, <2>1, StackStep
<1>8. ToldIsLinked'
  BY <1>4, <1>5 DEF ToldIsLinked, Linked, ModulesTypeOK
<1> QED
  BY <1>6, <1>7, <1>8

\* A link that is innermost fails or succeeds.
LEMMA LinkSteps ==
  ASSUME MInv, NobodyToAsk \/ LinkFails \/ LinkDone
  PROVE  MInv'
<1> USE DEF MInv
<1>1. /\ stack # <<>> /\ Len(stack) \in Nat \ {0}
      /\ Top = stack[Len(stack)] /\ Top \in Frames /\ Top.kind = "link" /\ Pop
  BY TopFrame DEF NobodyToAsk, LinkFails, LinkDone, Asking, Resolved
<1>2. Len(stack) \in Depths /\ IsLink(Len(stack))
  BY <1>1 DEF Depths, IsLink
<1>3. Keeps(Len(stack) - 1) /\ Len(stack') = Len(stack) - 1
  BY <1>1, PopKeeps
<1>4. CASE NobodyToAsk \/ LinkFails
  <2>1. /\ GiveUp(stack[Len(stack)])
        /\ UNCHANGED <<ptr, tables, claims, closed, fault>>
        /\ failures' \in 0..MaxFailures
    BY <1>1, <1>4 DEF NobodyToAsk, LinkFails, NoteFailure, ModulesTypeOK
  <2>2. ClosedInv' /\ AgreeInv' /\ byName' \in [Names -> MaybeResolver]
    BY <2>1 DEF tables, ClosedInv, AgreeInv, OwnsName, ModulesTypeOK
  <2> QED
    BY <1>2, <1>3, <2>1, <2>2, GiveUpStep DEF tables
<1>5. CASE LinkDone
  <2>1. /\ SetStatus(stack[Len(stack)].seen, "linked")
        /\ told' = told \cup {Top.mod} /\ lied' = lied \ Top.seen
        /\ UNCHANGED <<ptr, tables, failures, closed, fault>>
    BY <1>1, <1>5 DEF LinkDone
  <2>2. Top.mod \in Top.seen /\ Top.seen \in SUBSET Mods
    BY <1>1, <1>2, Owned DEF StackInv, LinkInv
  <2>3. /\ status' \in [Mods -> {"unlinked", "linking", "linked", "errored"}]
        /\ \A m \in Top.seen : status'[m] = "linked"
    BY <1>1, <2>1, <2>2, StatusType DEF SetStatus
  <2>4. /\ Respects(Len(stack) - 1)
        /\ \A m \in Mods : Linked(m) => status'[m] = status[m]
    BY <1>1, <1>2, <2>1, LinkEnds DEF tables
  <2>5. ModulesTypeOK'
    BY <1>3, <2>1, <2>2, <2>3 DEF ModulesTypeOK, Keeps, tables
  <2>6. StackInv'
    <3>1. Len(stack) - 1 \in 0..Len(stack) /\ Len(stack') # (Len(stack) - 1) + 1
      BY <1>1, <1>3
    <3> QED
      BY <1>3, <2>4, <3>1, StackStep
  <2>7. ClosedInv' /\ AgreeInv'
    BY <2>1 DEF tables, ClosedInv, AgreeInv, OwnsName
  <2>8. ToldIsLinked'
    <3> SUFFICES ASSUME NEW m \in told', m \notin lied' PROVE Linked(m)'
      BY DEF ToldIsLinked
    <3>1. CASE m \in Top.seen
      BY <2>3, <3>1 DEF Linked
    <3>2. CASE m \notin Top.seen
      <4>1. m \in told \ lied /\ m \in Mods
        BY <2>1, <2>2, <3>2 DEF ModulesTypeOK
      <4> QED
        BY <2>4, <4>1 DEF ToldIsLinked, Linked
    <3> QED
      BY <3>1, <3>2
  <2> QED
    BY <2>5, <2>6, <2>7, <2>8
<1> QED
  BY <1>4, <1>5

\* A resolver fails its link.
LEMMA RefuseSteps ==
  ASSUME MInv,
         (\E m \in Mods : AnswerReleased(m)) \/ AnswerNil \/ AnswerError
  PROVE  MInv'
<1> USE DEF MInv
<1>1. CASE AnswerNil
  BY <1>1, CrashStep DEF AnswerNil
<1>2. CASE AnswerError /\ Crash("nilDeref")
  BY <1>2, CrashStep
<1>3. ASSUME In("resolve"), stack' = Front(Front(stack)), GiveUp(Below),
             UNCHANGED <<ptr, byScript, closed, fault>>,
             byName' \in [Names -> MaybeResolver], ClosedInv', AgreeInv',
             failures' \in 0..MaxFailures,
             \/ UNCHANGED claims
             \/ told' = told \cup {Below.mod} /\ lied' = lied \cup {Below.mod}
      PROVE  MInv'
  <2>1. /\ Len(stack) \in Nat /\ Len(stack) > 1
        /\ Below = stack[Len(stack) - 1] /\ IsLink(Len(stack) - 1)
    BY <1>3, ResolveFrame DEF StackInv
  <2>2. Keeps(Len(stack) - 2) /\ Len(stack') = Len(stack) - 2
    BY <1>3, <2>1, PopTwoKeeps
  <2>3. Len(stack) - 1 \in Depths /\ (Len(stack) - 1) - 1 = Len(stack) - 2
    BY <2>1 DEF Depths
  <2> QED
    BY <1>3, <2>1, <2>2, <2>3, GiveUpStep
<1>4. CASE AnswerError /\ ~Crash("nilDeref")
  <2>1. /\ In("resolve") /\ stack' = Front(Front(stack)) /\ GiveUp(Below)
        /\ UNCHANGED <<ptr, tables, claims, closed, fault>>
        /\ failures' \in 0..MaxFailures
    BY <1>4 DEF AnswerError, NoteFailure, ModulesTypeOK
  <2>2. ClosedInv' /\ AgreeInv' /\ byName' \in [Names -> MaybeResolver]
    BY <2>1 DEF tables, ClosedInv, AgreeInv, OwnsName, ModulesTypeOK
  <2> QED
    BY <1>3, <2>1, <2>2 DEF tables
<1>5. ASSUME NEW m \in Mods, AnswerReleased(m) PROVE MInv'
  <2> USE <1>5 DEF AnswerReleased
  <2>1. Top.by \in MaybeResolver
    BY ResolveFrame DEF StackInv, MaybeResolver
  <2>2. /\ byScript' = byScript /\ byName' \in [Names -> MaybeResolver]
        /\ ClosedInv' /\ AgreeInv'
    BY <2>1, Binds
  <2>3. failures' \in 0..MaxFailures
    BY DEF ModulesTypeOK
  <2> QED
    BY <1>3, <2>2, <2>3
<1> QED
  BY <1>1, <1>2, <1>4, <1>5

\* A resolver answers a module: its link goes on with it.
LEMMA AnswerStep ==
  ASSUME MInv, NEW m \in Mods, Answer(m)
  PROVE  MInv'
<1> USE DEF MInv
<1>1. CASE Crash("erroredScript")
  BY <1>1, CrashStep
<1>2. CASE ~Crash("erroredScript")
  <2> DEFINE n == Len(stack) - 1
             f == IF status[m] = "unlinked"
                  THEN Link(Below.mod, Below.by, m, Below.seen \cup {m})
                  ELSE Link(Below.mod, Below.by, NoMod, Below.seen)
  <2>1. /\ In("resolve") /\ ptr[m] = "set"
        /\ status[m] = "linking" => m \in Below.seen
        /\ status[m] # "errored" /\ bindModuleResolver(m, Top.by) /\ PopTo(f)
        /\ IF status[m] = "unlinked" THEN SetStatus({m}, "linking") ELSE UNCHANGED status
        /\ UNCHANGED <<ptr, claims, failures, closed, fault>>
    BY <1>2 DEF Answer
  <2>2. /\ Len(stack) \in Nat /\ Len(stack) > 1
        /\ Top = stack[Len(stack)] /\ Top.mod \in Mods /\ Top.by \in Resolvers
        /\ Below = stack[n] /\ IsLink(n) /\ Below \in Frames /\ Below.kind = "link"
    BY <2>1, ResolveFrame DEF StackInv, IsLink
  <2>3. n \in Depths /\ n \in Nat \ {0}
    BY <2>2 DEF Depths
  <2>4. /\ byScript' \in [Mods -> MaybeResolver]
        /\ byName' \in [Names -> MaybeResolver]
        /\ \A k \in Mods \ {m} : byScript'[k] = byScript[k]
        /\ ~closed => byScript'[m] = Top.by
        /\ ClosedInv' /\ AgreeInv'
    BY <2>1, <2>2, Binds DEF MaybeResolver
  <2>5. /\ Below.mod \in Mods /\ Below.by \in MaybeResolver
        /\ Below.seen \in SUBSET Mods
    BY <2>2, FrameFields
  <2>6. /\ Below.mod \in Below.seen
        /\ \A k \in Below.seen : status[k] = "linking"
        /\ \A i \in Depths : IsLink(i) /\ i # n => stack[i].seen \cap Below.seen = {}
    BY <2>2, <2>3 DEF StackInv, LinkInv
  <2>7. Below.by # NoResolver => Top.by = Below.by
    <3>1. Top.kind = "resolve"
      BY <2>1, TopFrame
    <3>2. Len(stack) \in 2..Len(stack) /\ stack[Len(stack) - 1] = Below
      BY <2>2
    <3> QED
      BY <2>2, <3>1, <3>2 DEF StackInv, ResolverIsTheOneGiven
  <2>8. /\ f \in Frames /\ f.kind = "link" /\ f.mod = Below.mod /\ f.by = Below.by
        /\ f.todo = IF status[m] = "unlinked" THEN m ELSE NoMod
        /\ f.seen = IF status[m] = "unlinked" THEN Below.seen \cup {m} ELSE Below.seen
    <3>1. CASE status[m] = "unlinked"
      BY <2>5, <3>1, NewFrames DEF MaybeMod
    <3>2. CASE status[m] # "unlinked"
      BY <2>5, <3>2, NewFrames DEF MaybeMod
    <3> QED
      BY <3>1, <3>2
  <2> HIDE DEF f
  <2>9. Keeps(n - 1) /\ Len(stack') = n /\ stack'[n] = f
    <3>1. Keeps(Len(stack) - 2) /\ Len(stack') = Len(stack) - 1 /\ stack'[Len(stack) - 1] = f
      BY <2>1, <2>2, <2>8, PopTwoKeeps
    <3>2. Len(stack) - 2 = n - 1
      BY <2>2
    <3> QED
      BY <3>1, <3>2
  <2>10. /\ status' \in [Mods -> {"unlinked", "linking", "linked", "errored"}]
         /\ \A k \in Mods \ {m} : status'[k] = status[k]
         /\ status'[m] = IF status[m] = "unlinked" THEN "linking" ELSE status[m]
    <3>1. CASE status[m] = "unlinked"
      BY <2>1, <3>1, StatusType DEF SetStatus
    <3>2. CASE status[m] # "unlinked"
      BY <2>1, <3>2 DEF ModulesTypeOK
    <3> QED
      BY <3>1, <3>2
  <2>11. \A k \in Mods : Linked(k) => WillBeLinked(k)
    BY <2>10 DEF Linked, WillBeLinked
  <2> HIDE DEF n
  <2>12. ASSUME NEW i \in 1..n-1, IsLink(i)
         PROVE  /\ i \in Depths /\ i # n /\ m \notin stack[i].seen
                /\ stack[i].seen \in SUBSET Mods
                /\ \A k \in stack[i].seen : status[k] = "linking"
    <3>1. i \in Depths /\ i # n
      BY <2>2, <2>3 DEF Depths, n
    <3>2. /\ stack[i].seen \in SUBSET Mods
          /\ \A k \in stack[i].seen : status[k] = "linking"
          /\ stack[i].seen \cap Below.seen = {}
      BY <2>6, <2>12, <3>1, Owned
    <3> QED
      BY <2>1, <3>1, <3>2
  <2>13. Respects(n - 1)
    BY <2>1, <2>4, <2>10, <2>11, <2>12 DEF Respects
  <2>14. Fits(n - 1, f)
    <3>1. \A k \in f.seen : status'[k] = "linking"
      BY <2>5, <2>6, <2>8, <2>10
    <3>2. \A i \in 1..n-1 : IsLink(i) => stack[i].seen \cap f.seen = {}
      BY <2>6, <2>8, <2>12
    <3>3. f.mod \in f.seen /\ f.todo \in f.seen \cup {NoMod}
      BY <2>6, <2>8
    <3>4. ~closed' /\ f.todo # NoMod /\ f.by # NoResolver => byScript'[f.todo] = f.by
      BY <2>1, <2>4, <2>7, <2>8
    <3> QED
      BY <2>8, <3>1, <3>2, <3>3, <3>4 DEF Fits
  <2>15. StackInv'
    <3>1. n - 1 \in 0..Len(stack) /\ (n - 1) + 1 = n
      BY <2>2, <2>3 DEF Depths
    <3> QED
      BY <2>9, <2>13, <2>14, <3>1, StackStep
  <2>16. ModulesTypeOK'
    BY <2>1, <2>4, <2>9, <2>10 DEF ModulesTypeOK, Keeps, claims
  <2>17. ToldIsLinked'
    BY <2>1, <2>11 DEF ToldIsLinked, Linked, WillBeLinked, claims, ModulesTypeOK
  <2> QED
    BY <2>4, <2>15, <2>16, <2>17
<1> QED
  BY <1>1, <1>2

\* Every step keeps the invariant.
LEMMA NextMInv == MInv /\ [ModulesNext]_mvars => MInv'
<1> SUFFICES ASSUME MInv, [ModulesNext]_mvars PROVE MInv'
  OBVIOUS
<1>1. CASE UNCHANGED mvars
  <2>1. UNCHANGED <<stack, ptr, status, byScript, byName, told, lied, failures, closed, fault>>
    BY <1>1 DEF mvars, graph, tables, claims
  <2>2. ModulesTypeOK'
    BY <2>1 DEF MInv, ModulesTypeOK
  <2>3. StackInv'
    BY <2>1 DEF MInv, StackInv, ShapeInv, LinkInv, BoundInv, CodeInv,
                ResolverIsTheOneGiven, Linked, Depths, IsLink
  <2>4. ClosedInv' /\ AgreeInv' /\ ToldIsLinked'
    BY <2>1 DEF MInv, ClosedInv, AgreeInv, OwnsName, ToldIsLinked, Linked
  <2> QED
    BY <2>2, <2>3, <2>4 DEF MInv
<1> QED
  BY <1>1, LifeSteps, InstantiateStep, CodeSteps, JSEndsStep, AskStep, LinkSteps,
     RefuseSteps, AnswerStep DEF ModulesNext

----------------------------------------------------------------------------
(* Theorems.                                                               *)

\* The invariant holds throughout.
THEOREM ModulesInvariant == ModulesSpec => []MInv
  BY InitMInv, NextMInv, PTL DEF ModulesSpec

\* The variables keep their types: a resolver returns into the link that asked
\* it, and no module is believed linked by mistake without having been told so.
THEOREM ModulesTypes == ModulesSpec => []ModulesTypeOK
<1>1. MInv => ModulesTypeOK
  BY DEF MInv
<1> QED
  BY <1>1, ModulesInvariant, PTL

\* Every static import of the graph that one Instantiate links is put to the
\* resolver it was given, whatever the resolvers instantiate in between.
THEOREM ResolverGiven == ModulesSpec => []ResolverIsTheOneGiven
<1>1. MInv => ResolverIsTheOneGiven
  BY DEF MInv, StackInv
<1> QED
  BY <1>1, ModulesInvariant, PTL

\* A module for which Instantiate returned nil is linked from then on, unless a
\* resolver answered a released module.
THEOREM ToldLinked == ModulesSpec => []ToldIsLinked
<1>1. MInv => ToldIsLinked
  BY DEF MInv
<1> QED
  BY <1>1, ModulesInvariant, PTL

\* The two tables of resolvers agree on every module that has its resource name
\* to itself and is not released.
THEOREM TablesAgree == ModulesSpec => []StaticAndDynamicAgree
<1>1. MInv => StaticAndDynamicAgree
  BY DEF MInv, AgreeInv, OwnsName, StaticAndDynamicAgree
<1> QED
  BY <1>1, ModulesInvariant, PTL
=============================================================================
