------------------------------ MODULE Modules ------------------------------
(***************************************************************************)
(* ES modules and who resolves their imports.                              *)
(*                                                                         *)
(* gv8 leaves resolution to the host.  Instantiate binds a resolver to the *)
(* module in two tables of the context, by script id and by resource name; *)
(* V8 links the module and calls back for every static import, which is    *)
(* answered by the resolver of the importing script; the module that a     *)
(* resolver answers is bound to that resolver too.  A dynamic import()     *)
(* knows only the resource name of the code it is in and asks the second   *)
(* table.                                                                  *)
(*                                                                         *)
(* One goroutine and one context: a resolver is host code and may call gv8 *)
(* again, so the calls in progress form a stack.  Every importing module   *)
(* has one static import.  The host does not instantiate a module that V8  *)
(* is linking already, nor answer one that an outer Instantiate is linking.*)
(***************************************************************************)
EXTENDS Naturals, Sequences, SequencesExt

CONSTANTS Mods,             \* modules; each is compiled once, its script id
          Importers,        \* the ones with a static import
          NoMod,            \* no module
          Names, NoName,    \* resource names, and the empty one
          Name,             \* the resource name of each module
          Resolvers, NoResolver,
          DynamicResolvers, \* the ones that are DynamicImportResolvers too
          MaxStack,         \* bound: calls and callbacks in progress
          MaxFailures       \* bound: failed resolutions counted

ASSUME ModuleConstants ==
  /\ Importers \subseteq Mods /\ NoMod \notin Mods
  /\ NoName \notin Names /\ Name \in [Mods -> Names \cup {NoName}]
  /\ DynamicResolvers \subseteq Resolvers /\ NoResolver \notin Resolvers
  /\ MaxStack \in Nat \ {0} /\ MaxFailures \in Nat

VARIABLES
  stack,        \* native calls and callbacks in progress, innermost last
  ptr,          \* m.ptr: "unborn", "set" or "nil"
  status,       \* V8's status of a module; "linked" stands for
                \* kInstantiated, kEvaluating and kEvaluated
  byScript,     \* c.moduleResolversByScript
  byName,       \* c.moduleResolversByName
  told,         \* the modules for which Instantiate returned nil
  lied,         \* history: it returned nil for an attempt that V8 gave up
  failures,     \* moduleResolutionFailures
  closed,       \* c.closed; then the tables and the gv8_ctx are gone
  fault         \* what the process died of

tables == <<byScript, byName>>
graph == <<ptr, status>>
claims == <<told, lied>>
mvars == <<stack, graph, tables, claims, failures, closed, fault>>

\* InstantiateModule of root, called with the resolver by: the imports of todo
\* are next (NoMod: none are left), and seen are the modules it is linking.
Link(root, by, todo, seen) ==
  [kind |-> "link", mod |-> root, by |-> by, todo |-> todo, seen |-> seen]
\* A resolver at work: on a static import of m, or a dynamic one.
Resolve(m, by) == [kind |-> "resolve", mod |-> m, by |-> by]
Import(m, by) == [kind |-> "import", mod |-> m, by |-> by]
\* Code of module m, or of a script (NoMod), with a resource name.
JS(m, name) == [kind |-> "js", mod |-> m, name |-> name]

MaybeMod == Mods \cup {NoMod}
MaybeResolver == Resolvers \cup {NoResolver}
MaybeName == Names \cup {NoName}

Frames ==
  {Link(m, r, t, s) : m \in Mods, r \in MaybeResolver, t \in MaybeMod, s \in SUBSET Mods}
  \cup {Resolve(m, r) : m \in Mods, r \in Resolvers}
  \cup {Import(m, r) : m \in MaybeMod, r \in DynamicResolvers}
  \cup {JS(m, n) : m \in MaybeMod, n \in MaybeName}

ModulesTypeOK ==
  /\ stack \in Seq(Frames) /\ Len(stack) <= MaxStack
  /\ ptr \in [Mods -> {"unborn", "set", "nil"}]
  /\ status \in [Mods -> {"unlinked", "linking", "linked", "errored"}]
  /\ byScript \in [Mods -> MaybeResolver]
  /\ byName \in [Names -> MaybeResolver]
  /\ told \subseteq Mods /\ lied \subseteq told
  /\ failures \in 0..MaxFailures
  /\ closed \in BOOLEAN
  /\ fault \in {"none", "nilModule", "nilDeref", "useAfterFree", "noException",
                "notLinked", "erroredScript"}

ModulesInit ==
  /\ stack = <<>>
  /\ ptr = [m \in Mods |-> "unborn"]
  /\ status = [m \in Mods |-> "unlinked"]
  /\ byScript = [m \in Mods |-> NoResolver]
  /\ byName = [n \in Names |-> NoResolver]
  /\ told = {} /\ lied = {}
  /\ failures = 0
  /\ closed = FALSE
  /\ fault = "none"

----------------------------------------------------------------------------
(* Helpers.                                                                *)

Innermost == IF stack = <<>> THEN "host" ELSE Last(stack).kind
In(kind) == fault = "none" /\ Innermost = kind
InGo == fault = "none" /\ Innermost \in {"host", "resolve", "import"}

Push(f) == Len(stack) < MaxStack /\ stack' = Append(stack, f)
Pop == stack' = Front(stack)
\* The resolver returns into the link below it, which becomes f.
PopTo(f) == stack' = Append(Front(Front(stack)), f)
Below == Last(Front(stack))

Crash(f) == fault' = f /\ UNCHANGED <<stack, graph, tables, claims, failures, closed>>

SetStatus(ms, s) == status' = [m \in Mods |-> IF m \in ms THEN s ELSE status[m]]

Linked(m) == status[m] \in {"linked", "errored"}

\* bindModuleResolver as it would be if the first binding stayed.
BindOnce(m, r) ==
  LET bind == r # NoResolver /\ ~closed /\ byScript[m] = NoResolver
  IN /\ byScript' = IF bind THEN [byScript EXCEPT ![m] = r] ELSE byScript
     /\ byName' = [n \in Names |-> IF bind /\ n = Name[m] THEN r ELSE byName[n]]

\* bindModuleResolver as it would be if the first name stayed.
BindNameOnce(m, r) ==
  /\ byScript' = IF r = NoResolver THEN byScript ELSE [byScript EXCEPT ![m] = r]
  /\ byName' = [n \in Names |-> IF n = Name[m] /\ byName[n] = NoResolver
                                THEN r ELSE byName[n]]

\* bindModuleResolver as it would be without its check of script id 0.
BindScriptZero(m, r) ==
  /\ byScript' = IF ptr[m] = "set" THEN [byScript EXCEPT ![m] = r]
                 ELSE [k \in Mods \cup {NoMod} |-> IF k = NoMod THEN r ELSE byScript[k]]
  /\ byName' = [n \in Names |-> IF n = Name[m] THEN r ELSE byName[n]]

\* c.bindModuleResolver: a nil resolver leaves earlier bindings as they are.  A
\* released module has script id 0 and is bound by name alone.
bindModuleResolver(m, r) ==
  LET bind == r # NoResolver /\ ~closed
  IN /\ byScript' = IF bind /\ ptr[m] = "set" THEN [byScript EXCEPT ![m] = r]
                    ELSE byScript
     /\ byName' = [n \in Names |-> IF bind /\ n = Name[m] THEN r ELSE byName[n]]

\* noteModuleResolutionFailure and newErrorValue: the failure is counted and an
\* Error is thrown.  Nobody releases its handle before Close, so the counter is
\* also the number of handles that failures have cost.
NoteFailure ==
  /\ failures < MaxFailures
  /\ failures' = failures + 1

----------------------------------------------------------------------------
(* Host calls.                                                             *)

CompileModule(m) ==
  /\ InGo /\ ptr[m] = "unborn"
  /\ ptr' = [ptr EXCEPT ![m] = "set"]
  /\ UNCHANGED <<stack, status, tables, claims, failures, closed, fault>>

Release(m) ==
  /\ InGo /\ ptr[m] = "set"
  /\ ptr' = [ptr EXCEPT ![m] = "nil"]
  /\ UNCHANGED <<stack, status, tables, claims, failures, closed, fault>>

\* Instantiate, up to InstantiateModule.  V8 has nothing to do for a module that
\* is linked, or beyond.  Binding asks for the script id.
Instantiate(m, r) ==
  /\ InGo /\ ~closed
  /\ ptr[m] = "set" /\ status[m] # "linking"
  /\ \/ r # NoResolver /\ status[m] = "errored" /\ Crash("erroredScript")
     \/ /\ r = NoResolver \/ status[m] # "errored"
        /\ bindModuleResolver(m, r)
        /\ \/ /\ Linked(m)
              /\ told' = told \cup {m}
              /\ UNCHANGED <<stack, status, lied>>
           \/ /\ status[m] = "unlinked"
              /\ SetStatus({m}, "linking")
              /\ Push(Link(m, r, m, {m}))
              /\ UNCHANGED claims
        /\ UNCHANGED <<ptr, failures, closed, fault>>

\* Evaluate of a module that Instantiate said is linked, or a microtask of its
\* top-level await.  V8 insists on the status; so does it for Namespace.
Evaluate(m) ==
  /\ InGo /\ ~closed
  /\ ptr[m] = "set" /\ m \in told
  /\ \/ ~Linked(m) /\ Crash("notLinked")
     \/ /\ status[m] = "linked"
        /\ Push(JS(m, Name[m]))
        /\ UNCHANGED <<graph, tables, claims, failures, closed, fault>>

\* RunScript and UnboundScript.Run, with the resource name of the script.
RunScript(name) ==
  /\ InGo /\ ~closed
  /\ Push(JS(NoMod, name))
  /\ UNCHANGED <<graph, tables, claims, failures, closed, fault>>

Close ==
  /\ InGo /\ ~closed
  /\ closed' = TRUE
  /\ byScript' = [m \in Mods |-> NoResolver]
  /\ byName' = [n \in Names |-> NoResolver]
  /\ UNCHANGED <<stack, graph, claims, failures, fault>>

----------------------------------------------------------------------------
(* Linking.                                                                *)

Top == Last(stack)
Asking == In("link") /\ Top.todo \in Importers

\* A failed attempt leaves the modules it was linking unlinked.
GiveUp(link) == SetStatus(link.seen, "unlinked")

\* ResolveModuleCallback reads the gv8_ctx, then gv8ResolveModuleCallback finds
\* the resolver of the importing script.
AskResolver ==
  /\ Asking
  /\ \/ closed /\ Crash("useAfterFree")
     \/ /\ byScript[Top.todo] # NoResolver
        /\ Push(Resolve(Top.todo, byScript[Top.todo]))
        /\ UNCHANGED <<graph, tables, claims, failures, closed, fault>>

\* "gv8: no module resolver configured"
NobodyToAsk ==
  /\ Asking /\ ~closed
  /\ byScript[Top.todo] = NoResolver
  /\ NoteFailure
  /\ GiveUp(Top)
  /\ Pop
  /\ UNCHANGED <<ptr, tables, claims, closed, fault>>

\* The resolver answers a module, which is bound to it.  V8 goes on with the
\* imports of that module unless it knows it already.
Answer(m) ==
  /\ In("resolve") /\ ptr[m] = "set"
  /\ status[m] = "linking" => m \in Below.seen
  /\ \/ status[m] = "errored" /\ Crash("erroredScript")
     \/ /\ status[m] # "errored"
        /\ bindModuleResolver(m, Top.by)
        /\ \/ /\ status[m] = "unlinked"
              /\ SetStatus({m}, "linking")
              /\ PopTo(Link(Below.mod, Below.by, m, Below.seen \cup {m}))
           \/ /\ status[m] # "unlinked"
              /\ UNCHANGED status
              /\ PopTo(Link(Below.mod, Below.by, NoMod, Below.seen))
        /\ UNCHANGED <<ptr, claims, failures, closed, fault>>

\* It answers a released module: no module and no exception for V8, which gives
\* up; there is no text for an error and Instantiate returns nil.
AnswerReleased(m) ==
  /\ In("resolve") /\ ptr[m] = "nil"
  /\ bindModuleResolver(m, Top.by)
  /\ GiveUp(Below)
  /\ told' = told \cup {Below.mod}
  /\ lied' = lied \cup {Below.mod}
  /\ stack' = Front(Front(stack))
  /\ UNCHANGED <<ptr, failures, closed, fault>>

\* It answers nil and no error: mod.ptr is read.
AnswerNil == In("resolve") /\ Crash("nilModule")

\* It answers an error.
AnswerError ==
  /\ In("resolve")
  /\ \/ closed /\ Crash("nilDeref")
     \/ /\ ~closed
        /\ NoteFailure
        /\ GiveUp(Below)
        /\ stack' = Front(Front(stack))
        /\ UNCHANGED <<ptr, tables, claims, closed, fault>>

Resolved == In("link") /\ ~Asking

\* GV8ModuleInstantiate as it would be if it dropped V8's answer.
LinkFailsUnseen ==
  /\ Resolved
  /\ GiveUp(Top)
  /\ told' = told \cup {Top.mod}
  /\ Pop
  /\ UNCHANGED <<ptr, tables, lied, failures, closed, fault>>

\* All imports are resolved and one of them names what is not exported: a
\* SyntaxError, not a failed resolution.
LinkFails ==
  /\ Resolved
  /\ GiveUp(Top)
  /\ Pop
  /\ UNCHANGED <<ptr, tables, claims, failures, closed, fault>>

LinkDone ==
  /\ Resolved
  /\ SetStatus(Top.seen, "linked")
  /\ told' = told \cup {Top.mod}
  /\ lied' = lied \ Top.seen
  /\ Pop
  /\ UNCHANGED <<ptr, tables, failures, closed, fault>>

----------------------------------------------------------------------------
(* JavaScript and dynamic imports.                                         *)

resolverForResource == IF Top.name = NoName THEN NoResolver ELSE byName[Top.name]

\* DynamicImportCallback: import() asks the resolver of the resource name.
AskDynamic ==
  /\ In("js")
  /\ \/ closed /\ Crash("useAfterFree")
     \/ /\ ~closed
        /\ resolverForResource \in DynamicResolvers
        /\ Push(Import(Top.mod, resolverForResource))
        /\ UNCHANGED <<graph, tables, claims, failures, closed, fault>>

\* There is none, or it does not do dynamic imports: import() throws.
NobodyToImport ==
  /\ In("js") /\ ~closed
  /\ resolverForResource \notin DynamicResolvers
  /\ NoteFailure
  /\ UNCHANGED <<stack, graph, tables, claims, closed, fault>>

\* The resolver answers a promise.
ImportAnswer ==
  /\ In("import")
  /\ Pop
  /\ UNCHANGED <<graph, tables, claims, failures, closed, fault>>

\* It answers a released promise: no promise and no exception for V8.
ImportAnswerReleased == In("import") /\ Crash("noException")

\* It answers an error, or nil and no error, which counts as one.
ImportError ==
  /\ In("import")
  /\ \/ closed /\ Crash("nilDeref")
     \/ /\ ~closed
        /\ NoteFailure
        /\ Pop
        /\ UNCHANGED <<graph, tables, claims, closed, fault>>

\* The code ends.  Evaluate has a promise to wrap in any case, a script only
\* when it does not throw.  A module whose code throws has failed for good, and
\* with it the importers between it and the module evaluated: any linked modules,
\* since the model does not keep who imports whom.
JSEnds(throws) ==
  /\ In("js")
  /\ \/ /\ closed /\ (throws => Top.mod # NoMod)
        /\ Crash("useAfterFree")
     \/ /\ ~closed \/ (throws /\ Top.mod = NoMod)
        /\ IF throws /\ Top.mod # NoMod
           THEN \E failed \in SUBSET {m \in Mods : Linked(m)} :
                  Top.mod \in failed /\ SetStatus(failed, "errored")
           ELSE UNCHANGED status
        /\ Pop
        /\ UNCHANGED <<ptr, tables, claims, failures, closed, fault>>

ModulesNext ==
  \/ \E m \in Mods : CompileModule(m) \/ Release(m) \/ Evaluate(m)
  \/ \E m \in Mods, r \in MaybeResolver : Instantiate(m, r)
  \/ \E n \in MaybeName : RunScript(n)
  \/ Close
  \/ AskResolver \/ NobodyToAsk
  \/ \E m \in Mods : Answer(m) \/ AnswerReleased(m)
  \/ AnswerNil \/ AnswerError \/ LinkFails \/ LinkDone
  \/ AskDynamic \/ NobodyToImport
  \/ ImportAnswer \/ ImportAnswerReleased \/ ImportError
  \/ \E throws \in BOOLEAN : JSEnds(throws)

ModulesSpec == ModulesInit /\ [][ModulesNext]_mvars

----------------------------------------------------------------------------
(* Properties.                                                             *)

\* "Instantiate links the module using resolver": every static import of the
\* graph that one Instantiate links is put to the resolver it was given, even if
\* a module was bound before, or bound to another one by an Instantiate that a
\* resolver ran in between.
ResolverIsTheOneGiven ==
  \A i \in 2..Len(stack) :
    stack[i].kind = "resolve" /\ stack[i-1].by # NoResolver =>
      stack[i].by = stack[i-1].by

\* A module for which Instantiate returned nil is linked, whatever was tried
\* with it and its importers since.  The exception is an attempt that ended with
\* a resolver answering a released module.
ToldIsLinked == \A m \in told \ lied : Linked(m)

\* A module's dynamic imports go where its static imports go, if no other module
\* has its resource name and the module is not released.
StaticAndDynamicAgree ==
  \A m \in Mods :
    /\ ptr[m] = "set" /\ Name[m] # NoName
    /\ \A k \in Mods : Name[k] = Name[m] => k = m
    => byName[Name[m]] = byScript[m]

\* v8-script.h on the script id: "The module must be a SourceTextModule and must
\* not have a kErrored status."
ErroredModulesAreNotAsked == fault # "erroredScript"
=============================================================================
