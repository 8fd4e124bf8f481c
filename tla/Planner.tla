------------------------------- MODULE Planner -------------------------------
(***************************************************************************)
(* The planner: a selection of modules, closed under their dependencies,   *)
(* and the steps of the selected modules in a stable topological order.    *)
(* Pure operators; Converge runs the plans they return.                    *)
(*                                                                         *)
(* A module is a record [name, enabled, deps, steps].  A step carries what *)
(* its desired state says of the host as sets of facts, those it wants and *)
(* those it drops; need is what its command requires of the host, gives    *)
(* what it leaves there, and loses the packages it may take along, which   *)
(* the planner does not see.                                               *)
(***************************************************************************)
EXTENDS Integers, Sequences, FiniteSets, SequencesExt

CONSTANTS
    StepIDs,        \* every step ID, in lexical order
    ModuleNames     \* every module name, in lexical order

ASSUME PlannerAssumption ==
    /\ DOMAIN StepIDs \subseteq Nat
    /\ DOMAIN ModuleNames \subseteq Nat

IDPlace   == [id \in Range(StepIDs) |-> CHOOSE i \in DOMAIN StepIDs : StepIDs[i] = id]
NamePlace == [n \in Range(ModuleNames) |-> CHOOSE i \in DOMAIN ModuleNames : ModuleNames[i] = n]

Step(id, module, deps, disp, want, drop) ==
    [id |-> id, module |-> module, deps |-> deps, disp |-> disp,
     want |-> want, drop |-> drop, gives |-> want, need |-> {},
     loses |-> {}, inverse |-> FALSE]

Failure(why) == [ok |-> FALSE, why |-> why]
Success(steps) == [ok |-> TRUE, steps |-> steps]

EverySelection == [only |-> {}, with |-> {}, without |-> {}]

-----------------------------------------------------------------------------
\* Modules are planned in this order, whatever their dependencies allow.
CanonicalRank == [bootstrap |-> 0, fingerprint |-> 1, devtools |-> 2, apps |-> 3,
                  vicinae |-> 4, desktop |-> 5, verify |-> 7]
ModuleRank(name) == IF name \in DOMAIN CanonicalRank THEN CanonicalRank[name] ELSE 6

ModuleLess(a, b) ==
    \/ ModuleRank(a) < ModuleRank(b)
    \/ ModuleRank(a) = ModuleRank(b) /\ NamePlace[a] < NamePlace[b]
StepLess(a, b) ==
    \/ ModuleRank(a.module) < ModuleRank(b.module)
    \/ ModuleRank(a.module) = ModuleRank(b.module) /\ IDPlace[a.id] < IDPlace[b.id]

\* The least ready node first, until none is ready: nodes on or behind a
\* cycle are left out.  before maps each node to those it must follow, and
\* less is a set of pairs.
StableOrder(before, less) ==
    LET nodes == DOMAIN before
        order[n \in 0..Cardinality(nodes)] ==
          IF n = 0 THEN <<>>
          ELSE LET prefix == order[n - 1]
                   placed == Range(prefix)
                   ready  == {x \in nodes \ placed : before[x] \subseteq placed}
               IN  IF ready = {} THEN prefix
                   ELSE Append(prefix, CHOOSE x \in ready :
                                         \A y \in ready \ {x} : <<x, y>> \in less)
    IN order[Cardinality(nodes)]

-----------------------------------------------------------------------------
Names(mods) == {m.name : m \in mods}
Named(mods, n) == CHOOSE m \in mods : m.name = n
AllSteps(mods) == UNION {m.steps : m \in mods}
IDs(steps) == {s.id : s \in steps}

CopyDefinitions(mods) ==
    /\ Cardinality(Names(mods)) = Cardinality(mods)
    /\ \A m, o \in mods : \A s \in m.steps, t \in o.steps :
          s.id = t.id => m = o /\ s = t

ValidateSelections(mods, sel) ==
    sel.only \cup sel.with \cup sel.without \subseteq Names(mods)

\* Dependencies of what is enabled or asked for are pulled in when they are
\* enabled themselves; --only takes the named modules and nothing else.
SelectModules(mods, sel) ==
    LET start  == ({m.name : m \in {o \in mods : o.enabled}} \cup sel.with) \ sel.without
        Pulled(chosen) == {d \in (UNION {Named(mods, n).deps : n \in chosen}) :
                              /\ d \in Names(mods) \ sel.without
                              /\ Named(mods, d).enabled}
        closure[n \in 0..Cardinality(mods)] ==
            IF n = 0 THEN start
            ELSE LET chosen == closure[n - 1] IN chosen \cup Pulled(chosen)
    IN IF sel.only # {} THEN sel.only ELSE closure[Cardinality(mods)]

DependenciesFit(mods, sel, chosen) ==
    \A n \in chosen : \A d \in Named(mods, n).deps :
        /\ d \in Names(mods)
        /\ d \in chosen \/ (sel.only # {} /\ Named(mods, d).enabled)

ModuleCycle(mods, chosen) ==
    LET before == [n \in chosen |-> Named(mods, n).deps \cap chosen]
        less   == {e \in chosen \X chosen : ModuleLess(e[1], e[2])}
    IN Len(StableOrder(before, less)) # Cardinality(chosen)

\* The steps of a module come after those of the modules it depends on, and
\* each step after the steps it depends on; --only forgives a step that
\* depends on one that exists but is not selected.
OrderSteps(mods, chosen, only) ==
    LET steps  == AllSteps({m \in mods : m.name \in chosen})
        before == [s \in steps |-> {t \in steps : \/ t.id \in s.deps
                                                 \/ t.module \in Named(mods, s.module).deps}]
        less   == {e \in steps \X steps : StepLess(e[1], e[2])}
        known  == IF only THEN IDs(AllSteps(mods)) ELSE IDs(steps)
        sorted == StableOrder(before, less)
    IN  IF \E s \in steps : ~(s.deps \subseteq known) THEN Failure("missing step")
        ELSE IF Len(sorted) # Cardinality(steps) THEN Failure("step cycle")
        ELSE Success(sorted)

BuildPlan(mods, sel) ==
    LET chosen == SelectModules(mods, sel)
    IN  IF ~CopyDefinitions(mods) THEN Failure("duplicate")
        ELSE IF ~ValidateSelections(mods, sel) THEN Failure("unknown selection")
        ELSE IF ~DependenciesFit(mods, sel, chosen) THEN Failure("missing module")
        ELSE IF ModuleCycle(mods, chosen) THEN Failure("module cycle")
        ELSE OrderSteps(mods, chosen, sel.only # {})

\* The inverses in the order of the plan.
BuildRemovalPlanForwards(steps, names) ==
    LET picked == SelectSeq(steps, LAMBDA s : s.module \in names)
    IN  IF ~(names \subseteq {steps[i].module : i \in DOMAIN steps})
          THEN Failure("unknown selection")
        ELSE IF \E i \in DOMAIN picked : ~picked[i].inverse
          THEN Failure("missing inverse")
        ELSE Success([i \in DOMAIN picked |->
               [picked[i] EXCEPT !.disp = "remove", !.deps = {},
                                 !.want = {}, !.gives = {},
                                 !.need = {}, !.loses = {}, !.drop = picked[i].want]])

\* Those of the last n steps that are of the named modules, last step first.
LastOf(steps, names) ==
    LET last[n \in 0..Len(steps)] ==
          IF n = 0 THEN <<>>
          ELSE LET s == steps[Len(steps) - n + 1]
               IN IF s.module \in names THEN Append(last[n - 1], s) ELSE last[n - 1]
    IN last[Len(steps)]

\* Their inverses.
BuildRemovalPlan(steps, names) ==
    LET picked == LastOf(steps, names)
    IN  IF ~(names \subseteq {steps[i].module : i \in DOMAIN steps})
          THEN Failure("unknown selection")
        ELSE IF \E i \in DOMAIN picked : ~picked[i].inverse
          THEN Failure("missing inverse")
        ELSE Success([i \in DOMAIN picked |->
               [picked[i] EXCEPT !.disp = "remove", !.deps = {},
                                 !.want = {}, !.gives = {},
                                 !.need = {}, !.loses = {}, !.drop = picked[i].want]])

-----------------------------------------------------------------------------
\* Modules as the factories build them: each of their steps is named after
\* them and has an ID of the list.
WellFormed(mods) ==
    /\ IsFiniteSet(mods)
    /\ \A m \in mods :
          /\ m.name \in Range(ModuleNames) /\ IsFiniteSet(m.steps)
          /\ \A s \in m.steps : /\ s.id \in Range(StepIDs) /\ s.module = m.name
                               /\ {"id", "module", "deps"} \subseteq DOMAIN s

\* The modules a selection stands for: the least set with the ones enabled or
\* asked for and, of what they depend on, the enabled ones not left out.
Selected(mods, sel) ==
    LET Closed(S) ==
          /\ \A m \in mods : (m.enabled \/ m.name \in sel.with) /\ m.name \notin sel.without
                             => m.name \in S
          /\ \A m, d \in mods : m.name \in S /\ d.name \in m.deps /\ d.enabled
                                /\ d.name \notin sel.without => d.name \in S
    IN IF sel.only # {} THEN sel.only
       ELSE {n \in Names(mods) : \A S \in SUBSET Names(mods) : Closed(S) => n \in S}
SelectedSteps(mods, sel) == AllSteps({m \in mods : m.name \in Selected(mods, sel)})

\* No nodes all follow one another.
Acyclic(before) ==
    \A S \in SUBSET DOMAIN before : S # {} => \E x \in S : before[x] \cap S = {}

Precedes(mods, s, t) == s.id \in t.deps \/ s.module \in Named(mods, t.module).deps

Plannable(mods, sel) ==
    LET all   == AllSteps(mods)
        known == Names(mods)
        chosen == Selected(mods, sel)
        steps == SelectedSteps(mods, sel)
    IN /\ \A m, o \in mods : m.name = o.name => m = o
       /\ \A s, t \in all : s.id = t.id => s = t
       /\ sel.only \cup sel.with \cup sel.without \subseteq known
       /\ \A n \in chosen : \A d \in Named(mods, n).deps :
             d \in chosen \/ (sel.only # {} /\ d \in known /\ Named(mods, d).enabled)
       /\ \A s \in steps : s.deps \subseteq IDs(IF sel.only # {} THEN all ELSE steps)
       /\ Acyclic([n \in chosen |-> Named(mods, n).deps])
       /\ Acyclic([t \in steps |-> {s \in steps : Precedes(mods, s, t)}])

\* A plan holds each step of the selected modules once, none before one it
\* depends on, and its removal takes none away before what depends on it.
Sound(mods, sel, order) ==
    LET steps   == SelectedSteps(mods, sel)
        removal == BuildRemovalPlan(order, Selected(mods, sel))
    IN /\ Range(order) = steps /\ Len(order) = Cardinality(steps)
       /\ \A i, j \in DOMAIN order : i < j => ~Precedes(mods, order[j], order[i])
       /\ removal.ok => \A i, j \in DOMAIN removal.steps : i < j =>
             \A s \in steps : s.id = removal.steps[j].id => removal.steps[i].id \notin s.deps
=============================================================================
