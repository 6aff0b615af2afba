------------------------ MODULE ArchitectureOverview ------------------------
(***************************************************************************)
(* The architecture page (architecture/engine.py, detectors.py): files     *)
(* become components, graph edges and conventions relations between them,  *)
(* and each domain with endpoints gets a flow.                             *)
(*                                                                         *)
(* Files, domains and technologies are numbers, in the order of their      *)
(* names; domain 0 is the operational one.  A repository r: roles (file -> *)
(* [role, domain, marker], what _score_file and domain_from_path say),     *)
(* endpoints ([file, domain]), edges ([source, target, label, support],    *)
(* between files), technologies (key -> [category, files]), package (file  *)
(* -> its top directory, for source files) and framework, whether a        *)
(* backend framework was found.  limits has the numbers the code is        *)
(* written with: 20 candidates, 8 domains and packages, 20 files of a      *)
(* component, 28 components, 40 relations, 3 flows of 6 steps.             *)
(***************************************************************************)
EXTENDS FiniteSets, Functions, Ordering

\* ROLE_RULES in the order of layer_order and, within a layer, of the names.
Roles == <<"entrypoint", "presentation", "api", "application", "domain", "data_access", "data_model",
           "messaging", "external_adapter">>
RankOf(role) == CHOOSE i \in DOMAIN Roles : Roles[i] = role
KindOf(role) == IF role = "data_model" THEN "data_access" ELSE role

BackendKinds == {"api", "application", "domain", "data_access", "messaging", "external_adapter"}

\* _component_order
LayerOf(c) ==
  CASE c.kind = "actor" -> -2 [] c.kind = "container" -> -1 [] c.kind = "infrastructure" -> 10
    [] c.kind = "module" -> 9 [] OTHER -> RankOf(c.kind) - 1

First(n, S) == {x \in S : Cardinality({y \in S : y < x}) < n}

\* _component
Component(kind, domain, role, support, files, limits) ==
  [kind |-> kind, domain |-> domain, role |-> role, support |-> support, files |-> First(limits.files, files)]

---------------------------------------------------------------------------
(* Components. *)

\* classify_files: one candidate per role and domain.
Candidates(r, limits) ==
  LET groups == {<<RankOf(r.roles[f].role), r.roles[f].domain>> : f \in DOMAIN r.roles}
      key    == [g \in groups |-> g]
      filesOf(g) == {f \in DOMAIN r.roles : <<RankOf(r.roles[f].role), r.roles[f].domain>> = g}
  IN [i \in 1..Min({Cardinality(groups), limits.candidates}) |->
        LET g == SortedBy(groups, key)[i]
        IN [role |-> Roles[g[1]], domain |-> g[2], files |-> filesOf(g),
            support |-> IF \E f \in filesOf(g) : r.roles[f].marker THEN "confirmed" ELSE "inferred"]]

EndpointFiles(r) == {e.file : e \in r.endpoints}

ApiComponents(r, limits) ==
  {Component("api", d, IF d = 0 THEN "operational" ELSE "api", "confirmed",
             {e.file : e \in {e \in r.endpoints : e.domain = d}}, limits) :
     d \in First(limits.domains, {e.domain : e \in r.endpoints})}

Presentation(candidates, limits) ==
  LET files == UNION {c.files : c \in {c \in Range(candidates) : c.role = "presentation"}}
  IN IF files = {} THEN {}
     ELSE {Component("actor", 0, "actor", "inferred", {}, limits),
           Component("presentation", 0, "presentation", "confirmed", files, limits)}

\* A candidate of the api whose files all have endpoints is covered by those; a
\* candidate whose name is taken, by endpoints or by the candidate of another
\* role of the same kind, is dropped.
OfCandidates(r, candidates, limits) ==
  {Component(KindOf(candidates[i].role), candidates[i].domain, candidates[i].role, candidates[i].support,
             candidates[i].files, limits) :
     i \in {i \in DOMAIN candidates :
              LET c == candidates[i]
                  sameName(other) == other.kind = KindOf(c.role) /\ other.domain = c.domain
              IN /\ c.role # "presentation"
                 /\ ~(c.role = "api" /\ c.files \subseteq EndpointFiles(r))
                 /\ ~\E other \in ApiComponents(r, limits) : sameName(other)
                 /\ ~\E j \in 1..(i - 1) : sameName([kind |-> KindOf(candidates[j].role), domain |-> candidates[j].domain])}}

Packages(r, limits) ==
  {Component("module", p, "package", "inferred", {f \in DOMAIN r.package : r.package[f] = p}, limits) :
     p \in First(limits.domains, Range(r.package))}

Backend(r, components, limits) ==
  LET children == {c \in components : c.kind \in BackendKinds}
  IN IF children = {} THEN {}
     ELSE {Component("container", 0, "backend_container", IF r.framework THEN "confirmed" ELSE "inferred",
                     UNION {c.files : c \in children}, limits)}

Infrastructure(r, limits) ==
  {Component("infrastructure", t, r.technologies[t].category, "confirmed", r.technologies[t].files, limits) :
     t \in DOMAIN r.technologies}

\* Packages stand in when no rule found a component of the program.
Grouped(r, found, limits) ==
  IF \E c \in found : c.kind \in BackendKinds \cup {"presentation"} THEN found
  ELSE found \cup Packages(r, limits)

\* Within a layer the code sorts by label; here by domain and role.
InOrder(components) ==
  LET roleRank(c) == IF c.role = "data_model" THEN 1 ELSE 0
  IN SortedBy(components, [c \in components |-> <<LayerOf(c), c.domain, roleRank(c)>>])

\* _build_components
Completed(r, grouped, limits) ==
  InOrder(grouped \cup Backend(r, grouped, limits) \cup Infrastructure(r, limits))

Components(r, candidates, limits) ==
  Completed(r, Grouped(r, Presentation(candidates, limits) \cup ApiComponents(r, limits)
                             \cup OfCandidates(r, candidates, limits), limits), limits)

---------------------------------------------------------------------------
(* Relations: [source, target, label, support], between components.        *)

Weight(support) == IF support = "confirmed" THEN 0 ELSE 1

FirstWhere(components, Test(_)) ==
  LET found == {i \in DOMAIN components : Test(components[i])}
  IN {components[i] : i \in First(1, found)}

\* The component a file's edges count for: the first one that lists it.
Owner(components, f) ==
  FirstWhere(components, LAMBDA c : c.kind \notin {"actor", "container", "infrastructure"} /\ f \in c.files)

Relation(s, t, label, support) == [source |-> s, target |-> t, label |-> label, support |-> support]

OfEdges(r, components) ==
  UNION {{Relation(s, t, e.label, e.support) : s \in Owner(components, e.source), t \in Owner(components, e.target)} :
           e \in {e \in r.edges : e.label \notin {"contains", "defined_in"}}}

\* Relations from the actor and the presentation.
OfPresentation(components) ==
  LET of(kind) == {c \in Range(components) : c.kind = kind}
  IN {Relation(a, p, "uses", "inferred") : a \in of("actor"), p \in of("presentation")}
     \cup {Relation(p, b, "HTTP / JSON", "inferred") : p \in of("presentation"), b \in of("container")}

Conventions == {<<"api", "application", "calls">>, <<"application", "domain", "uses">>,
                <<"application", "data_access", "reads / writes">>, <<"domain", "data_access", "uses">>}

\* _add_convention_relations: the component of the next layer for the same
\* domain, or else the only one there is.
OfConventions(components) ==
  LET of(kind) == {c \in Range(components) : c.kind = kind}
      next(kind, domain) ==
        LET same == FirstWhere(components, LAMBDA c : c.kind = kind /\ c.domain = domain)
        IN IF same # {} THEN same ELSE IF Cardinality(of(kind)) = 1 THEN of(kind) ELSE {}
  IN UNION {UNION {{Relation(s, t, p[3], "inferred") : t \in next(p[2], s.domain)} :
                     s \in {c \in of(p[1]) : c.role # "operational"}} : p \in Conventions}

PreferredKind(category) ==
  CASE category \in {"database", "cache", "vector_store", "object_store"} -> "data_access"
    [] category = "message_broker" -> "messaging"
    [] category = "external_api"   -> "external_adapter"

\* A technology belongs to a component that has a file with its marker.
OfTechnologies(r, components) ==
  LET eligible(t, c) == /\ c.kind \notin {"actor", "presentation", "container", "api", "infrastructure"}
                        /\ c.files \cap r.technologies[t].files # {}
      owner(t) ==
        LET preferred == FirstWhere(components, LAMBDA c : eligible(t, c)
                                                   /\ c.kind = PreferredKind(r.technologies[t].category))
        IN IF preferred # {} THEN preferred ELSE FirstWhere(components, LAMBDA c : eligible(t, c))
  IN UNION {{Relation(o, c, "technology", "confirmed") : o \in owner(c.domain)} :
              c \in {c \in Range(components) : c.kind = "infrastructure"}}

\* _build_relations: of two relations with the same ends and label the better
\* supported one stays.
Relations(r, components) ==
  LET added == {a \in OfPresentation(components) \cup OfEdges(r, components) \cup OfConventions(components)
                        \cup OfTechnologies(r, components) : a.source # a.target}
  IN {a \in added : ~\E b \in added : /\ [b EXCEPT !.support = a.support] = a
                                      /\ Weight(b.support) < Weight(a.support)}

---------------------------------------------------------------------------
(* Flows. *)

\* The relation a flow follows from its last component: best supported first,
\* then in the order of the components.
NextStep(steps, components, relations) ==
  LET position(c) == CHOOSE i \in DOMAIN components : components[i] = c
      open == {a \in relations :
                 /\ a.source = steps[Len(steps)].component
                 /\ a.target.kind \notin {"presentation", "container"}
                 /\ a.target.role # "operational"
                 /\ \A i \in DOMAIN steps : steps[i].component # a.target}
      choices == {<<Weight(a.support), position(a.target)>> : a \in open}
  IN {[component |-> components[p[2]], support |-> IF p[1] = 0 THEN "confirmed" ELSE "inferred"] :
        p \in {p \in choices : \A q \in choices : ~Before(q, p)}}

\* The flow of a domain: from the presentation and its api along relations.
Flow(domain, components, relations, limits) ==
  LET of(kind, d) == {c \in Range(components) : c.kind = kind /\ c.domain = d}
      start == [i \in 1..Cardinality(of("presentation", 0)) |->
                  [component |-> CHOOSE c \in of("presentation", 0) : TRUE, support |-> "inferred"]]
               \o <<[component |-> CHOOSE c \in of("api", domain) : TRUE, support |-> "confirmed"]>>
      walk[k \in 0..limits.steps] ==
        IF k = 0 THEN start
        ELSE LET steps == walk[k - 1]
                 next  == NextStep(steps, components, relations)
             IN IF Len(steps) >= limits.steps \/ next = {} THEN steps
                ELSE Append(steps, CHOOSE s \in next : TRUE)
  IN walk[limits.steps]

\* _build_flows: by domain.
Flows(r, components, relations, limits) ==
  LET domains == {e.domain : e \in r.endpoints} \ {0}
  IN [d \in {d \in First(limits.flows, domains) : \E c \in Range(components) : c.kind = "api" /\ c.domain = d} |->
        Flow(d, components, relations, limits)]

OverviewOf(r, components, relations, limits) ==
  [components |-> components, relations |-> relations, flows |-> Flows(r, components, relations, limits)]

\* build, before it cuts the components to 28 and the relations to 40
Overview(r, limits) ==
  LET components == Components(r, Candidates(r, limits), limits)
  IN OverviewOf(r, components, Relations(r, components), limits)

---------------------------------------------------------------------------
Listing(o, f) ==
  {c \in Range(o.components) : c.kind \notin {"actor", "container", "infrastructure"} /\ f \in c.files}

\* Every file a rule recognised is in a component, unless its own is full, has
\* its name taken by another one of that kind and domain, or is beyond the
\* number of candidates or domains (classify_files, _build_components).
FilesAreShown(r, o, limits) ==
  \A f \in DOMAIN r.roles :
    \/ Listing(o, f) # {}
    \/ \E c \in Range(o.components) :
         c.kind = KindOf(r.roles[f].role) /\ (c.domain = r.roles[f].domain \/ c.kind = "presentation")
    \/ Cardinality({<<r.roles[g].role, r.roles[g].domain>> : g \in DOMAIN r.roles}) > limits.candidates
    \/ Cardinality({e.domain : e \in r.endpoints}) > limits.domains

\* An edge between the files of two components shows between some two that list
\* them, as well supported as it is (_build_relations).
EdgesAreDrawn(r, o) ==
  \A e \in {e \in r.edges : e.label \notin {"contains", "defined_in"}} :
    LET from == Listing(o, e.source)
        to   == Listing(o, e.target)
    IN from # {} /\ to # {} =>
         \/ from \cap to # {}
         \/ \E a \in o.relations : /\ a.source \in from /\ a.target \in to /\ a.label = e.label
                                  /\ Weight(a.support) <= Weight(e.support)

\* A flow never returns to a component, each of its steps is a relation with
\* the support it says, none better supported was left out, and it ends only at
\* its limit or where nothing leads on (_build_flows).
FlowsAreWalks(o, limits) ==
  \A d \in DOMAIN o.flows :
    LET steps  == o.flows[d]
        used(n) == {steps[i].component : i \in 1..n}
        from(n) == {a \in o.relations : /\ a.source = steps[n].component /\ a.target \notin used(n)
                                       /\ a.target.kind \notin {"container", "presentation"}
                                       /\ a.target.role # "operational"}
    IN /\ Len(steps) <= limits.steps
       /\ Cardinality(used(Len(steps))) = Len(steps)
       /\ \A i \in 2..Len(steps) : steps[i].component.kind # "api" \/ steps[i].component.domain # d =>
            /\ \E a \in from(i - 1) : a.target = steps[i].component /\ a.support = steps[i].support
            /\ \A a \in from(i - 1) : Weight(steps[i].support) <= Weight(a.support)
       /\ Len(steps) = limits.steps \/ from(Len(steps)) = {}
=============================================================================
